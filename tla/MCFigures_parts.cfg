SPECIFICATION FiguresPartsSpec
CONSTANTS
  Pizzerias = {"p1", "p2"}
  Rate <- TakingsRate
  Moments <- SomeMoments
  MaxBuilds = 2
  Titles = {"sales", "delivery", "extra", "costs", "food", "flour", "courier",
            "wages", "office", "loan", "other expenses", "dividends", "deposit",
            "ovens", "cash", "income", "expenses", "profit", "a", "b", "c"}
  Says <- Words
  Trees <- SomeTrees
  Admins = {anna, boris}
  WrittenMetrics <- MonthMetrics
  LinesNamed <- LineRefs
  MaxSaves = 3
  Projects = {"p1", "p2"}
  Categories <- MonthCategories
  Parts <- MonthParts
  MaxParts = 2
  Filters = {{}, {"p1"}}
  Levels = {60}
  TitleLevel <- TitleLevels
  CalcLine <- CalcLines
  CalcPct <- CalcShares
  ValueOf <- Evaluate
  FirstMoment <- AMoment
  TemplateInputs <- OverlappingSaves
  MonthInputs <- OneMonth
  Units = {"p1"}
  Codes = {"UC"}
  Months = {1, 2}
  Network = Network
  Always = Always
  Values = {1, 2}
  MaxEdits = 4
INVARIANTS TypesOK LikeForLike SnapshotRendersAsRaw V2AgreesWithRaw DrillExplainsAmount ProfitIsTheFlow HistoryAgreesWithReport
SYMMETRY AnyAdministrator
PROPERTIES KeptPathsKeepLines CopiedMonthFollows
\* The changes are used up: bounds.
CHECK_DEADLOCK FALSE

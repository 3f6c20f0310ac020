CONSTANTS
  DateSheet = DateSheet
  CommonSheet = CommonSheet
  PeriodSheet = PeriodSheet
  ListSheet = ListSheet
  DepartSheet = DepartSheet
  Today <- MCToday
  Begins <- MCBegins
  Picks <- MCPicks
  Columns = {2, 3}
  FirstCount = 2
  Seconds <- MCSeconds
  Thirds <- MCThirds
  FirstDay = 3
  LastDay = 4
  Given <- MCGiven
  Presets = {1, 2}
  Model = {1, 2, 3, 4, 5}
  Multi = {4, 5}
  Lists <- MCLists
  NoModel = NoModel
  Departments <- MCDepartments
  GivenDepartments <- MCGivenDepartments
  NoDepartment = NoDepartment
SPECIFICATION SheetsSpec
INVARIANTS
  DateTypeOK
  ReportedIsShown
  OffersBeginToToday
  CommonTypeOK
  ToldIsShown
  CrashesForAReason
  PeriodTypeOK
  SavesAPeriod
  WheelShowsLabel
  ListTypeOK
  OneChoice
  CrashesOnlyReopened
  TitleIsChosen
\* A sheet whose app crashed or that the app misled stops.
CHECK_DEADLOCK FALSE

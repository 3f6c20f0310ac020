CONSTANTS
  Columns = {2, 3}
  FirstCount = 2
  Seconds <- MCSeconds
  Thirds <- MCThirds
  DateSheet = DateSheet
  CommonSheet = CommonSheet
  PeriodSheet = PeriodSheet
  ListSheet = ListSheet
  DepartSheet = DepartSheet
  Today <- MCToday
  Begins <- MCBegins
  Picks <- MCPicks
  FirstDay = 3
  LastDay = 4
  Given <- MCGiven
  Presets = {1, 2}
  Model = {1, 2, 3, 4, 5}
  Multi = {4, 5}
  Lists <- MCLists
  NoModel = NoModel
  Departments <- MCDepartments
  GivenDepartments <- MCGivenDepartments
  NoDepartment = NoDepartment
SPECIFICATION SheetsSpec
INVARIANTS
  ConfirmedIsShown
CHECK_DEADLOCK FALSE

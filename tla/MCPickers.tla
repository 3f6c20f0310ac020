----------------------------- MODULE MCPickers -----------------------------
(***************************************************************************)
(* The sheets and lists to choose from, one of which is on the screen at a *)
(* time.  They share nothing, and each is made anew (RCPickerDemoVC.m:79).  *)
(***************************************************************************)
EXTENDS STPickerDate, STRCCommonPickerView, DoubleDatePickerView,
        KPDepartSelectPopView

CONSTANTS DateSheet, CommonSheet, PeriodSheet, ListSheet, DepartSheet

VARIABLE sheet      \* the sheet that the user asked for

TheDay(y, m, d) == [year |-> y, month |-> m, day |-> d]

(* A leap year's early March.                                               *)
MCToday == TheDay(2016, 3, 2)
MCBegins == {TheDay(2014, 11, 30), TheDay(2015, 12, 31), TheDay(2016, 2, 29)}
MCPicks == {TheDay(2015, 2, 28), TheDay(2016, 3, 1)}

(* Some third lists are missing.                                            *)
MCSeconds == [f \in 0..1 |-> 3 - f]
MCThirds == [f \in 0..1 |-> [s \in 0..(2 - f) |-> IF f = 0 THEN s ELSE 3]]

MCGiven == { Nothing, [begin |-> 1, end |-> 2], [begin |-> 2, end |-> NoDay],
             [begin |-> NoDay, end |-> 3] }

(* Models 4 and 5 sort; the first two are selected like departments.        *)
MCLists == { <<1, 2>>, <<4, 5>>, <<3, 4, 1>> }

(* Two departments of one name, and one that is not in the list.            *)
Department(n, name) == [id |-> n, name |-> name]
MCDepartments == << Department(2, "east"), Department(0, "main"), Department(1, "east") >>
MCGivenDepartments == { NoDepartment, Department(7, "closed") }

SheetsInit ==
  /\ sheet \in {DateSheet, CommonSheet, PeriodSheet, ListSheet, DepartSheet}
  /\ DateInit
  /\ CommonInit /\ (sheet # CommonSheet => componentNum = 3)
  /\ PeriodInit
  /\ ListInit /\ (sheet # ListSheet => isAutoPop)
  /\ createData /\ (sheet # DepartSheet => ~stray)

Others(s) ==
  /\ UNCHANGED sheet
  /\ s # DateSheet => UNCHANGED dateVars
  /\ s # CommonSheet => UNCHANGED commonVars
  /\ s # PeriodSheet => UNCHANGED periodVars
  /\ s \notin {ListSheet, DepartSheet} => UNCHANGED listVars
  /\ s # DepartSheet => UNCHANGED popVars

SheetsNext ==
  /\ \/ sheet = DateSheet /\ DateNext
     \/ sheet = CommonSheet /\ CommonNext
     \/ sheet = PeriodSheet /\ PeriodNext
     \/ sheet = ListSheet /\ ListNext
     \/ sheet = DepartSheet /\ DepartNext
  /\ Others(sheet)

sheetVars == <<sheet, dateVars, commonVars, periodVars, listVars, popVars>>

SheetsSpec == SheetsInit /\ [][SheetsNext]_sheetVars
=============================================================================

---------------------------- MODULE STPickerDate ----------------------------
(***************************************************************************)
(* A sheet with wheels for year, month and day, from a begin date to today. *)
(* The rows of a wheel depend on the rows of the wheels before it; the     *)
(* first year and the first month begin late, the current ones end early.  *)
(* UIPickerView asks for the number of rows when it reloads.               *)
(***************************************************************************)
EXTENDS UIPickerView

CONSTANTS
  Today,      \* [year, month, day], what NSCalendar calls current
  Begins,     \* the begin dates that the app sets
  Picks       \* the dates that the app selects

VARIABLES
  least,          \* yearLeast, monthLeast, dayLeast
  yearSum,
  leastMonthNum,
  date,           \* _year, _month, _day: the date selected
  index,          \* firIndex, secIndex, thdIndex
  count,          \* UIPickerView: the rows each wheel was told to have
  row,            \* UIPickerView: the row each wheel rests at
  base,           \* UIPickerView: what row 0 of each wheel is labelled
  shown,
  report,         \* history: what the delegate was told when the sheet was
                  \* last left with OK, and what the wheels showed
  misled          \* history: limits or selections the code does not follow

dateVars == <<least, yearSum, leastMonthNum, date, index, count, row, base,
              shown, report, misled>>

Wheel == 1..3
NoReport == [told |-> Today, seen |-> Today]
Date == [year : Int, month : Int, day : Int]

Before(d, e) ==
  \/ d.year < e.year
  \/ d.year = e.year /\ d.month < e.month
  \/ d.year = e.year /\ d.month = e.month /\ d.day < e.day

----------------------------------------------------------------------------
(* NSCalendar+ST.                                                           *)
IsLeap(year) == year % 400 = 0 \/ (year % 100 # 0 /\ year % 4 = 0)

MonthLength(year, month) ==
  CASE month \in {1, 3, 5, 7, 8, 10, 12} -> 31
    [] month \in {4, 6, 9, 11} -> 30
    [] month = 2 -> IF IsLeap(year) THEN 29 ELSE 28
    [] OTHER -> 0

getDays(year, month) ==
  IF year = Today.year /\ month = Today.month THEN Today.day
  ELSE MonthLength(year, month)

(* A day of the calendar.                                                   *)
IsDay(d) ==
  d \in Date /\ d.month \in 1..12 /\ d.day \in 1..MonthLength(d.year, d.month)

(* The wheels begin in 2015, a year that is over, as long as the app says   *)
(* nothing else.                                                            *)
ASSUME DateAssumption ==
  /\ IsDay(Today) /\ Today.year > 2015
  /\ \A d \in Begins \cup Picks : IsDay(d) /\ ~Before(Today, d)

(* Mutant: forgets that the current year is not over.                       *)
getLastMonthAlways(year) == 12

getLastMonth(year) == IF year = Today.year THEN Today.month ELSE 12

----------------------------------------------------------------------------
(* What row 0 of each wheel stands for, given the three indices.            *)

(* Mutant: the first month of every year begins late.                       *)
BaseOfFirstMonth(idx) ==
  << least.year,
     IF idx[1] = 0 THEN least.month ELSE 1,
     IF idx[2] = 0 THEN least.day ELSE 1 >>

Base(idx) ==
  << least.year,
     IF idx[1] = 0 THEN least.month ELSE 1,
     IF idx[1] = 0 /\ idx[2] = 0 THEN least.day ELSE 1 >>

(* pickerView:numberOfRowsInComponent: for the three wheels.                *)
Counts(idx) ==
  LET year == idx[1] + Base(idx)[1]
      month == idx[2] + Base(idx)[2]
  IN << yearSum,
        IF idx[1] = 0 THEN leastMonthNum - least.month + 1
        ELSE getLastMonth(year),
        getDays(year, month) - Base(idx)[3] + 1 >>

DateAt(b, rows) ==
  [year |-> rows[1] + b[1], month |-> rows[2] + b[2], day |-> rows[3] + b[3]]

(* reloadAllComponents, with the wheels at these rows.                      *)
Reload(rows, idx) ==
  LET n == Counts(idx)
  IN /\ count' = n
     /\ row' = [w \in Wheel |-> Within(rows[w], n[w])]

----------------------------------------------------------------------------
DateInit ==
  /\ least = [year |-> 2015, month |-> 1, day |-> 1]
  /\ yearSum = Today.year - 2015 + 1
  /\ leastMonthNum = 12
  /\ date = Today
  /\ index = <<0, 0, 0>>
  /\ count = <<0, 0, 0>>
  /\ row = <<NoRow, NoRow, NoRow>>
  /\ base = <<0, 0, 0>>
  /\ shown = FALSE
  /\ report = NoReport
  /\ misled = FALSE

Loaded == count # <<0, 0, 0>>

(* The year wheel ends at the year selected when the limits are set, and    *)
(* loaded wheels do not follow; a month as begin keeps the old day.         *)
FollowsLimits(first) ==
  /\ ~Loaded
  /\ date.year = Today.year
  /\ first.day = least'.day

(* Mutant: sets the month before the year.                                  *)
LimitsEarly(first) ==
  /\ least' = first
  /\ yearSum' = date.year - first.year + 1
  /\ leastMonthNum' = IF least.year = date.year THEN Today.month ELSE 12

(* setYearLeast:, then setMonthLeast:.                                      *)
Limits(first) ==
  /\ least' = first
  /\ yearSum' = date.year - first.year + 1
  /\ leastMonthNum' = IF first.year = date.year THEN Today.month ELSE 12

(* Bound: once misled, the app calls nothing but show.                      *)
(* setBeginTime: with a day, or with eight digits cut to six.               *)
setBeginTime(first, hasDay) ==
  /\ ~misled
  /\ Limits([first EXCEPT !.day = IF hasDay THEN @ ELSE least.day])
  /\ misled' = (misled \/ ~FollowsLimits(first))
  /\ UNCHANGED <<date, index, count, row, base, shown, report>>

(* selectYear:selectMonth:selectDay:, setSelectLastOne: the indices first,  *)
(* then the wheels.                                                         *)
SelectIndices(idx) ==
  /\ index' = idx
  /\ Reload(idx, idx)
  /\ base' = Base(idx)

IndicesOf(d) ==
  LET year == d.year - least.year
      month == d.month - (IF year = 0 THEN least.month ELSE 1)
  IN << year, month,
        d.day - (IF year = 0 /\ month = 0 THEN least.day ELSE 1) >>

selectYearMonthDay(d) ==
  /\ ~misled
  /\ date' = d
  /\ SelectIndices(IndicesOf(d))
  /\ misled' = (misled \/ Before(d, least))
  /\ UNCHANGED <<least, yearSum, leastMonthNum, shown, report>>

(* setSelectLastOne counts from the first of January also in the first year. *)
setSelectLastDate ==
  /\ ~misled
  /\ SelectIndices(<<date.year - least.year, date.month - 1, date.day - 1>>)
  /\ misled' = (misled \/ (date.year = least.year /\ least.month > 1))
  /\ UNCHANGED <<least, yearSum, leastMonthNum, date, shown, report>>

----------------------------------------------------------------------------
(* pickerView:didSelectRow:inComponent:.  The indices as the switch leaves  *)
(* them, and where it sends the other wheels.                               *)
Edge(r) == r = 0 \/ r = count[1] - 1

IndexAfter(w, r) ==
  CASE w = 1 /\ index[1] # r /\ Edge(r) -> <<r, 0, 0>>
    [] w = 1 /\ ~(index[1] # r /\ Edge(r)) -> [index EXCEPT ![1] = r]
    [] w = 2 -> <<index[1], r, r>>      \* there is no break
    [] w = 3 -> [index EXCEPT ![3] = r]

(* Mutant: leaves the other wheels where they are.                          *)
RowsAfterSpin(w, r) == [row EXCEPT ![w] = r]

RowsAfter(w, r) ==
  IF w = 1 /\ index[1] # r /\ Edge(r)
  THEN << r, Within(0, count[2]), Within(0, count[3]) >>
  ELSE [row EXCEPT ![w] = r]

(* Mutant: the indices are not read back after the reload.                  *)
ReadNothing ==
  /\ index' = index
  /\ date' = DateAt(Base(index), index)

(* reloadData reads the wheels.                                             *)
ReloadData ==
  /\ index' = row'
  /\ date' = DateAt(Base(row'), row')

didSelectDateRow(w, r) ==
  /\ shown
  /\ Reload(RowsAfter(w, r), IndexAfter(w, r))
  /\ ReloadData
  /\ base' = Base(row')
  /\ UNCHANGED <<least, yearSum, leastMonthNum, shown, report, misled>>

(* The sheet appears, and its wheels are loaded.                            *)
show ==
  /\ ~shown
  /\ shown' = TRUE
  /\ Reload(row, index)
  /\ base' = Base(index)
  /\ report' = NoReport
  /\ UNCHANGED <<least, yearSum, leastMonthNum, date, index, misled>>

(* The delegate is told a date, and then that the sheet goes.               *)
selectedOk ==
  /\ shown
  /\ row' = row
  /\ ReloadData
  /\ report' = [told |-> date', seen |-> DateAt(base, row)]
  /\ shown' = FALSE
  /\ UNCHANGED <<least, yearSum, leastMonthNum, count, base, misled>>

remove ==
  /\ shown
  /\ shown' = FALSE
  /\ UNCHANGED <<least, yearSum, leastMonthNum, date, index, count, row, base,
                 report, misled>>

DateNext ==
  \/ \E d \in Begins, hasDay \in BOOLEAN : setBeginTime(d, hasDay)
  \/ \E d \in Picks : selectYearMonthDay(d)
  \/ setSelectLastDate
  \/ \E w \in Wheel : \E r \in 0..(count[w] - 1) : didSelectDateRow(w, r)
  \/ show
  \/ selectedOk
  \/ remove

DateSpec == DateInit /\ [][DateNext]_dateVars

----------------------------------------------------------------------------
DateTypeOK ==
  /\ least \in Date
  /\ yearSum \in Int
  /\ leastMonthNum \in {12, Today.month}
  /\ date \in Date
  /\ index \in [Wheel -> Int]
  /\ count \in [Wheel -> Int]
  /\ row \in [Wheel -> Int]
  /\ base \in [Wheel -> Int]
  /\ shown \in BOOLEAN
  /\ report \in [told : Date, seen : Date]
  /\ misled \in BOOLEAN
  /\ Loaded /\ ~misled =>
       \A w \in Wheel : count[w] \in 1..(31 + yearSum) /\ row[w] \in 0..(count[w] - 1)

(* The date that the delegate is told is the one that the wheels showed     *)
(* (STPickerDate.m:228-268).                                                *)
ReportedIsShown == ~misled => report.told = report.seen

(* A date of the calendar between the begin and today.                      *)
Offered(d) ==
  /\ d.day \in 1..MonthLength(d.year, d.month)
  /\ ~Before(d, least)
  /\ ~Before(Today, d)

Labels(w) == base[w]..(base[w] + count[w] - 1)

(* STPickerDate.h:10, "this DatePicker shows the dates from the begin date  *)
(* to today": each wheel offers all dates that agree with the wheels before *)
(* it, and no other, although its rows are counted from indices that may    *)
(* not be the wheels' (STPickerDate.m:133-155, 162-195).                    *)
OffersBeginToToday ==
  shown /\ ~misled =>
    LET at == DateAt(base, row)
    IN /\ Labels(1) = least.year..Today.year
       /\ Labels(2) = {m \in 1..12 :
                         \E d \in 1..31 : Offered([at EXCEPT !.month = m, !.day = d])}
       /\ Labels(3) = {d \in 1..31 : Offered([at EXCEPT !.day = d])}
       /\ Offered(at)
=============================================================================

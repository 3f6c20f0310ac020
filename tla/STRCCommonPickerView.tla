------------------------ MODULE STRCCommonPickerView ------------------------
(***************************************************************************)
(* A sheet with two or three wheels over data that the app passes: the     *)
(* rows of the second wheel belong to a row of the first, those of the     *)
(* third to a row of each.  A value is named by the rows that lead to it.  *)
(* UIPickerView asks for the rows of a wheel when it loads or reloads it,  *)
(* the first time whenever it likes or when a row is selected.             *)
(***************************************************************************)
EXTENDS UIPickerView, Sequences

CONSTANTS
  Columns,     \* the numbers of wheels of the sheets that the app makes
  FirstCount,  \* firstArr.count
  Seconds,     \* [first row -> number of rows in secondDict]
  Thirds       \* [first row -> [second row -> rows in thirdDict, 0 if none]]

Upto(n) == 0..(n - 1)

ASSUME DataAssumption ==
  /\ Columns \subseteq {2, 3}
  /\ FirstCount \in Nat \ {0}
  /\ Seconds \in [Upto(FirstCount) -> Nat \ {0}]
  /\ DOMAIN Thirds = Upto(FirstCount)
  /\ \A f \in Upto(FirstCount) : Thirds[f] \in [Upto(Seconds[f]) -> Nat]

VARIABLES
  componentNum,
  firIndex, secIndex, thdIndex,
  wheel,       \* UIPickerView: the row each wheel rests at
  loaded,      \* UIPickerView: the wheels have been loaded,
  secondOf,    \* ... the second one for this row of the first,
  thirdOf,     \* ... the third one for these rows of the others
  onScreen,
  crashed,
  confirmed,   \* history: what was told when the sheet was last left with
               \* OK, and what the wheels showed
  moved,       \* history: the third wheel was moved since the user turned it
  astray       \* history: rows were selected that the wheels were not loaded for

wheelVars == <<wheel, loaded, secondOf, thirdOf>>
commonVars == <<componentNum, firIndex, secIndex, thdIndex, wheelVars, onScreen,
                crashed, confirmed, moved, astray>>

NothingConfirmed == [told |-> <<>>, seen |-> <<>>]

(* pickerView:numberOfRowsInComponent: of each wheel, as it was loaded.     *)
ThirdCount(path) == IF componentNum = 3 THEN Thirds[path[1]][path[2]] ELSE 0

RowCount(w) ==
  CASE w = 1 -> FirstCount [] w = 2 -> Seconds[secondOf] [] w = 3 -> ThirdCount(thirdOf)

(* After initWithFrame: and setupData:.                                      *)
CommonInit ==
  /\ componentNum \in Columns
  /\ firIndex = 0 /\ secIndex = 0 /\ thdIndex = 0
  /\ wheel = <<0, 0, 0>>
  /\ loaded = FALSE
  /\ secondOf = 0
  /\ thirdOf = <<0, 0>>
  /\ onScreen = FALSE
  /\ crashed = FALSE
  /\ confirmed = NothingConfirmed
  /\ moved = FALSE
  /\ astray = FALSE

----------------------------------------------------------------------------
(* The wheels are put at these rows; if they were not loaded yet, they are  *)
(* loaded for the indices f and s.                                          *)
PutWheels(f, s, rows) ==
  /\ loaded' = TRUE
  /\ secondOf' = IF loaded THEN secondOf ELSE f
  /\ thirdOf' = IF loaded THEN thirdOf ELSE <<f, s>>
  /\ wheel' = << Within(rows[1], FirstCount),
                 Within(rows[2], Seconds[secondOf']),
                 Within(rows[3], ThirdCount(thirdOf')) >>

Layout ==
  /\ ~loaded
  /\ PutWheels(firIndex, secIndex, wheel)
  /\ UNCHANGED <<firIndex, secIndex, thdIndex, onScreen, crashed, confirmed, moved, astray>>

(* selectFirIndex:secIndex:thdIndex: reloads nothing, and keeps thdIndex.   *)
Fits(f, s) == secondOf = f /\ (componentNum = 3 => thirdOf = <<f, s>>)

Select(f, s, t) ==
  /\ ~crashed
  /\ firIndex' = f
  /\ secIndex' = s
  /\ PutWheels(f, s, <<f, s, t>>)
  /\ moved' = TRUE
  /\ astray' = (astray \/ (loaded /\ ~Fits(f, s)))
  /\ UNCHANGED <<onScreen, crashed, confirmed>>

selectIndices(f, s, t) == Select(f, s, t) /\ thdIndex' = thdIndex

(* Mutant: counts the rows of the second wheel as it is.                    *)
SelectLastOfThese ==
  /\ Select(FirstCount - 1, Seconds[secondOf] - 1, NoRow)
  /\ thdIndex' = NoRow

(* The third list is looked up by the wrong key, and found empty.           *)
setSelectLastOne ==
  /\ Select(FirstCount - 1, Seconds[FirstCount - 1] - 1, NoRow)
  /\ thdIndex' = NoRow

----------------------------------------------------------------------------
(* pickerView:didSelectRow:inComponent:.  Whether a row is another than the *)
(* one before, so that the wheels behind are put to row 0 and reloaded.     *)

(* Mutant: only the first wheel has others behind it.                       *)
FirstTurned(w, r) == w = 1 /\ firIndex # r

(* Mutant: only the second wheel has one behind it.                         *)
SecondTurned(w, r) == w = 2 /\ secIndex # r

Turned(w, r) == (w = 1 /\ firIndex # r) \/ (w = 2 /\ secIndex # r)

Crash ==
  /\ crashed' = TRUE
  /\ UNCHANGED <<firIndex, secIndex, thdIndex, wheelVars, onScreen, confirmed,
                 moved, astray>>

(* The rows that the first two indices are left with.                       *)
RowsThen(w, r) ==
  << IF w = 1 THEN r ELSE wheel[1],
     IF w = 2 THEN r ELSE IF Turned(w, r) THEN 0 ELSE wheel[2] >>

(* The second row must be one of the list for the first index.              *)
OutOfRange(w, r) ==
  LET f == IF w = 1 THEN r ELSE firIndex
  IN RowsThen(w, r)[2] \notin Upto(Seconds[f])

Spun(w, r) ==
  LET rows == RowsThen(w, r)
  IN /\ firIndex' = rows[1]
     /\ secIndex' = rows[2]
     /\ thdIndex' = IF w = 3 THEN r ELSE thdIndex
     /\ secondOf' = IF w = 1 /\ Turned(w, r) THEN r ELSE secondOf
     /\ thirdOf' = IF Turned(w, r) THEN rows ELSE thirdOf
     /\ wheel' = << rows[1], rows[2],
                    IF Turned(w, r) THEN Within(0, ThirdCount(rows))
                    ELSE IF w = 3 THEN r ELSE wheel[3] >>
     /\ moved' = (w # 3 /\ (moved \/ Turned(w, r)))
     /\ astray' = (astray /\ ~(w = 1 /\ Turned(w, r)))
     /\ UNCHANGED <<loaded, onScreen, crashed, confirmed>>

didSelectRow(w, r) ==
  /\ onScreen /\ loaded /\ ~crashed
  /\ IF OutOfRange(w, r) THEN Crash ELSE Spun(w, r)

----------------------------------------------------------------------------
showSheet ==
  /\ ~onScreen /\ ~crashed
  /\ onScreen' = TRUE
  /\ confirmed' = NothingConfirmed
  /\ UNCHANGED <<firIndex, secIndex, thdIndex, wheelVars, crashed, moved, astray>>

Values(f, second, s, third, t) ==
  IF componentNum = 3 THEN << <<f>>, <<second, s>>, third \o <<t>> >>
  ELSE << <<f>>, <<second, s>> >>

Missing == componentNum = 3 /\ thdIndex \notin Upto(Thirds[firIndex][secIndex])

(* selectedOk: there may be no value for the third index.                   *)
confirmSheet ==
  /\ onScreen /\ loaded /\ ~crashed
  /\ IF Missing THEN Crash
     ELSE /\ confirmed' =
               [told |-> Values(firIndex, firIndex, secIndex,
                                <<firIndex, secIndex>>, thdIndex),
                seen |-> Values(wheel[1], secondOf, wheel[2], thirdOf, wheel[3])]
          /\ onScreen' = FALSE
          /\ UNCHANGED <<firIndex, secIndex, thdIndex, wheelVars, crashed,
                         moved, astray>>

removeSheet ==
  /\ onScreen /\ ~crashed
  /\ onScreen' = FALSE
  /\ UNCHANGED <<firIndex, secIndex, thdIndex, wheelVars, crashed, confirmed,
                 moved, astray>>

(* The app selects rows that its data has.                                  *)
CommonNext ==
  /\ UNCHANGED componentNum
  /\ \/ Layout
     \/ \E f \in Upto(FirstCount) : \E s \in Upto(Seconds[f]) :
          \E t \in {0} \cup Upto(Thirds[f][s]) : selectIndices(f, s, t)
     \/ setSelectLastOne
     \/ \E w \in 1..3 : \E r \in Upto(RowCount(w)) : didSelectRow(w, r)
     \/ showSheet
     \/ confirmSheet
     \/ removeSheet

CommonSpec == CommonInit /\ [][CommonNext]_commonVars

----------------------------------------------------------------------------
(* What must hold.                                                          *)

CommonTypeOK ==
  /\ componentNum \in Columns
  /\ firIndex \in Upto(FirstCount)
  /\ secIndex \in Upto(Seconds[firIndex])
  /\ thdIndex \in Int
  /\ wheel \in [1..3 -> Int]
  /\ loaded \in BOOLEAN
  /\ secondOf \in Upto(FirstCount)
  /\ thirdOf \in Upto(FirstCount) \X Nat /\ thirdOf[2] \in Upto(Seconds[thirdOf[1]])
  /\ onScreen \in BOOLEAN
  /\ crashed \in BOOLEAN
  /\ DOMAIN confirmed.told = DOMAIN confirmed.seen
  /\ moved \in BOOLEAN
  /\ astray \in BOOLEAN

(* The values that the delegate is told are those that the wheels show      *)
(* (STRCCommonPickerView.m:136-175, 208-239): the first two always, the     *)
(* third as long as no other wheel took it along.                           *)
ToldIsShown ==
  ~astray => \A w \in DOMAIN confirmed.told :
               (w = 3 => ~moved) => confirmed.told[w] = confirmed.seen[w]

(* An index beyond its list is only met when the wheels were not loaded for *)
(* the rows selected (136-175) or, of the third list, when the index is     *)
(* that of another list or there is no list (208-239).                      *)
CrashesForAReason ==
  crashed => astray \/ (componentNum = 3 /\ (moved \/ ThirdCount(thirdOf) = 0))

(* STRCCommonPickerView.h:18, of the values told: "those selected in the    *)
(* first, second and third row".                                            *)
ConfirmedIsShown == confirmed.told = confirmed.seen
=============================================================================

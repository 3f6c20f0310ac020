------------------------ MODULE DoubleDatePickerView ------------------------
(***************************************************************************)
(* A sheet to choose a period: one UIDatePicker serves the begin and the   *)
(* end, whichever label is selected.  What is chosen is kept in the        *)
(* dictionary that the app passed, and so outlives the sheet.  Times are   *)
(* reduced to days: the begin is cut to the start of its day and the end   *)
(* moved to the end of its day when they are saved.                        *)
(***************************************************************************)
EXTENDS Integers

CONSTANTS
  FirstDay,   \* the day on which the first sheet opens
  LastDay,    \* bound: the model's last day
  Given,      \* the periods that the app puts into its dictionary
  Presets     \* days back of the buttons above: 30, 183 and 365 in the code

NoDay == 0    \* no entry in the dictionary, or the start of 1970
Day == 0..LastDay

ASSUME PeriodAssumption ==
  /\ FirstDay \in Nat /\ LastDay \in Nat
  /\ FirstDay \in 1..LastDay
  /\ Given \subseteq [begin : 0..FirstDay, end : 0..FirstDay]
  /\ \A g \in Given : g.end # NoDay => g.begin <= g.end
  /\ Presets \subseteq 1..(FirstDay - 1)

VARIABLES
  today,
  space,              \* dateSpace: BeginTimer and EndTimer
  hasDateKey,         \* dateSpace has DateKey, beside the app's BottomBtn
  beginLabelSelect,
  wheelDay,           \* UIDatePicker: date,
  minimum, maximum,   \* ... minimumDate, maximumDate
  periodUp,           \* the sheet is on the screen
  saved,              \* history: the period told when the sheet was left
  crossed             \* history: the begin was moved with an end in place

periodVars == <<today, space, hasDateKey, beginLabelSelect, wheelDay, minimum,
                maximum, periodUp, saved, crossed>>

Nothing == [begin |-> NoDay, end |-> NoDay]

(* UIDatePicker keeps its date within its limits.                           *)
Kept(d, low, high) == IF d < low THEN low ELSE IF d > high THEN high ELSE d

(* Mutant: there is no last day.                                            *)
SelectLabelEndless(isBegin, s, high) ==
  LET stored == IF isBegin THEN s.begin ELSE s.end
  IN /\ beginLabelSelect' = isBegin
     /\ minimum' = s.begin
     /\ wheelDay' = Kept(IF stored = NoDay THEN today ELSE stored, minimum', LastDay)

(* Mutant: the wheel stays where the other label had it.                    *)
SelectLabelAlone(isBegin, s, high) ==
  /\ beginLabelSelect' = isBegin
  /\ minimum' = s.begin
  /\ wheelDay' = Kept(wheelDay, minimum', high)

(* setBeginLabelSelect: the begin is the first day for both labels.         *)
SelectLabel(isBegin, s, high) ==
  LET stored == IF isBegin THEN s.begin ELSE s.end
  IN /\ beginLabelSelect' = isBegin
     /\ minimum' = s.begin
     /\ wheelDay' = Kept(IF stored = NoDay THEN today ELSE stored, minimum', high)

PeriodInit ==
  /\ today = FirstDay
  /\ space = Nothing
  /\ hasDateKey = FALSE
  /\ beginLabelSelect = TRUE
  /\ wheelDay = FirstDay
  /\ minimum = NoDay
  /\ maximum = FirstDay
  /\ periodUp = FALSE
  /\ saved = Nothing
  /\ crossed = FALSE

----------------------------------------------------------------------------
(* initWithDateSpace:block:, with a dictionary of the app's or with the one *)
(* of the last sheet, and show.                                             *)
OpenWith(s) ==
  /\ ~periodUp
  /\ periodUp' = TRUE
  /\ space' = s
  /\ maximum' = today
  /\ SelectLabel(TRUE, s, today)
  /\ saved' = Nothing
  /\ UNCHANGED today

openGiven(g) == OpenWith(g) /\ hasDateKey' = FALSE /\ crossed' = FALSE

openAgain == OpenWith(space) /\ UNCHANGED <<hasDateKey, crossed>>

(* dateLabelPressed: an end that is missing becomes today.                  *)
dateLabelPressed(isBegin) ==
  /\ periodUp
  /\ space' = IF ~isBegin /\ space.end = NoDay THEN [space EXCEPT !.end = today]
              ELSE space
  /\ SelectLabel(isBegin, space', maximum)
  /\ UNCHANGED <<today, hasDateKey, maximum, periodUp, saved, crossed>>

datepickerChange(d) ==
  /\ periodUp
  /\ d \in minimum..maximum
  /\ space' = IF beginLabelSelect THEN [space EXCEPT !.begin = d]
              ELSE [space EXCEPT !.end = d]
  /\ SelectLabel(beginLabelSelect, space', maximum)
  /\ crossed' = (beginLabelSelect /\ space.end # NoDay)
  /\ UNCHANGED <<today, hasDateKey, maximum, periodUp, saved>>

Entries(d) == IF d = NoDay THEN 0 ELSE 1

(* Mutant: counts the entries as if there were no BottomBtn.                *)
SavableByTwo ==
  1 + Entries(space.begin) + Entries(space.end) + (IF hasDateKey THEN 1 ELSE 0) >= 2

(* dateSpace.allKeys.count.                                                 *)
Savable ==
  1 + Entries(space.begin) + Entries(space.end) + (IF hasDateKey THEN 1 ELSE 0) >= 3

sureBtnPressed ==
  /\ periodUp
  /\ Savable
  /\ saved' = space
  /\ hasDateKey' = TRUE
  /\ periodUp' = FALSE
  /\ UNCHANGED <<today, space, beginLabelSelect, wheelDay, minimum, maximum,
                 crossed>>

selectDefineDate(days) ==
  /\ periodUp
  /\ space' = [begin |-> today - days, end |-> today]
  /\ saved' = space'
  /\ hasDateKey' = TRUE
  /\ periodUp' = FALSE
  /\ crossed' = FALSE
  /\ UNCHANGED <<today, beginLabelSelect, wheelDay, minimum, maximum>>

removeSelf ==
  /\ periodUp
  /\ periodUp' = FALSE
  /\ UNCHANGED <<today, space, hasDateKey, beginLabelSelect, wheelDay, minimum,
                 maximum, saved, crossed>>

Midnight ==
  /\ today < LastDay
  /\ today' = today + 1
  /\ UNCHANGED <<space, hasDateKey, beginLabelSelect, wheelDay, minimum, maximum,
                 periodUp, saved, crossed>>

PeriodNext ==
  \/ \E g \in Given : openGiven(g)
  \/ openAgain
  \/ \E isBegin \in BOOLEAN : dateLabelPressed(isBegin)
  \/ \E d \in 1..LastDay : datepickerChange(d)
  \/ sureBtnPressed
  \/ \E days \in Presets : selectDefineDate(days)
  \/ removeSelf
  \/ Midnight

PeriodSpec == PeriodInit /\ [][PeriodNext]_periodVars

----------------------------------------------------------------------------
(* What must hold.                                                          *)

Period == [begin : Day, end : Day]

PeriodTypeOK ==
  /\ today \in FirstDay..LastDay
  /\ space \in Period
  /\ hasDateKey \in BOOLEAN
  /\ beginLabelSelect \in BOOLEAN
  /\ wheelDay \in Day
  /\ minimum \in Day
  /\ maximum \in FirstDay..LastDay
  /\ periodUp \in BOOLEAN
  /\ saved \in Period
  /\ crossed \in BOOLEAN
  /\ periodUp => wheelDay \in minimum..maximum

(* A period that is told has both ends, in order unless the begin was moved *)
(* with an end in place, which the picker's limits do not look at           *)
(* (DoubleDatePickerView.m:63-83, 247-277, 315-321).                        *)
SavesAPeriod ==
  saved # Nothing => /\ saved.begin # NoDay /\ saved.end # NoDay
                     /\ ~crossed => saved.begin <= saved.end

(* The wheel shows what would be saved for the label that is selected, as   *)
(* far as its limits let it.                                                *)
WheelShowsLabel ==
  periodUp =>
    LET stored == IF beginLabelSelect THEN space.begin ELSE space.end
    IN stored # NoDay => wheelDay = Kept(stored, space.begin, maximum)
=============================================================================

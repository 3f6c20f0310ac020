---------------------------- MODULE PickerProofs ----------------------------
(***************************************************************************)
(* Proofs about STRCCommonPickerView, for any data, about                  *)
(* DoubleDatePickerView, for any days, and about STPickerDate, for any     *)
(* today, any begins and any selections.                                   *)
(***************************************************************************)
EXTENDS STRCCommonPickerView, DoubleDatePickerView, STPickerDate, TLAPS

----------------------------------------------------------------------------
(* The period.  While the sheet is up its limits are those of the begin, so *)
(* that an end cannot be chosen before it; a dictionary that was left with  *)
(* OK once has both ends, so that its three entries stay three.             *)
Limited ==
  periodUp => minimum = space.begin /\ space.begin <= maximum /\ saved = Nothing

Ordered ==
  /\ space.begin <= today
  /\ maximum <= today
  /\ space.end # NoDay /\ ~crossed => space.begin <= space.end
  /\ hasDateKey => space.begin # NoDay /\ space.end # NoDay
  /\ saved # Nothing => saved = space /\ hasDateKey

PeriodInv == PeriodTypeOK /\ Limited /\ Ordered /\ WheelShowsLabel

(* The wheel keeps a day between its limits.                                *)
LEMMA KeptBetween ==
  ASSUME NEW d \in Int, NEW low \in Int, NEW high \in Int, low <= high
  PROVE  Kept(d, low, high) \in low..high
BY DEF Kept

LEMMA PeriodInvInit == PeriodInit => PeriodInv
<1> SUFFICES ASSUME PeriodInit PROVE PeriodInv
  OBVIOUS
<1> USE PeriodAssumption DEF PeriodInit
<1>1. space \in Period /\ saved \in Period
  BY DEF Period, Nothing, Day, NoDay
<1>2. today \in FirstDay..LastDay /\ wheelDay \in Day /\ minimum \in Day
      /\ maximum \in FirstDay..LastDay
  BY DEF Day, NoDay
<1>3. PeriodTypeOK
  BY <1>1, <1>2 DEF PeriodTypeOK
<1> QED BY <1>1, <1>2, <1>3
        DEF PeriodInv, Limited, Ordered, WheelShowsLabel, Nothing, NoDay

(* What setBeginLabelSelect: leaves of a dictionary whose begin is not      *)
(* beyond the limit.                                                        *)
LEMMA LabelSelected ==
  ASSUME NEW isBegin \in BOOLEAN, NEW s \in Period, NEW high \in FirstDay..LastDay,
         today \in FirstDay..LastDay, s.begin <= high, SelectLabel(isBegin, s, high)
  PROVE  /\ beginLabelSelect' = isBegin
         /\ minimum' = s.begin /\ minimum' \in Day
         /\ wheelDay' \in Day /\ wheelDay' \in s.begin..high
         /\ LET stored == IF isBegin THEN s.begin ELSE s.end
            IN stored # NoDay => wheelDay' = Kept(stored, s.begin, high)
<1> DEFINE stored == IF isBegin THEN s.begin ELSE s.end
           wanted == IF stored = NoDay THEN today ELSE stored
<1>1. stored \in Day /\ s.begin \in Day
  BY DEF Period
<1>2. wanted \in Int /\ s.begin \in Int /\ high \in Int
  BY <1>1, PeriodAssumption DEF Day
<1>3. /\ beginLabelSelect' = isBegin /\ minimum' = s.begin
      /\ wheelDay' = Kept(wanted, s.begin, high)
  BY DEF SelectLabel
<1> HIDE DEF stored, wanted
<1>4. Kept(wanted, s.begin, high) \in s.begin..high
  BY <1>2, KeptBetween
<1>5. wheelDay' \in Day
  BY <1>1, <1>3, <1>4, PeriodAssumption DEF Day
<1>6. stored # NoDay => wheelDay' = Kept(stored, s.begin, high)
  BY <1>3 DEF wanted
<1> QED BY <1>1, <1>3, <1>4, <1>5, <1>6 DEF stored

LEMMA OpenWithInv ==
  ASSUME PeriodInv, NEW s \in Period, OpenWith(s), s.begin <= today,
         crossed' \in BOOLEAN, hasDateKey' \in BOOLEAN,
         s.end # NoDay /\ ~crossed' => s.begin <= s.end,
         hasDateKey' => s.begin # NoDay /\ s.end # NoDay
  PROVE  PeriodInv'
<1> USE DEF PeriodInv, PeriodTypeOK
<1>1. /\ periodUp' = TRUE /\ space' = s /\ maximum' = today /\ saved' = Nothing
      /\ today' = today /\ SelectLabel(TRUE, s, today)
  BY DEF OpenWith
<1>2. /\ beginLabelSelect' = TRUE
      /\ minimum' = s.begin /\ minimum' \in Day
      /\ wheelDay' \in Day /\ wheelDay' \in s.begin..today
      /\ s.begin # NoDay => wheelDay' = Kept(s.begin, s.begin, today)
  BY <1>1, LabelSelected
<1>3. Nothing \in Period
  BY PeriodAssumption DEF Nothing, Period, Day, NoDay
<1>4. PeriodTypeOK'
  BY <1>1, <1>2, <1>3
<1>5. Limited' /\ Ordered'
  BY <1>1, <1>2, PeriodAssumption DEF Limited, Ordered
<1>6. WheelShowsLabel'
  BY <1>1, <1>2 DEF WheelShowsLabel, Kept
<1> QED BY <1>4, <1>5, <1>6

LEMMA PeriodInvNext == PeriodInv /\ [PeriodNext]_periodVars => PeriodInv'
<1> SUFFICES ASSUME PeriodInv, [PeriodNext]_periodVars PROVE PeriodInv'
  OBVIOUS
<1> USE PeriodAssumption DEF PeriodInv, PeriodTypeOK
<1>1. ASSUME NEW g \in Given, openGiven(g) PROVE PeriodInv'
  <2>1. g \in Period /\ g.begin <= today /\ (g.end # NoDay => g.begin <= g.end)
    BY DEF Period, Day
  <2>2. OpenWith(g) /\ hasDateKey' = FALSE /\ crossed' = FALSE
    BY <1>1 DEF openGiven
  <2> QED BY <2>1, <2>2, OpenWithInv
<1>2. CASE openAgain
  <2>1. OpenWith(space) /\ hasDateKey' = hasDateKey /\ crossed' = crossed
    BY <1>2 DEF openAgain
  <2> QED BY <2>1, OpenWithInv DEF Ordered
<1>3. ASSUME NEW isBegin \in BOOLEAN, dateLabelPressed(isBegin) PROVE PeriodInv'
  <2>1. /\ periodUp /\ SelectLabel(isBegin, space', maximum)
        /\ space' = IF ~isBegin /\ space.end = NoDay THEN [space EXCEPT !.end = today]
                    ELSE space
        /\ UNCHANGED <<today, hasDateKey, maximum, periodUp, saved, crossed>>
    BY <1>3 DEF dateLabelPressed
  <2>2. /\ space' \in Period /\ space'.begin = space.begin
        /\ space'.end = space.end \/ (space.end = NoDay /\ space'.end = today)
    BY <2>1 DEF Period, Day
  <2>3. space'.begin <= maximum
    BY <2>1, <2>2 DEF Limited
  <2>4. /\ beginLabelSelect' = isBegin
        /\ minimum' = space'.begin /\ minimum' \in Day
        /\ wheelDay' \in Day /\ wheelDay' \in space'.begin..maximum
        /\ LET stored == IF isBegin THEN space'.begin ELSE space'.end
           IN stored # NoDay => wheelDay' = Kept(stored, space'.begin, maximum)
    BY <2>1, <2>2, <2>3, LabelSelected
  <2>5. saved = Nothing
    BY <2>1 DEF Limited
  <2>6. PeriodTypeOK'
    BY <2>1, <2>2, <2>4
  <2>7. Limited' /\ Ordered'
    BY <2>1, <2>2, <2>3, <2>4, <2>5 DEF Limited, Ordered, NoDay
  <2>8. WheelShowsLabel'
    BY <2>1, <2>4 DEF WheelShowsLabel
  <2> QED BY <2>6, <2>7, <2>8
<1>4. ASSUME NEW d \in 1..LastDay, datepickerChange(d) PROVE PeriodInv'
  <2>1. /\ periodUp /\ d \in minimum..maximum
        /\ SelectLabel(beginLabelSelect, space', maximum)
        /\ space' = IF beginLabelSelect THEN [space EXCEPT !.begin = d]
                    ELSE [space EXCEPT !.end = d]
        /\ crossed' = (beginLabelSelect /\ space.end # NoDay)
        /\ UNCHANGED <<today, hasDateKey, maximum, periodUp, saved>>
    BY <1>4 DEF datepickerChange
  <2>2. /\ space' \in Period
        /\ beginLabelSelect => space'.begin = d /\ space'.end = space.end
        /\ ~beginLabelSelect => space'.begin = space.begin /\ space'.end = d
    BY <2>1 DEF Period, Day
  <2>3. space'.begin <= maximum
    BY <2>1, <2>2 DEF Limited
  <2>4. /\ beginLabelSelect' = beginLabelSelect
        /\ minimum' = space'.begin /\ minimum' \in Day
        /\ wheelDay' \in Day /\ wheelDay' \in space'.begin..maximum
        /\ LET stored == IF beginLabelSelect THEN space'.begin ELSE space'.end
           IN stored # NoDay => wheelDay' = Kept(stored, space'.begin, maximum)
    BY <2>1, <2>2, <2>3, LabelSelected
  <2>5. saved = Nothing /\ minimum = space.begin
    BY <2>1 DEF Limited
  <2>6. PeriodTypeOK'
    BY <2>1, <2>2, <2>4
  <2>7. Limited'
    BY <2>1, <2>3, <2>4, <2>5 DEF Limited
  <2>8. Ordered'
    <3>1. space'.end # NoDay /\ ~crossed' => space'.begin <= space'.end
      BY <2>1, <2>2, <2>5
    <3>2. hasDateKey => space'.begin # NoDay /\ space'.end # NoDay
      BY <2>1, <2>2 DEF Ordered, NoDay
    <3> QED BY <2>1, <2>3, <2>5, <3>1, <3>2, <2>2 DEF Ordered, Period, Day
  <2>9. WheelShowsLabel'
    BY <2>1, <2>4 DEF WheelShowsLabel
  <2> QED BY <2>6, <2>7, <2>8, <2>9
<1>5. CASE sureBtnPressed
  <2>1. /\ periodUp /\ Savable /\ saved' = space /\ hasDateKey' = TRUE /\ periodUp' = FALSE
        /\ UNCHANGED <<today, space, beginLabelSelect, wheelDay, minimum, maximum,
                       crossed>>
    BY <1>5 DEF sureBtnPressed
  <2>2. space.begin # NoDay /\ space.end # NoDay
    BY <2>1 DEF Savable, Entries, Ordered
  <2> QED BY <2>1, <2>2 DEF Limited, Ordered, WheelShowsLabel
<1>6. ASSUME NEW days \in Presets, selectDefineDate(days) PROVE PeriodInv'
  <2>1. /\ space' = [begin |-> today - days, end |-> today]
        /\ saved' = space' /\ hasDateKey' = TRUE /\ periodUp' = FALSE /\ crossed' = FALSE
        /\ UNCHANGED <<today, beginLabelSelect, wheelDay, minimum, maximum>>
    BY <1>6 DEF selectDefineDate
  <2>2. days \in 1..(FirstDay - 1)
    OBVIOUS
  <2>3. space' \in Period /\ space'.begin \in 1..today /\ space'.end = today
    BY <2>1, <2>2 DEF Period, Day
  <2>4. PeriodTypeOK'
    BY <2>1, <2>3
  <2> QED BY <2>1, <2>3, <2>4 DEF Limited, Ordered, WheelShowsLabel, NoDay
<1>7. CASE removeSelf
  BY <1>7 DEF removeSelf, Limited, Ordered, WheelShowsLabel
<1>8. CASE Midnight
  BY <1>8 DEF Midnight, Limited, Ordered, WheelShowsLabel, Period, Day
<1>9. CASE UNCHANGED periodVars
  BY <1>9 DEF periodVars, Limited, Ordered, WheelShowsLabel
<1> QED BY <1>1, <1>2, <1>3, <1>4, <1>5, <1>6, <1>7, <1>8, <1>9 DEF PeriodNext

LEMMA PeriodAlways == PeriodSpec => []PeriodInv
BY PeriodInvInit, PeriodInvNext, PTL DEF PeriodSpec

(* The state of the period sheet has its type, and the wheel rests within   *)
(* its limits, for any days, presets and dictionaries of the app.           *)
THEOREM PeriodTypeTheorem == PeriodSpec => []PeriodTypeOK
BY PeriodAlways, PTL DEF PeriodInv

(* A period that the app is told has both ends, in order unless the begin   *)
(* was moved with an end in place (DoubleDatePickerView.m:247-277, 315).    *)
THEOREM PeriodTheorem == PeriodSpec => []SavesAPeriod
<1>1. PeriodInv => SavesAPeriod
  BY DEF PeriodInv, Ordered, SavesAPeriod
<1> QED BY <1>1, PeriodAlways, PTL

(* Whichever label was pressed and whatever was chosen, the wheel shows     *)
(* what would be saved for the label selected, within its limits.           *)
THEOREM WheelTheorem == PeriodSpec => []WheelShowsLabel
BY PeriodAlways, PTL DEF PeriodInv

----------------------------------------------------------------------------
(* The common picker.  Unless rows were selected that the wheels were not   *)
(* loaded for, the wheels are those of the indices.                         *)

(* The first index is always that of the first wheel; before the wheels are *)
(* loaded everything is 0.                                                  *)
Rests ==
  /\ wheel[1] = firIndex
  /\ wheel[2] = secIndex \/ astray
  /\ wheel[2] \in Upto(Seconds[secondOf])
  /\ ~loaded => /\ secIndex = 0 /\ firIndex = 0 /\ thdIndex = 0
                /\ wheel[2] = 0 /\ wheel[3] = 0
                /\ ~astray /\ ~moved /\ confirmed = NothingConfirmed

Agree ==
  loaded /\ ~astray =>
    /\ secondOf = firIndex
    /\ componentNum = 3 => thirdOf = <<firIndex, secIndex>>

ThirdAgrees ==
  loaded /\ ~astray /\ ~moved /\ componentNum = 3 /\ ThirdCount(thirdOf) # 0 =>
    thdIndex = wheel[3] /\ thdIndex \in Upto(ThirdCount(thirdOf))

Told ==
  /\ onScreen => confirmed = NothingConfirmed
  /\ crashed => loaded

CommonInv ==
  /\ CommonTypeOK /\ Rests /\ Agree /\ ThirdAgrees /\ Told
  /\ CrashesForAReason /\ ToldIsShown

LEMMA WithinRange ==
  ASSUME NEW r \in Int, NEW n \in Int
  PROVE  /\ Within(r, n) \in Int
         /\ n > 0 => Within(r, n) \in Upto(n)
         /\ r \in Upto(n) => Within(r, n) = r
BY DEF Within, NoRow, Upto

(* Every pair of rows of the first two lists leads to a third list.         *)
LEMMA ListsTyped ==
  ASSUME NEW f \in Upto(FirstCount)
  PROVE  /\ f \in Int /\ Seconds[f] \in Int /\ Seconds[f] > 0
         /\ 0 \in Upto(Seconds[f])
         /\ \A s \in Upto(Seconds[f]) :
              /\ s \in Int /\ Thirds[f][s] \in Nat
              /\ ThirdCount(<<f, s>>) \in Int
              /\ componentNum = 3 => ThirdCount(<<f, s>>) = Thirds[f][s]
<1>1. Seconds[f] \in Nat \ {0} /\ Thirds[f] \in [Upto(Seconds[f]) -> Nat]
  BY DataAssumption
<1>2. ASSUME NEW s \in Upto(Seconds[f])
      PROVE  /\ s \in Int /\ Thirds[f][s] \in Nat
             /\ ThirdCount(<<f, s>>) \in Int
             /\ componentNum = 3 => ThirdCount(<<f, s>>) = Thirds[f][s]
  <2>1. s \in Int /\ Thirds[f][s] \in Nat
    BY <1>1 DEF Upto
  <2>2. <<f, s>>[1] = f /\ <<f, s>>[2] = s
    OBVIOUS
  <2> QED BY <2>1, <2>2 DEF ThirdCount
<1> QED BY <1>1, <1>2 DEF Upto

(* What the wheels are loaded for is a pair of rows, too.                   *)
LEMMA ThirdOfTyped ==
  ASSUME CommonTypeOK
  PROVE  /\ thirdOf = <<thirdOf[1], thirdOf[2]>>
         /\ thirdOf[1] \in Upto(FirstCount)
         /\ thirdOf[2] \in Upto(Seconds[thirdOf[1]])
         /\ ThirdCount(thirdOf) \in Int
<1>1. /\ thirdOf = <<thirdOf[1], thirdOf[2]>>
      /\ thirdOf[1] \in Upto(FirstCount)
      /\ thirdOf[2] \in Upto(Seconds[thirdOf[1]])
  BY DEF CommonTypeOK
<1> QED BY <1>1, ListsTyped

LEMMA CommonInvInit == CommonInit => CommonInv
<1> SUFFICES ASSUME CommonInit PROVE CommonInv
  OBVIOUS
<1> USE DEF CommonInit
<1>1. 0 \in Upto(FirstCount) /\ 0 \in Upto(Seconds[0])
  <2>1. 0 \in Upto(FirstCount)
    BY DataAssumption DEF Upto
  <2> QED BY <2>1, ListsTyped
<1>2. wheel \in [1..3 -> Int]
  OBVIOUS
<1>3. thirdOf \in Upto(FirstCount) \X Nat /\ thirdOf[2] \in Upto(Seconds[thirdOf[1]])
  BY <1>1
<1>4. confirmed.told = <<>> /\ confirmed.seen = <<>> /\ DOMAIN confirmed.told = {}
  BY DEF NothingConfirmed
<1>5. CommonTypeOK
  <2>1. DOMAIN confirmed.told = DOMAIN confirmed.seen
    BY <1>4
  <2>2. firIndex \in Upto(FirstCount) /\ secIndex \in Upto(Seconds[firIndex])
        /\ thdIndex \in Int /\ secondOf \in Upto(FirstCount)
    BY <1>1
  <2>3. loaded \in BOOLEAN /\ onScreen \in BOOLEAN /\ crashed \in BOOLEAN
        /\ moved \in BOOLEAN /\ astray \in BOOLEAN
    OBVIOUS
  <2> HIDE DEF CommonInit
  <2>4. componentNum \in Columns
    BY DEF CommonInit
  <2> QED BY <1>2, <1>3, <2>1, <2>2, <2>3, <2>4 DEF CommonTypeOK
<1>6. ToldIsShown
  BY <1>4 DEF ToldIsShown
<1>7. Rests
  <2>1. wheel[1] = 0 /\ wheel[2] = 0 /\ wheel[3] = 0
    OBVIOUS
  <2> QED BY <2>1, <1>1 DEF Rests
<1>8. Agree /\ ThirdAgrees /\ Told /\ CrashesForAReason
  BY DEF Agree, ThirdAgrees, Told, CrashesForAReason
<1> QED BY <1>5, <1>6, <1>7, <1>8 DEF CommonInv

----------------------------------------------------------------------------
(* What a selection of rows leaves of the wheels.                           *)
LEMMA PutTyped ==
  ASSUME CommonInv, componentNum' = componentNum,
         NEW f \in Upto(FirstCount), NEW s \in Upto(Seconds[f]), NEW t \in Int,
         PutWheels(f, s, <<f, s, t>>)
  PROVE  /\ loaded' = TRUE
         /\ secondOf' \in Upto(FirstCount)
         /\ thirdOf' \in Upto(FirstCount) \X Nat
         /\ thirdOf'[2] \in Upto(Seconds[thirdOf'[1]])
         /\ wheel' \in [1..3 -> Int]
         /\ wheel'[1] = f
         /\ wheel'[2] \in Upto(Seconds[secondOf'])
         /\ secondOf' = f => wheel'[2] = s
         /\ wheel'[3] = Within(t, ThirdCount(thirdOf'))
         /\ ~loaded => secondOf' = f /\ thirdOf' = <<f, s>>
         /\ loaded => secondOf' = secondOf /\ thirdOf' = thirdOf
<1> USE DEF CommonInv
<1>1. /\ loaded' = TRUE
      /\ ~loaded => secondOf' = f /\ thirdOf' = <<f, s>>
      /\ loaded => secondOf' = secondOf /\ thirdOf' = thirdOf
      /\ wheel' = << Within(f, FirstCount), Within(s, Seconds[secondOf']),
                     Within(t, ThirdCount(thirdOf')) >>
  <2>1. << f, s, t >>[1] = f /\ << f, s, t >>[2] = s /\ << f, s, t >>[3] = t
    OBVIOUS
  <2> QED BY <2>1 DEF PutWheels
<1>2. f \in Int /\ s \in Int /\ s \in Nat /\ Seconds[f] \in Int
  BY ListsTyped DEF Upto
<1>3. secondOf' \in Upto(FirstCount)
  BY <1>1 DEF CommonTypeOK
<1>4. Seconds[secondOf'] \in Int /\ Seconds[secondOf'] > 0
  BY <1>3, ListsTyped
<1>5. /\ thirdOf' \in Upto(FirstCount) \X Nat
      /\ thirdOf'[2] \in Upto(Seconds[thirdOf'[1]])
  <2>1. CASE loaded
    BY <2>1, <1>1 DEF CommonTypeOK
  <2>2. CASE ~loaded
    <3>1. thirdOf' = <<f, s>> /\ thirdOf'[1] = f /\ thirdOf'[2] = s
      BY <2>2, <1>1
    <3> QED BY <3>1, <1>2
  <2> QED BY <2>1, <2>2
<1>6. ThirdCount(thirdOf') \in Int
  <2>1. CASE loaded
    BY <2>1, <1>1, ThirdOfTyped
  <2>2. CASE ~loaded
    BY <2>2, <1>1, ListsTyped
  <2> QED BY <2>1, <2>2
<1>7. Within(f, FirstCount) = f
  BY <1>2, WithinRange, DataAssumption
<1>8. /\ Within(s, Seconds[secondOf']) \in Upto(Seconds[secondOf'])
      /\ Within(s, Seconds[secondOf']) \in Int
      /\ secondOf' = f => Within(s, Seconds[secondOf']) = s
  BY <1>2, <1>4, WithinRange
<1>9. Within(t, ThirdCount(thirdOf')) \in Int
  BY <1>6, WithinRange
<1> HIDE DEF CommonInv
<1>10. wheel' \in [1..3 -> Int]
  BY <1>1, <1>2, <1>7, <1>8, <1>9
<1>11. /\ wheel'[1] = Within(f, FirstCount)
       /\ wheel'[2] = Within(s, Seconds[secondOf'])
       /\ wheel'[3] = Within(t, ThirdCount(thirdOf'))
  BY <1>1
<1> QED BY <1>1, <1>3, <1>5, <1>7, <1>8, <1>10, <1>11

LEMMA LayoutInv ==
  ASSUME CommonInv, componentNum' = componentNum, Layout PROVE CommonInv'
<1> USE DEF CommonInv
<1>1. /\ ~loaded /\ PutWheels(firIndex, secIndex, wheel)
      /\ UNCHANGED <<firIndex, secIndex, thdIndex, onScreen, crashed, confirmed,
                     moved, astray>>
  BY DEF Layout
<1>2. /\ firIndex = 0 /\ secIndex = 0 /\ thdIndex = 0 /\ wheel = <<0, 0, 0>>
      /\ ~astray /\ ~moved /\ confirmed = NothingConfirmed /\ ~crashed
  BY <1>1 DEF Rests, CommonTypeOK, Told
<1>3. 0 \in Upto(FirstCount) /\ 0 \in Upto(Seconds[0]) /\ 0 \in Int
  BY <1>2 DEF CommonTypeOK
<1>4. /\ loaded' = TRUE
      /\ secondOf' = 0 /\ thirdOf' = <<0, 0>>
      /\ thirdOf' \in Upto(FirstCount) \X Nat
      /\ thirdOf'[2] \in Upto(Seconds[thirdOf'[1]])
      /\ wheel' \in [1..3 -> Int]
      /\ wheel'[1] = 0
      /\ wheel'[2] \in Upto(Seconds[secondOf'])
      /\ wheel'[2] = 0
      /\ wheel'[3] = Within(0, ThirdCount(thirdOf'))
  BY <1>1, <1>2, <1>3, PutTyped
<1>5. CommonTypeOK'
  BY <1>1, <1>3, <1>4 DEF CommonTypeOK
<1>6. Rests'
  BY <1>1, <1>2, <1>4 DEF Rests
<1>7. Agree'
  BY <1>1, <1>2, <1>4 DEF Agree
<1>8. ThirdAgrees'
  <2>1. ThirdCount(<<0, 0>>)' = ThirdCount(<<0, 0>>)
    BY DEF ThirdCount
  <2>2. ThirdCount(thirdOf') \in Nat
    BY <1>3, <1>4, ListsTyped DEF ThirdCount
  <2>3. ThirdCount(thirdOf)' = ThirdCount(thirdOf')
    BY DEF ThirdCount
  <2>4. ThirdCount(thirdOf') # 0 => wheel'[3] = 0 /\ 0 \in Upto(ThirdCount(thirdOf'))
    <3>1. SUFFICES ASSUME ThirdCount(thirdOf') # 0
                   PROVE  wheel'[3] = 0 /\ 0 \in Upto(ThirdCount(thirdOf'))
      OBVIOUS
    <3> DEFINE n == ThirdCount(thirdOf')
    <3>2. n \in Nat /\ n # 0 /\ wheel'[3] = Within(0, n)
      BY <3>1, <2>2, <1>4
    <3> HIDE DEF n
    <3>3. 0 \in Upto(n)
      BY <3>2 DEF Upto
    <3>4. Within(0, n) = 0
      BY <3>2, <3>3, WithinRange
    <3> QED BY <3>2, <3>3, <3>4 DEF n
  <2> QED BY <1>1, <1>2, <2>3, <2>4 DEF ThirdAgrees
<1>9. Told' /\ CrashesForAReason'
  BY <1>1, <1>2, <1>4 DEF Told, CrashesForAReason
<1>10. ToldIsShown'
  BY <1>1 DEF ToldIsShown
<1> QED BY <1>5, <1>6, <1>7, <1>8, <1>9, <1>10

LEMMA SelectInv ==
  ASSUME CommonInv, componentNum' = componentNum,
         NEW f \in Upto(FirstCount), NEW s \in Upto(Seconds[f]), NEW t \in Int,
         Select(f, s, t), thdIndex' \in Int
  PROVE  CommonInv'
<1> USE DEF CommonInv
<1>1. /\ ~crashed /\ firIndex' = f /\ secIndex' = s
      /\ PutWheels(f, s, <<f, s, t>>)
      /\ moved' = TRUE
      /\ astray' = (astray \/ (loaded /\ ~Fits(f, s)))
      /\ UNCHANGED <<onScreen, crashed, confirmed>>
  BY DEF Select
<1>2. /\ loaded' = TRUE
      /\ secondOf' \in Upto(FirstCount)
      /\ thirdOf' \in Upto(FirstCount) \X Nat
      /\ thirdOf'[2] \in Upto(Seconds[thirdOf'[1]])
      /\ wheel' \in [1..3 -> Int]
      /\ wheel'[1] = f
      /\ wheel'[2] \in Upto(Seconds[secondOf'])
      /\ secondOf' = f => wheel'[2] = s
      /\ ~loaded => secondOf' = f /\ thirdOf' = <<f, s>>
      /\ loaded => secondOf' = secondOf /\ thirdOf' = thirdOf
  BY <1>1, PutTyped
<1>3. ~astray' => /\ ~astray /\ secondOf' = f
                  /\ componentNum = 3 => thirdOf' = <<f, s>>
  BY <1>1, <1>2 DEF Fits
<1>4. CommonTypeOK'
  BY <1>1, <1>2 DEF CommonTypeOK
<1>5. Rests' /\ Agree'
  BY <1>1, <1>2, <1>3 DEF Rests, Agree
<1>6. ThirdAgrees' /\ Told' /\ CrashesForAReason'
  BY <1>1, <1>2 DEF ThirdAgrees, Told, CrashesForAReason
<1>7. ToldIsShown'
  BY <1>1, <1>3 DEF ToldIsShown
<1> QED BY <1>4, <1>5, <1>6, <1>7

(* The rows that a turn of a wheel leaves the indices with are a pair of    *)
(* rows, unless the code meets an index beyond its list.                    *)
LEMMA RowsAreLists ==
  ASSUME CommonInv, NEW w \in 1..3, NEW r \in Upto(RowCount(w)), ~OutOfRange(w, r)
  PROVE  /\ r \in Int
         /\ RowsThen(w, r) = <<RowsThen(w, r)[1], RowsThen(w, r)[2]>>
         /\ RowsThen(w, r)[1] = IF w = 1 THEN r ELSE firIndex
         /\ RowsThen(w, r)[2] = IF w = 2 THEN r
                                ELSE IF Turned(w, r) THEN 0 ELSE wheel[2]
         /\ RowsThen(w, r)[1] \in Upto(FirstCount)
         /\ RowsThen(w, r)[2] \in Upto(Seconds[RowsThen(w, r)[1]])
<1> USE DEF CommonInv, Rests
<1>1. r \in Int
  BY DEF Upto
<1>2. /\ RowsThen(w, r) = <<RowsThen(w, r)[1], RowsThen(w, r)[2]>>
      /\ RowsThen(w, r)[1] = IF w = 1 THEN r ELSE firIndex
      /\ RowsThen(w, r)[2] = IF w = 2 THEN r
                             ELSE IF Turned(w, r) THEN 0 ELSE wheel[2]
  BY DEF RowsThen
<1>3. RowsThen(w, r)[1] \in Upto(FirstCount)
  BY <1>2 DEF CommonTypeOK, RowCount
<1> QED BY <1>1, <1>2, <1>3 DEF OutOfRange

LEMMA SpunInv ==
  ASSUME CommonInv, componentNum' = componentNum, onScreen, loaded, ~crashed,
         NEW w \in 1..3, NEW r \in Upto(RowCount(w)), ~OutOfRange(w, r), Spun(w, r)
  PROVE  CommonInv'
<1> DEFINE f == RowsThen(w, r)[1]
           s == RowsThen(w, r)[2]
<1>1. /\ r \in Int
      /\ RowsThen(w, r) = <<f, s>>
      /\ f = IF w = 1 THEN r ELSE firIndex
      /\ s = IF w = 2 THEN r ELSE IF Turned(w, r) THEN 0 ELSE wheel[2]
      /\ f \in Upto(FirstCount)
      /\ s \in Upto(Seconds[f])
  BY RowsAreLists
<1>2. /\ firIndex' = f
      /\ secIndex' = s
      /\ thdIndex' = IF w = 3 THEN r ELSE thdIndex
      /\ secondOf' = IF w = 1 /\ Turned(w, r) THEN r ELSE secondOf
      /\ thirdOf' = IF Turned(w, r) THEN <<f, s>> ELSE thirdOf
      /\ wheel' = << f, s, IF Turned(w, r) THEN Within(0, ThirdCount(<<f, s>>))
                           ELSE IF w = 3 THEN r ELSE wheel[3] >>
      /\ moved' = (w # 3 /\ (moved \/ Turned(w, r)))
      /\ astray' = (astray /\ ~(w = 1 /\ Turned(w, r)))
      /\ UNCHANGED <<loaded, onScreen, crashed, confirmed>>
  BY <1>1 DEF Spun
<1> HIDE DEF f, s
<1>3. /\ wheel \in [1..3 -> Int] /\ wheel[1] = firIndex
      /\ wheel[2] = secIndex \/ astray
      /\ wheel[2] \in Upto(Seconds[secondOf])
      /\ confirmed = NothingConfirmed
      /\ CommonTypeOK
  BY DEF CommonInv, CommonTypeOK, Rests, Told
<1>4. f \in Int /\ s \in Int /\ s \in Nat
  BY <1>1, ListsTyped DEF Upto
<1>5. wheel' \in [1..3 -> Int] /\ wheel'[1] = f /\ wheel'[2] = s
  <2>1. ThirdCount(<<f, s>>) \in Int
    BY <1>1, ListsTyped
  <2>2. Within(0, ThirdCount(<<f, s>>)) \in Int
    BY <2>1, WithinRange
  <2> QED BY <1>1, <1>2, <1>3, <1>4, <2>2
<1>6. secondOf' \in Upto(FirstCount) /\ s \in Upto(Seconds[secondOf'])
  <2>1. CASE w = 1 /\ Turned(w, r)
    BY <2>1, <1>1, <1>2
  <2>2. CASE ~(w = 1 /\ Turned(w, r))
    <3>1. secondOf' = secondOf
      BY <2>2, <1>2
    <3>2. w = 2 => r \in Upto(Seconds[secondOf])
      BY DEF RowCount
    <3>3. w # 2 => s = wheel[2]
      BY <2>2, <1>1 DEF Turned
    <3> QED BY <3>1, <3>2, <3>3, <1>1, <1>3 DEF CommonTypeOK
  <2> QED BY <2>1, <2>2
<1>7. /\ thirdOf' \in Upto(FirstCount) \X Nat
      /\ thirdOf'[2] \in Upto(Seconds[thirdOf'[1]])
  <2>1. <<f, s>> \in Upto(FirstCount) \X Nat /\ <<f, s>>[2] \in Upto(Seconds[<<f, s>>[1]])
    BY <1>1, <1>4
  <2> QED BY <2>1, <1>2, <1>3 DEF CommonTypeOK
<1>8. CommonTypeOK'
  <2>1. moved' \in BOOLEAN /\ astray' \in BOOLEAN
    BY <1>2
  <2>2. thdIndex' \in Int
    BY <1>1, <1>2, <1>3 DEF CommonTypeOK
  <2>3. firIndex' \in Upto(FirstCount) /\ secIndex' \in Upto(Seconds[firIndex'])
    BY <1>1, <1>2
  <2>4. /\ loaded' = loaded /\ onScreen' = onScreen /\ crashed' = crashed
        /\ confirmed' = confirmed
    BY <1>2
  <2> QED BY <1>3, <1>5, <1>6, <1>7, <2>1, <2>2, <2>3, <2>4 DEF CommonTypeOK
<1>9. Rests'
  BY <1>2, <1>5, <1>6 DEF Rests
<1>10. ASSUME ~astray' PROVE secondOf' = f /\ (componentNum = 3 => thirdOf' = <<f, s>>)
  <2>1. CASE w = 1 /\ Turned(w, r)
    BY <2>1, <1>1, <1>2
  <2>2. CASE ~(w = 1 /\ Turned(w, r))
    <3>1. /\ ~astray /\ secondOf = firIndex /\ wheel[2] = secIndex
          /\ componentNum = 3 => thirdOf = <<firIndex, secIndex>>
      BY <2>2, <1>2, <1>3, <1>10 DEF CommonInv, Agree
    <3>2. f = firIndex
      BY <2>2, <1>1 DEF Turned
    <3>3. ~Turned(w, r) => s = secIndex
      BY <3>1, <1>1 DEF Turned
    <3> QED BY <2>2, <3>1, <3>2, <3>3, <1>2
  <2> QED BY <2>1, <2>2
<1>11. Agree'
  BY <1>2, <1>10 DEF Agree
<1>12. ThirdAgrees'
  <2>1. SUFFICES ASSUME ~astray', ~moved', componentNum = 3, ThirdCount(thirdOf)' # 0
                 PROVE  thdIndex' = wheel'[3] /\ thdIndex' \in Upto(ThirdCount(thirdOf)')
    BY DEF ThirdAgrees
  <2>2. ~Turned(w, r) /\ thirdOf' = thirdOf /\ ~astray
    <3>1. w = 3 => ~Turned(w, r)
      BY DEF Turned
    <3>2. ~Turned(w, r)
      BY <3>1, <2>1, <1>2, Zenon
    <3>3. ~astray
      BY <3>2, <2>1, <1>2, Zenon
    <3> QED BY <3>2, <3>3, <1>2
  <2>3. ThirdCount(thirdOf)' = ThirdCount(thirdOf)
    BY <2>2 DEF ThirdCount
  <2>4. CASE w = 3
    <3>1. thdIndex' = r /\ wheel'[3] = r
      BY <2>2, <2>4, <1>2
    <3>2. r \in Upto(ThirdCount(thirdOf))
      BY <2>4 DEF RowCount
    <3> QED BY <3>1, <3>2, <2>3
  <2>5. CASE w # 3
    <3>1. ~moved /\ thdIndex' = thdIndex /\ wheel'[3] = wheel[3]
      BY <2>1, <2>2, <2>5, <1>2
    <3> QED BY <2>1, <2>2, <2>3, <3>1 DEF CommonInv, ThirdAgrees
  <2> QED BY <2>4, <2>5
<1>13. Told' /\ CrashesForAReason' /\ ToldIsShown'
  <2>1. confirmed' = NothingConfirmed /\ ~crashed'
    BY <1>2, <1>3
  <2>2. confirmed'.told = <<>> /\ confirmed'.seen = <<>>
    BY <2>1 DEF NothingConfirmed
  <2> QED BY <2>1, <2>2 DEF Told, CrashesForAReason, ToldIsShown
<1> QED BY <1>8, <1>9, <1>11, <1>12, <1>13 DEF CommonInv

----------------------------------------------------------------------------
(* What the delegate is told with OK.                                       *)
LEMMA ConfirmInv ==
  ASSUME CommonInv, componentNum' = componentNum, onScreen, loaded, ~crashed, ~Missing,
         confirmed' = [told |-> Values(firIndex, firIndex, secIndex,
                                       <<firIndex, secIndex>>, thdIndex),
                       seen |-> Values(wheel[1], secondOf, wheel[2], thirdOf, wheel[3])],
         onScreen' = FALSE,
         UNCHANGED <<firIndex, secIndex, thdIndex, wheelVars, crashed, moved, astray>>
  PROVE  CommonInv'
<1> DEFINE told == Values(firIndex, firIndex, secIndex, <<firIndex, secIndex>>, thdIndex)
           seen == Values(wheel[1], secondOf, wheel[2], thirdOf, wheel[3])
<1> USE DEF CommonInv
<1>1. /\ confirmed'.told = told /\ confirmed'.seen = seen
      /\ DOMAIN told = DOMAIN seen
      /\ DOMAIN told = IF componentNum = 3 THEN 1..3 ELSE 1..2
  BY DEF Values
<1>2. told[1] = <<firIndex>> /\ seen[1] = <<wheel[1]>>
      /\ told[2] = <<firIndex, secIndex>> /\ seen[2] = <<secondOf, wheel[2]>>
  BY DEF Values
<1>3. ASSUME ~astray PROVE told[1] = seen[1] /\ told[2] = seen[2]
  BY <1>2, <1>3 DEF Rests, Agree
<1>4. ASSUME ~astray, ~moved, componentNum = 3 PROVE told[3] = seen[3]
  <2>1. thirdOf = <<firIndex, secIndex>>
    BY <1>4 DEF Agree
  <2>2. thdIndex \in Upto(Thirds[firIndex][secIndex])
    BY <1>4 DEF Missing
  <2>3. ThirdCount(thirdOf) = Thirds[firIndex][secIndex]
    BY <1>4, <2>1, ListsTyped DEF CommonTypeOK
  <2>4. Thirds[firIndex][secIndex] # 0
    BY <2>2 DEF Upto
  <2>5. thdIndex = wheel[3]
    BY <1>4, <2>3, <2>4 DEF ThirdAgrees
  <2>6. told[3] = <<firIndex, secIndex>> \o <<thdIndex>>
        /\ seen[3] = thirdOf \o <<wheel[3]>>
    BY <1>4 DEF Values
  <2> QED BY <2>1, <2>5, <2>6
<1> HIDE DEF told, seen
<1>5. ToldIsShown'
  <2>1. SUFFICES ASSUME ~astray, NEW k \in DOMAIN told, k = 3 => ~moved
                 PROVE  told[k] = seen[k]
    BY <1>1 DEF ToldIsShown
  <2>2. CASE k = 1 \/ k = 2
    BY <2>1, <2>2, <1>3
  <2>3. CASE k = 3
    <3>1. componentNum = 3
      BY <2>3, <1>1
    <3> QED BY <2>1, <2>3, <3>1, <1>4
  <2>4. k = 1 \/ k = 2 \/ k = 3
    BY <1>1
  <2> QED BY <2>2, <2>3, <2>4
<1>6. CommonTypeOK'
  <2>1. DOMAIN confirmed'.told = DOMAIN confirmed'.seen
    BY <1>1
  <2> QED BY <2>1 DEF CommonTypeOK, wheelVars
<1>7. Rests' /\ Agree' /\ Told'
  BY DEF Rests, Agree, Told, wheelVars
<1>8. ThirdCount(thirdOf)' = ThirdCount(thirdOf)
  BY DEF ThirdCount, wheelVars
<1>9. ThirdAgrees' /\ CrashesForAReason'
  BY <1>8 DEF ThirdAgrees, CrashesForAReason, wheelVars
<1> QED BY <1>5, <1>6, <1>7, <1>9

(* The app crashes at an index beyond its list.                             *)
LEMMA CrashInv ==
  ASSUME CommonInv, componentNum' = componentNum, loaded, onScreen, Crash,
         astray \/ (componentNum = 3 /\ (moved \/ ThirdCount(thirdOf) = 0))
  PROVE  CommonInv'
<1> USE DEF CommonInv, wheelVars
<1>1. /\ crashed' = TRUE
      /\ UNCHANGED <<firIndex, secIndex, thdIndex, wheelVars, onScreen, confirmed,
                     moved, astray>>
  BY DEF Crash
<1>2. ThirdCount(thirdOf)' = ThirdCount(thirdOf)
  BY <1>1 DEF ThirdCount
<1>3. CommonTypeOK' /\ Rests' /\ Agree' /\ Told' /\ ToldIsShown'
  BY <1>1 DEF CommonTypeOK, Rests, Agree, Told, ToldIsShown
<1>4. ThirdAgrees' /\ CrashesForAReason'
  BY <1>1, <1>2 DEF ThirdAgrees, CrashesForAReason
<1> QED BY <1>3, <1>4

(* The indices are within their lists if they are those of the wheels.      *)
LEMMA TurnsInRange ==
  ASSUME CommonInv, loaded, ~astray, NEW w \in 1..3, NEW r \in Upto(RowCount(w))
  PROVE  ~OutOfRange(w, r)
<1> USE DEF CommonInv
<1>1. /\ secondOf = firIndex /\ wheel[2] = secIndex /\ wheel[1] = firIndex
      /\ secIndex \in Upto(Seconds[firIndex]) /\ firIndex \in Upto(FirstCount)
  BY DEF Agree, Rests, CommonTypeOK
<1>2. RowsThen(w, r)[2] = IF w = 2 THEN r ELSE IF Turned(w, r) THEN 0 ELSE wheel[2]
  BY DEF RowsThen
<1>3. CASE w = 1
  <2>1. r \in Upto(FirstCount)
    BY <1>3 DEF RowCount
  <2>2. 0 \in Upto(Seconds[r])
    BY <2>1, ListsTyped
  <2> QED BY <1>1, <1>2, <1>3, <2>2 DEF OutOfRange, Turned
<1>4. CASE w = 2
  BY <1>1, <1>2, <1>4 DEF OutOfRange, RowCount
<1>5. CASE w = 3
  BY <1>1, <1>2, <1>5 DEF OutOfRange, Turned
<1> QED BY <1>3, <1>4, <1>5

LEMMA CommonInvNext == CommonInv /\ [CommonNext]_commonVars => CommonInv'
<1> SUFFICES ASSUME CommonInv, [CommonNext]_commonVars PROVE CommonInv'
  OBVIOUS
<1>0. CASE UNCHANGED commonVars
  <2>1. ThirdCount(thirdOf)' = ThirdCount(thirdOf)
    BY <1>0 DEF ThirdCount, commonVars, wheelVars
  <2> QED BY <1>0, <2>1 DEF commonVars, wheelVars, CommonInv, CommonTypeOK, Rests,
                            Agree, Told, ToldIsShown, ThirdAgrees, CrashesForAReason
<1>1. CASE CommonNext
  <2>0. componentNum' = componentNum
    BY <1>1 DEF CommonNext
  <2>1. CASE Layout
    BY <2>0, <2>1, LayoutInv
  <2>2. ASSUME NEW f \in Upto(FirstCount), NEW s \in Upto(Seconds[f]),
               NEW t \in {0} \cup Upto(Thirds[f][s]), selectIndices(f, s, t)
        PROVE  CommonInv'
    <3>1. t \in Int
      BY DEF Upto
    <3>2. Select(f, s, t) /\ thdIndex' \in Int
      BY <2>2 DEF selectIndices, CommonInv, CommonTypeOK
    <3> QED BY <2>0, <3>1, <3>2, SelectInv
  <2>3. CASE setSelectLastOne
    <3> DEFINE f == FirstCount - 1
               s == Seconds[f] - 1
    <3>1. f \in Upto(FirstCount)
      BY DataAssumption DEF Upto
    <3>2. s \in Upto(Seconds[f])
      BY <3>1, ListsTyped DEF Upto
    <3>3. Select(f, s, NoRow) /\ thdIndex' \in Int /\ NoRow \in Int
      BY <2>3 DEF setSelectLastOne, NoRow
    <3> HIDE DEF f, s
    <3> QED BY <2>0, <3>1, <3>2, <3>3, SelectInv
  <2>4. ASSUME NEW w \in 1..3, NEW r \in Upto(RowCount(w)), didSelectRow(w, r)
        PROVE  CommonInv'
    <3>1. onScreen /\ loaded /\ ~crashed
      BY <2>4 DEF didSelectRow
    <3>2. CASE OutOfRange(w, r)
      BY <2>0, <2>4, <3>1, <3>2, TurnsInRange, CrashInv DEF didSelectRow
    <3>3. CASE ~OutOfRange(w, r)
      BY <2>0, <2>4, <3>1, <3>3, SpunInv DEF didSelectRow
    <3> QED BY <3>2, <3>3
  <2>5. CASE showSheet
    <3>1. /\ ~crashed /\ onScreen' = TRUE /\ confirmed' = NothingConfirmed
          /\ UNCHANGED <<firIndex, secIndex, thdIndex, wheelVars, crashed, moved, astray>>
      BY <2>5 DEF showSheet
    <3>2. ThirdCount(thirdOf)' = ThirdCount(thirdOf)
      BY <2>0, <3>1 DEF ThirdCount, wheelVars
    <3>3. confirmed'.told = <<>> /\ confirmed'.seen = <<>>
      BY <3>1 DEF NothingConfirmed
    <3>4. CommonTypeOK' /\ ToldIsShown'
      BY <2>0, <3>1, <3>3 DEF CommonInv, CommonTypeOK, ToldIsShown, wheelVars
    <3>5. Rests' /\ Agree' /\ Told'
      BY <2>0, <3>1 DEF CommonInv, Rests, Agree, Told, wheelVars
    <3>6. ThirdAgrees' /\ CrashesForAReason'
      BY <2>0, <3>1, <3>2 DEF CommonInv, ThirdAgrees, CrashesForAReason, wheelVars
    <3> QED BY <3>4, <3>5, <3>6 DEF CommonInv
  <2>6. CASE confirmSheet
    <3>1. onScreen /\ loaded /\ ~crashed
      BY <2>6 DEF confirmSheet
    <3>2. CASE Missing
      <4>1. ASSUME ~astray, ~moved PROVE ThirdCount(thirdOf) = 0
        <5>1. /\ componentNum = 3 /\ thirdOf = <<firIndex, secIndex>>
              /\ firIndex \in Upto(FirstCount) /\ secIndex \in Upto(Seconds[firIndex])
          BY <3>1, <3>2, <4>1 DEF Missing, CommonInv, Agree, CommonTypeOK
        <5>2. ThirdCount(thirdOf) = Thirds[firIndex][secIndex]
          BY <5>1, ListsTyped
        <5> QED BY <3>1, <3>2, <4>1, <5>1, <5>2 DEF Missing, CommonInv, ThirdAgrees
      <4>2. Crash /\ componentNum = 3
        BY <2>6, <3>2 DEF confirmSheet, Missing
      <4> QED BY <2>0, <3>1, <4>1, <4>2, CrashInv
    <3>3. CASE ~Missing
      BY <2>0, <2>6, <3>1, <3>3, ConfirmInv DEF confirmSheet
    <3> QED BY <3>2, <3>3
  <2>7. CASE removeSheet
    <3>1. /\ onScreen' = FALSE
          /\ UNCHANGED <<firIndex, secIndex, thdIndex, wheelVars, crashed, confirmed,
                         moved, astray>>
      BY <2>7 DEF removeSheet
    <3>2. ThirdCount(thirdOf)' = ThirdCount(thirdOf)
      BY <2>0, <3>1 DEF ThirdCount, wheelVars
    <3>3. CommonTypeOK' /\ Rests' /\ Agree' /\ Told' /\ ToldIsShown'
      BY <2>0, <3>1 DEF CommonInv, CommonTypeOK, Rests, Agree, Told, ToldIsShown, wheelVars
    <3>4. ThirdAgrees' /\ CrashesForAReason'
      BY <2>0, <3>1, <3>2 DEF CommonInv, ThirdAgrees, CrashesForAReason, wheelVars
    <3> QED BY <3>3, <3>4 DEF CommonInv
  <2> QED BY <1>1, <2>1, <2>2, <2>3, <2>4, <2>5, <2>6, <2>7 DEF CommonNext
<1> QED BY <1>0, <1>1

LEMMA CommonAlways == CommonSpec => []CommonInv
BY CommonInvInit, CommonInvNext, PTL DEF CommonSpec

(* The state of the sheet has its type, and its indices are those of rows   *)
(* of its lists, whatever the app's lists are.                              *)
THEOREM CommonTypeTheorem == CommonSpec => []CommonTypeOK
BY CommonAlways, PTL DEF CommonInv

(* The values told with OK are those that the wheels show, for any lists    *)
(* (STRCCommonPickerView.m:136-175, 208-239).                               *)
THEOREM ToldTheorem == CommonSpec => []ToldIsShown
BY CommonAlways, PTL DEF CommonInv

(* For any lists, an index beyond its list is met only by a sheet that was  *)
(* led astray or whose third list is missing.                               *)
THEOREM CrashTheorem == CommonSpec => []CrashesForAReason
BY CommonAlways, PTL DEF CommonInv

----------------------------------------------------------------------------
(* The date sheet.  Until the app sets limits or a selection that the code *)
(* does not follow, the limits agree with each other, and loaded wheels     *)
(* agree with the rows they rest at.  The third index may be off: the       *)
(* missing break leaves a month's row there.                                *)
LimitsAgree ==
  /\ IsDay(least) /\ ~Before(Today, least)
  /\ yearSum = Today.year - least.year + 1
  /\ leastMonthNum = getLastMonth(least.year)

HasYearMonth(idx) ==
  idx[1] \in 0..(yearSum - 1) /\ idx[2] \in 0..(Counts(idx)[2] - 1)

HasRows(idx) == HasYearMonth(idx) /\ idx[3] \in 0..(Counts(idx)[3] - 1)

WheelsAgree ==
  /\ count = Counts(row) /\ base = Base(row) /\ HasRows(row)
  /\ index[1] = row[1] /\ index[2] = row[2]

NotLoaded ==
  /\ date = Today /\ ~shown
  /\ index = <<0, 0, 0>> /\ row = <<NoRow, NoRow, NoRow>>

DateInv ==
  /\ DateTypeOK
  /\ ~misled => /\ LimitsAgree /\ Offered(date)
                /\ Loaded => WheelsAgree
                /\ ~Loaded => NotLoaded
                /\ report.told = report.seen

LEMMA MonthLengths ==
  ASSUME NEW y \in Int, NEW m \in Int
  PROVE  MonthLength(y, m) \in Int
BY DEF MonthLength

LEMMA MonthsHaveDays ==
  ASSUME NEW y \in Int, NEW m \in 1..12
  PROVE  MonthLength(y, m) \in 28..31
BY DEF MonthLength

LEMMA Triples ==
  ASSUME NEW a \in Int, NEW b \in Int, NEW c \in Int
  PROVE  /\ <<a, b, c>> \in [Wheel -> Int]
         /\ <<a, b, c>>[1] = a /\ <<a, b, c>>[2] = b /\ <<a, b, c>>[3] = c
BY DEF Wheel

LEMMA TriplesEqual ==
  ASSUME NEW p \in [Wheel -> Int]
  PROVE  /\ p[1] \in Int /\ p[2] \in Int /\ p[3] \in Int
         /\ p = <<p[1], p[2], p[3]>>
BY DEF Wheel

LEMMA TodayIsDay ==
  /\ Today \in Date /\ Today.year \in Int /\ Today.year > 2015
  /\ Today.month \in 1..12 /\ Today.day \in Int /\ Today.day >= 1
  /\ Today.day <= MonthLength(Today.year, Today.month)
<1>1. Today \in Date /\ Today.month \in 1..12
      /\ Today.day \in 1..MonthLength(Today.year, Today.month) /\ Today.year > 2015
  BY DateAssumption DEF IsDay
<1>2. Today.year \in Int /\ Today.day \in Int
  BY <1>1 DEF Date
<1>3. MonthLength(Today.year, Today.month) \in 28..31
  BY <1>1, <1>2, MonthsHaveDays
<1> QED BY <1>1, <1>2, <1>3

(* What the wheels are told are numbers, whatever the indices are.          *)
LEMMA CountsTyped ==
  ASSUME least \in Date, yearSum \in Int, leastMonthNum \in Int,
         NEW idx \in [Wheel -> Int]
  PROVE  Counts(idx) \in [Wheel -> Int] /\ Base(idx) \in [Wheel -> Int]
<1> DEFINE m == idx[2] + Base(idx)[2]
           y == idx[1] + Base(idx)[1]
<1>1. idx[1] \in Int /\ idx[2] \in Int /\ least.year \in Int
      /\ least.month \in Int /\ least.day \in Int
  BY DEF Date, Wheel
<1>2. Base(idx) \in [Wheel -> Int] /\ Base(idx)[1] \in Int /\ Base(idx)[2] \in Int
      /\ Base(idx)[3] \in Int
  BY <1>1, Triples DEF Base
<1>3. m \in Int /\ y \in Int
  BY <1>1, <1>2
<1> HIDE DEF m, y
<1>4. getDays(y, m) \in Int /\ getLastMonth(y) \in Int
  <2>1. MonthLength(y, m) \in Int
    BY <1>3, MonthLengths, Zenon
  <2> QED BY <1>3, <2>1, TodayIsDay DEF getDays, getLastMonth
<1>5. Counts(idx) = << yearSum,
                       IF idx[1] = 0 THEN leastMonthNum - least.month + 1
                       ELSE getLastMonth(y),
                       getDays(y, m) - Base(idx)[3] + 1 >>
  BY DEF Counts, m, y
<1>6. (IF idx[1] = 0 THEN leastMonthNum - least.month + 1 ELSE getLastMonth(y)) \in Int
  BY <1>1, <1>4
<1>7. getDays(y, m) - Base(idx)[3] + 1 \in Int
  BY <1>2, <1>4
<1> QED BY <1>2, <1>5, <1>6, <1>7, Triples

(* Only the year and the month decide what the wheels are told.             *)
LEMMA SameYearMonth ==
  ASSUME NEW i, NEW j, i[1] = j[1], i[2] = j[2]
  PROVE  Counts(i) = Counts(j) /\ Base(i) = Base(j)
BY DEF Counts, Base

(* The year and month of a row that the wheels have, and its days.          *)
LEMMA YearMonthOf ==
  ASSUME LimitsAgree, NEW idx \in [Wheel -> Int], HasYearMonth(idx)
  PROVE  LET b == Base(idx)
             y == idx[1] + b[1]
             m == idx[2] + b[2]
             last == getDays(y, m)
         IN /\ y \in Int /\ y >= least.year /\ y <= Today.year /\ m \in 1..12
            /\ y = least.year => m >= least.month
            /\ y = Today.year => m <= Today.month
            /\ b[1] = least.year
            /\ b[3] = IF y = least.year /\ m = least.month THEN least.day ELSE 1
            /\ Counts(idx)[3] = last - b[3] + 1
            /\ last \in b[3]..MonthLength(y, m) /\ b[3] >= 1 /\ last <= 31
            /\ y = Today.year /\ m = Today.month => last = Today.day
            /\ ~(y = Today.year /\ m = Today.month) => last = MonthLength(y, m)
<1> DEFINE b == Base(idx)
           y == idx[1] + b[1]
           m == idx[2] + b[2]
           last == getDays(y, m)
<1>1. idx[1] \in Int /\ idx[2] \in Int /\ idx[1] \in 0..(yearSum - 1)
      /\ idx[2] \in 0..(Counts(idx)[2] - 1)
  BY DEF HasYearMonth, Wheel
<1>2. /\ least.year \in Int /\ least.month \in 1..12 /\ least.day \in Int
      /\ least.day >= 1 /\ least.day <= MonthLength(least.year, least.month)
      /\ MonthLength(least.year, least.month) \in 28..31
  <2>1. least \in Date /\ least.month \in 1..12
        /\ least.day \in 1..MonthLength(least.year, least.month)
    BY DEF LimitsAgree, IsDay
  <2>2. least.year \in Int /\ least.day \in Int
    BY <2>1 DEF Date
  <2>3. MonthLength(least.year, least.month) \in 28..31
    BY <2>1, <2>2, MonthsHaveDays, Zenon
  <2> QED BY <2>1, <2>2, <2>3
<1>3. /\ b[1] = least.year
      /\ b[2] = IF idx[1] = 0 THEN least.month ELSE 1
      /\ b[3] = IF idx[1] = 0 /\ idx[2] = 0 THEN least.day ELSE 1
  BY DEF Base
<1>4. Counts(idx)[2] = IF idx[1] = 0 THEN leastMonthNum - least.month + 1
                       ELSE getLastMonth(y)
  BY DEF Counts
<1>5. Counts(idx)[3] = last - b[3] + 1
  BY DEF Counts
<1> HIDE DEF b
<1>6. y \in Int /\ y >= least.year /\ y <= Today.year /\ (y = least.year <=> idx[1] = 0)
  BY <1>1, <1>2, <1>3, TodayIsDay DEF LimitsAgree
<1>7. ~Before(Today, least) /\ leastMonthNum = getLastMonth(least.year)
  BY DEF LimitsAgree
<1> HIDE DEF y
<1>8. /\ m \in 1..12
      /\ y = least.year => m >= least.month
      /\ y = least.year => (m = least.month <=> idx[2] = 0)
      /\ y = Today.year => m <= Today.month
  <2>1. getLastMonth(y) \in 1..12 /\ getLastMonth(least.year) \in 1..12
        /\ (y = Today.year => getLastMonth(y) = Today.month)
    BY TodayIsDay DEF getLastMonth
  <2>2. m = idx[2] + b[2] /\ m \in Int
    BY <1>1, <1>2, <1>3
  <2> HIDE DEF m
  <2>3. CASE idx[1] = 0
    BY <1>1, <1>2, <1>3, <1>4, <1>6, <1>7, <2>1, <2>2, <2>3
  <2>4. CASE idx[1] # 0
    BY <1>1, <1>2, <1>3, <1>4, <1>6, <1>7, <2>1, <2>2, <2>4
  <2> QED BY <2>3, <2>4
<1> HIDE DEF m
<1>9. b[3] = IF y = least.year /\ m = least.month THEN least.day ELSE 1
  BY <1>3, <1>6, <1>8
<1>10. MonthLength(y, m) \in 28..31
  BY <1>6, <1>8, MonthsHaveDays, Zenon
<1>11. /\ y = Today.year /\ m = Today.month => last = Today.day
       /\ ~(y = Today.year /\ m = Today.month) => last = MonthLength(y, m)
  BY DEF getDays
<1>12. y = Today.year /\ m = Today.month /\ y = least.year /\ m = least.month
         => least.day <= Today.day
  BY <1>2, <1>7, TodayIsDay DEF Before
<1> HIDE DEF last
<1>13. CASE y = Today.year /\ m = Today.month
  BY <1>2, <1>3, <1>5, <1>6, <1>8, <1>9, <1>10, <1>11, <1>12, <1>13, TodayIsDay DEF b, y, m, last
<1>14. CASE ~(y = Today.year /\ m = Today.month)
  BY <1>2, <1>3, <1>5, <1>6, <1>8, <1>9, <1>10, <1>11, <1>14, TodayIsDay DEF b, y, m, last
<1> QED BY <1>13, <1>14

(* A row that the wheels have stands for a date between the begin and today. *)
LEMMA RowsOffered ==
  ASSUME LimitsAgree, NEW idx \in [Wheel -> Int], HasRows(idx)
  PROVE  Offered(DateAt(Base(idx), idx)) /\ DateAt(Base(idx), idx) \in Date
<1> DEFINE b == Base(idx)
           y == idx[1] + b[1]
           m == idx[2] + b[2]
           d == idx[3] + b[3]
           last == getDays(y, m)
<1>1. HasYearMonth(idx) /\ idx[3] \in 0..(Counts(idx)[3] - 1)
  BY DEF HasRows
<1>2. /\ y \in Int /\ y >= least.year /\ y <= Today.year /\ m \in 1..12
      /\ y = least.year => m >= least.month
      /\ y = Today.year => m <= Today.month
      /\ b[3] = IF y = least.year /\ m = least.month THEN least.day ELSE 1
      /\ Counts(idx)[3] = last - b[3] + 1
      /\ last \in b[3]..MonthLength(y, m) /\ b[3] >= 1
      /\ y = Today.year /\ m = Today.month => last = Today.day
  BY <1>1, YearMonthOf
<1>3. b[3] \in Int /\ idx[3] \in Int
  <2>1. least.day \in Int
    BY DEF LimitsAgree, IsDay, Date
  <2> HIDE DEF b, y, m
  <2> QED BY <1>2, <2>1, TriplesEqual
<1>4. MonthLength(y, m) \in Int
  <2> HIDE DEF y, m
  <2> QED BY <1>2, MonthsHaveDays
<1>5. least.year \in Int /\ least.month \in Int /\ least.day \in Int
  BY DEF LimitsAgree, IsDay, Date
<1>6. DateAt(b, idx) = [year |-> y, month |-> m, day |-> d]
  BY DEF DateAt
<1> HIDE DEF b, y, m, last
<1>7. d \in 1..MonthLength(y, m) /\ d \in Int
  BY <1>1, <1>2, <1>3, <1>4
<1>8. y = least.year /\ m = least.month => d >= least.day
  BY <1>1, <1>2, <1>3, <1>4, <1>5
<1>9. y = Today.year /\ m = Today.month => d <= Today.day
  BY <1>1, <1>2, <1>3, <1>4, TodayIsDay
<1> HIDE DEF d
<1>10. [year |-> y, month |-> m, day |-> d] \in Date
  BY <1>2, <1>7 DEF Date
<1>11. ~Before([year |-> y, month |-> m, day |-> d], least)
  BY <1>2, <1>5, <1>7, <1>8 DEF Before
<1>12. ~Before(Today, [year |-> y, month |-> m, day |-> d])
  BY <1>2, <1>7, <1>9, TodayIsDay DEF Before
<1> QED BY <1>6, <1>7, <1>10, <1>11, <1>12 DEF Offered, b

(* A reload with the wheels at rows whose year and month they have leaves   *)
(* them at rows that they have.                                             *)
LEMMA ReloadSettles ==
  ASSUME DateTypeOK, LimitsAgree, NEW rows \in [Wheel -> Int], NEW idx \in [Wheel -> Int],
         idx[1] = rows[1], idx[2] = rows[2], HasYearMonth(idx), Reload(rows, idx),
         UNCHANGED <<least, yearSum, leastMonthNum>>
  PROVE  /\ row' \in [Wheel -> Int] /\ row'[1] = rows[1] /\ row'[2] = rows[2]
         /\ 0 <= rows[3] /\ rows[3] < Counts(idx)[3] => row'[3] = rows[3]
         /\ HasRows(row') /\ count' = Counts(row')
         /\ count' \in [Wheel -> Int] /\ count' # <<0, 0, 0>>
         /\ \A w \in Wheel : count'[w] \in 1..(31 + yearSum) /\ row'[w] \in 0..(count'[w] - 1)
<1> DEFINE n == Counts(idx)
<1>1. n \in [Wheel -> Int] /\ n[1] \in Int /\ n[2] \in Int /\ n[3] \in Int
  BY CountsTyped, TriplesEqual DEF DateTypeOK
<1>2. rows[1] \in Int /\ rows[2] \in Int /\ rows[3] \in Int
  BY TriplesEqual
<1>3. count' = n /\ row' = [w \in Wheel |-> Within(rows[w], n[w])]
  BY DEF Reload
<1>4. n[1] = yearSum /\ yearSum \in Int
  BY DEF Counts, DateTypeOK
<1>5. idx[1] \in 0..(yearSum - 1) /\ idx[2] \in 0..(n[2] - 1)
  BY DEF HasYearMonth
<1>6. n[3] \in 1..31
  <2> DEFINE b == Base(idx)
             y == idx[1] + b[1]
             m == idx[2] + b[2]
             last == getDays(y, m)
  <2>1. /\ n[3] = last - b[3] + 1
        /\ last \in b[3]..MonthLength(y, m) /\ b[3] >= 1 /\ last <= 31
        /\ b[3] = IF y = least.year /\ m = least.month THEN least.day ELSE 1
    BY YearMonthOf
  <2>2. least.day \in Int
    BY DEF LimitsAgree, IsDay, Date
  <2> HIDE DEF b, y, m, last, n
  <2> QED BY <2>1, <2>2
<1>7. n[2] \in 1..(31 + yearSum)
  <2>1. least.month \in 1..12 /\ leastMonthNum \in 1..12
    BY TodayIsDay DEF LimitsAgree, IsDay, getLastMonth
  <2>2. n[2] = IF idx[1] = 0 THEN leastMonthNum - least.month + 1
               ELSE getLastMonth(idx[1] + Base(idx)[1])
    BY DEF Counts
  <2>3. getLastMonth(idx[1] + Base(idx)[1]) \in 1..12
    BY TodayIsDay DEF getLastMonth
  <2> HIDE DEF n
  <2>4. n[2] <= 12
    BY <2>1, <2>2, <2>3
  <2> QED BY <1>1, <1>2, <1>4, <1>5, <2>4
<1> HIDE DEF n
<1>8. \A w \in Wheel : Within(rows[w], n[w]) \in Int
  BY <1>1 DEF Within, NoRow, Wheel
<1>9. row' \in [Wheel -> Int]
  BY <1>3, <1>8
<1>10. /\ row'[1] = Within(rows[1], n[1]) /\ row'[2] = Within(rows[2], n[2])
       /\ row'[3] = Within(rows[3], n[3])
  BY <1>3 DEF Wheel
<1>11. row'[1] = rows[1] /\ row'[2] = rows[2]
  BY <1>1, <1>2, <1>4, <1>5, <1>10 DEF Within
<1>12. row'[3] \in 0..(n[3] - 1)
       /\ (0 <= rows[3] /\ rows[3] < n[3] => row'[3] = rows[3])
  BY <1>1, <1>2, <1>6, <1>10 DEF Within
<1>13. n = Counts(row')
  BY <1>11, SameYearMonth DEF n
<1>14. HasRows(row')
  BY <1>5, <1>11, <1>12, <1>13 DEF HasRows, HasYearMonth
<1>15. count' # <<0, 0, 0>>
  BY <1>3, <1>6
<1>16. \A w \in Wheel : count'[w] \in 1..(31 + yearSum) /\ row'[w] \in 0..(count'[w] - 1)
  <2>1. /\ n[1] \in 1..(31 + yearSum) /\ row'[1] \in 0..(n[1] - 1)
        /\ n[2] \in 1..(31 + yearSum) /\ row'[2] \in 0..(n[2] - 1)
        /\ n[3] \in 1..(31 + yearSum) /\ row'[3] \in 0..(n[3] - 1)
    BY <1>1, <1>2, <1>4, <1>5, <1>6, <1>7, <1>11, <1>12
  <2> QED BY <1>3, <2>1 DEF Wheel
<1> QED BY <1>1, <1>3, <1>9, <1>11, <1>12, <1>13, <1>14, <1>15, <1>16 DEF n

(* Which days of a month are offered.                                       *)
LEMMA OfferedDays ==
  ASSUME LimitsAgree, NEW y \in Int, NEW m \in 1..12, NEW d \in Int,
         least.year <= y, y <= Today.year
  PROVE  Offered([year |-> y, month |-> m, day |-> d]) <=>
           /\ 1 <= d /\ d <= MonthLength(y, m)
           /\ y = least.year => \/ m > least.month
                                \/ m = least.month /\ d >= least.day
           /\ y = Today.year => \/ m < Today.month
                                \/ m = Today.month /\ d <= Today.day
<1>1. MonthLength(y, m) \in 28..31
  BY MonthsHaveDays
<1>2. least.year \in Int /\ least.month \in 1..12 /\ least.day \in Int
  BY DEF LimitsAgree, IsDay, Date
<1> DEFINE e == [year |-> y, month |-> m, day |-> d]
<1>3. e.year = y /\ e.month = m /\ e.day = d
  OBVIOUS
<1> HIDE DEF e
<1>4. ~Before(e, least) <=>
        (y = least.year => m > least.month \/ (m = least.month /\ d >= least.day))
  BY <1>2, <1>3 DEF Before
<1>5. ~Before(Today, e) <=>
        (y = Today.year => m < Today.month \/ (m = Today.month /\ d <= Today.day))
  BY <1>3, TodayIsDay DEF Before
<1>6. e.day \in 1..MonthLength(e.year, e.month) <=> 1 <= d /\ d <= MonthLength(y, m)
  BY <1>1, <1>3
<1> QED BY <1>4, <1>5, <1>6 DEF Offered, e

(* Wheels that agree with their rows offer the dates from begin to today.   *)
LEMMA WheelsOffer ==
  ASSUME DateTypeOK, LimitsAgree, WheelsAgree
  PROVE  LET at == DateAt(base, row)
         IN /\ Labels(1) = least.year..Today.year
            /\ Labels(2) = {m \in 1..12 :
                              \E d \in 1..31 : Offered([at EXCEPT !.month = m, !.day = d])}
            /\ Labels(3) = {d \in 1..31 : Offered([at EXCEPT !.day = d])}
            /\ Offered(at)
<1> DEFINE b == Base(row)
           y == row[1] + b[1]
           month == row[2] + b[2]
           last == getDays(y, month)
           at == DateAt(base, row)
<1>1. row \in [Wheel -> Int] /\ HasRows(row) /\ HasYearMonth(row)
      /\ count = Counts(row) /\ base = Base(row)
  BY DEF DateTypeOK, WheelsAgree, HasRows
<1>2. Offered(at)
  BY <1>1, RowsOffered
<1>3. /\ y \in Int /\ y >= least.year /\ y <= Today.year /\ month \in 1..12
      /\ y = least.year => month >= least.month
      /\ y = Today.year => month <= Today.month
      /\ b[1] = least.year
      /\ b[3] = IF y = least.year /\ month = least.month THEN least.day ELSE 1
      /\ count[3] = last - b[3] + 1
      /\ last \in b[3]..MonthLength(y, month) /\ b[3] >= 1 /\ last <= 31
      /\ y = Today.year /\ month = Today.month => last = Today.day
      /\ ~(y = Today.year /\ month = Today.month) => last = MonthLength(y, month)
  BY <1>1, YearMonthOf
<1>4. /\ least.year \in Int /\ least.month \in 1..12 /\ least.day \in Int
      /\ least.day >= 1 /\ least.day <= MonthLength(least.year, least.month)
  <2>1. least \in Date /\ least.month \in 1..12
        /\ least.day \in 1..MonthLength(least.year, least.month)
    BY DEF LimitsAgree, IsDay
  <2>2. least.year \in Int /\ least.day \in Int
    BY <2>1 DEF Date
  <2>3. MonthLength(least.year, least.month) \in 28..31
    BY <2>1, <2>2, MonthsHaveDays, Zenon
  <2> QED BY <2>1, <2>2, <2>3
<1>5. yearSum = Today.year - least.year + 1 /\ leastMonthNum = getLastMonth(least.year)
      /\ ~Before(Today, least)
  BY DEF LimitsAgree
<1>6. count[1] = yearSum /\ base[1] = least.year
  BY <1>1 DEF Counts, Base
<1>7. Labels(1) = least.year..Today.year
  BY <1>4, <1>5, <1>6, TodayIsDay DEF Labels
<1>8. row[1] \in Int /\ row[2] \in Int /\ row[3] \in Int
  BY <1>1, TriplesEqual
<1> DEFINE low == IF y = least.year THEN least.month ELSE 1
           high == IF y = Today.year THEN Today.month ELSE 12
<1>9. Labels(2) = low..high
  <2>1. b[2] = (IF row[1] = 0 THEN least.month ELSE 1)
        /\ count[2] = (IF row[1] = 0 THEN leastMonthNum - least.month + 1
                      ELSE getLastMonth(y))
    BY <1>1 DEF Counts, Base
  <2>2. y = row[1] + least.year
    BY <1>3
  <2> HIDE DEF y
  <2>3. base[2] = low /\ base[2] + count[2] - 1 = high
    <3>1. y \in Int /\ (y = least.year <=> row[1] = 0) /\ base[2] = b[2]
      BY <1>1, <1>4, <1>8, <2>2
    <3>2. leastMonthNum \in Int /\ getLastMonth(y) = high
          /\ (y = least.year => leastMonthNum = high)
      BY <1>5, TodayIsDay DEF getLastMonth
    <3> HIDE DEF b, high
    <3>3. CASE row[1] = 0
      BY <1>4, <2>1, <3>1, <3>2, <3>3
    <3>4. CASE row[1] # 0
      <4>1. high \in Int
        BY TodayIsDay DEF high
      <4> QED BY <2>1, <3>1, <3>2, <3>4, <4>1
    <3> QED BY <3>3, <3>4
  <2> QED BY <2>3 DEF Labels
<1>10. Labels(3) = b[3]..last
  <2>1. last \in Int /\ b[3] \in Int
    BY <1>3, <1>4 DEF b, y, month, last
  <2>2. Labels(3) = b[3]..(b[3] + count[3] - 1)
    BY <1>1 DEF Labels
  <2>3. count[3] = last - b[3] + 1
    BY <1>3
  <2> HIDE DEF b, y, month, last
  <2>4. b[3] + count[3] - 1 = last
    BY <2>1, <2>3
  <2> QED BY <2>2, <2>4
<1>11. \A m \in 1..12, d \in 1..31 :
         [at EXCEPT !.month = m, !.day = d] = [year |-> y, month |-> m, day |-> d]
  <2>1. at = [year |-> y, month |-> month, day |-> row[3] + b[3]]
    BY <1>1 DEF DateAt
  <2> HIDE DEF at, y, month, b
  <2> TAKE m \in 1..12, d \in 1..31
  <2>2. [at EXCEPT !.month = m] = [year |-> y, month |-> m, day |-> row[3] + b[3]]
    BY <2>1
  <2>3. [[year |-> y, month |-> m, day |-> row[3] + b[3]] EXCEPT !.day = d]
        = [year |-> y, month |-> m, day |-> d]
    OBVIOUS
  <2> QED BY <2>2, <2>3, Zenon
<1>12. \A d \in 1..31 :
         [at EXCEPT !.day = d] = [year |-> y, month |-> month, day |-> d]
  BY <1>1 DEF DateAt
<1> HIDE DEF b, y, month, last, at
<1>13. ASSUME NEW m \in 1..12
       PROVE  m \in low..high <=>
                \E d \in 1..31 : Offered([year |-> y, month |-> m, day |-> d])
  <2> DEFINE day0 == IF y = least.year /\ m = least.month THEN least.day ELSE 1
  <2>1. MonthLength(y, m) \in 28..31
    BY <1>3, MonthsHaveDays
  <2>2. day0 \in 1..31 /\ day0 <= MonthLength(y, m)
    <3>1. CASE y = least.year /\ m = least.month
      BY <1>4, <2>1, <3>1
    <3>2. CASE ~(y = least.year /\ m = least.month)
      BY <2>1, <3>2
    <3> QED BY <3>1, <3>2
  <2>3. ASSUME m \in low..high
        PROVE  \E d \in 1..31 : Offered([year |-> y, month |-> m, day |-> d])
    <3>0. /\ y = least.year /\ m = least.month => day0 = least.day
          /\ ~(y = least.year /\ m = least.month) => day0 = 1
          /\ day0 \in Int
      BY <2>2
    <3>9. /\ y = least.year => m >= least.month
          /\ y = Today.year => m <= Today.month
      <4>1. low \in Int /\ high \in Int
        BY <1>4, TodayIsDay
      <4>2. y = least.year => low = least.month
        OBVIOUS
      <4>3. y = Today.year => high = Today.month
        OBVIOUS
      <4> HIDE DEF low, high
      <4> QED BY <2>3, <4>1, <4>2, <4>3
    <3> HIDE DEF day0
    <3>1. y = least.year => \/ m > least.month
                            \/ m = least.month /\ day0 >= least.day
      BY <1>4, <3>0, <3>9
    <3>2. y = Today.year => \/ m < Today.month
                            \/ m = Today.month /\ day0 <= Today.day
      <4>1. CASE y = least.year /\ m = least.month
        BY <1>4, <1>5, <3>0, <3>9, <4>1, TodayIsDay DEF Before
      <4>2. CASE ~(y = least.year /\ m = least.month)
        BY <3>0, <3>9, <4>2, TodayIsDay
      <4> QED BY <4>1, <4>2
    <3>3. day0 \in Int /\ 1 <= day0
      BY <2>2
    <3>4. Offered([year |-> y, month |-> m, day |-> day0])
      BY <1>3, <2>2, <3>1, <3>2, <3>3, OfferedDays
    <3> QED BY <2>2, <3>4
  <2>4. ASSUME NEW d \in 1..31, Offered([year |-> y, month |-> m, day |-> d])
        PROVE  m \in low..high
    <3>1. /\ y = least.year => \/ m > least.month
                               \/ m = least.month /\ d >= least.day
          /\ y = Today.year => \/ m < Today.month
                               \/ m = Today.month /\ d <= Today.day
      BY <1>3, <2>4, OfferedDays
    <3> QED BY <1>3, <1>4, <3>1, TodayIsDay
  <2> QED BY <2>3, <2>4
<1>14. low..high = {m \in 1..12 : \E d \in 1..31 : Offered([at EXCEPT !.month = m, !.day = d])}
  <2>1. low..high \subseteq 1..12
    BY <1>4, TodayIsDay
  <2> HIDE DEF low, high
  <2>2. \A m \in 1..12 :
          (\E d \in 1..31 : Offered([at EXCEPT !.month = m, !.day = d])) <=> m \in low..high
    <3> TAKE m \in 1..12
    <3>1. m \in low..high <=>
            \E d \in 1..31 : Offered([year |-> y, month |-> m, day |-> d])
      BY <1>13
    <3>2. \A d \in 1..31 :
            [at EXCEPT !.month = m, !.day = d] = [year |-> y, month |-> m, day |-> d]
      BY <1>11
    <3> QED BY <3>1, <3>2
  <2> QED BY <2>1, <2>2
<1>15. b[3]..last = {d \in 1..31 : Offered([at EXCEPT !.day = d])}
  <2>1. b[3] \in Int /\ last \in Int /\ MonthLength(y, month) \in Int
    BY <1>3, <1>4, MonthsHaveDays
  <2>2. ASSUME NEW d \in 1..31
        PROVE  d \in b[3]..last <=> Offered([year |-> y, month |-> month, day |-> d])
    <3>1. Offered([year |-> y, month |-> month, day |-> d]) <=>
           /\ 1 <= d /\ d <= MonthLength(y, month)
           /\ y = least.year => \/ month > least.month
                                \/ month = least.month /\ d >= least.day
           /\ y = Today.year => \/ month < Today.month
                                \/ month = Today.month /\ d <= Today.day
      BY <1>3, OfferedDays
    <3>2. CASE y = Today.year /\ month = Today.month
      BY <1>3, <1>4, <2>1, <3>1, <3>2, TodayIsDay
    <3>3. CASE ~(y = Today.year /\ month = Today.month)
      BY <1>3, <1>4, <2>1, <3>1, <3>3, TodayIsDay
    <3> QED BY <3>2, <3>3
  <2>3. b[3]..last \subseteq 1..31
    BY <1>3, <2>1
  <2> QED BY <1>12, <2>2, <2>3, SMTT(30)
<1> HIDE DEF low, high
<1>16. Labels(2) = {m \in 1..12 : \E d \in 1..31 : Offered([at EXCEPT !.month = m, !.day = d])}
  BY <1>9, <1>14
<1>17. Labels(3) = {d \in 1..31 : Offered([at EXCEPT !.day = d])}
  BY <1>10, <1>15
<1> QED BY <1>2, <1>7, <1>16, <1>17 DEF at

LEMMA ReloadTyped ==
  ASSUME DateTypeOK, NEW rows \in [Wheel -> Int], NEW idx \in [Wheel -> Int],
         Reload(rows, idx)
  PROVE  count' \in [Wheel -> Int] /\ row' \in [Wheel -> Int]
<1> DEFINE n == Counts(idx)
<1>1. leastMonthNum \in Int
  BY TodayIsDay DEF DateTypeOK
<1>2. n \in [Wheel -> Int]
  BY <1>1, CountsTyped DEF DateTypeOK
<1>3. count' = n /\ row' = [w \in Wheel |-> Within(rows[w], n[w])]
  BY DEF Reload
<1> HIDE DEF n
<1>4. \A w \in Wheel : Within(rows[w], n[w]) \in Int
  BY <1>2 DEF Within, NoRow
<1> QED BY <1>2, <1>3, <1>4

LEMMA DateAtTyped ==
  ASSUME NEW b \in [Wheel -> Int], NEW rows \in [Wheel -> Int]
  PROVE  DateAt(b, rows) \in Date
BY TriplesEqual DEF DateAt, Date

LEMMA DateInvInit == DateInit => DateInv
<1> SUFFICES ASSUME DateInit PROVE DateInv
  OBVIOUS
<1> USE DEF DateInit
<1>1. least \in Date /\ least.year = 2015 /\ least.month = 1 /\ least.day = 1
  BY DEF Date
<1>2. yearSum \in Int /\ leastMonthNum \in {12, Today.month} /\ date \in Date
  BY TodayIsDay
<1>3. index \in [Wheel -> Int] /\ count \in [Wheel -> Int] /\ base \in [Wheel -> Int]
  BY Triples
<1>4. row \in [Wheel -> Int]
  BY Triples DEF NoRow
<1>5. report \in [told : Date, seen : Date] /\ report.told = report.seen
  BY TodayIsDay DEF NoReport
<1>6. ~Loaded
  BY DEF Loaded
<1>7. DateTypeOK
  BY <1>1, <1>2, <1>3, <1>4, <1>5, <1>6 DEF DateTypeOK
<1>8. IsDay(least) /\ ~Before(Today, least)
  <2>1. MonthLength(2015, 1) \in 28..31
    BY MonthsHaveDays
  <2> QED BY <1>1, <2>1, TodayIsDay DEF IsDay, Before
<1>9. leastMonthNum = getLastMonth(least.year)
  BY <1>1, TodayIsDay DEF getLastMonth
<1>10. Offered(date)
  BY <1>8, TodayIsDay DEF Offered, Before
<1> QED BY <1>5, <1>6, <1>7, <1>8, <1>9, <1>10 DEF DateInv, LimitsAgree, NotLoaded

(* Limits that the code follows are those of unloaded wheels.               *)
LEMMA SetBeginKeeps ==
  ASSUME DateInv, NEW d \in Begins, NEW hasDay \in BOOLEAN, setBeginTime(d, hasDay)
  PROVE  DateInv'
<1> DEFINE first == [d EXCEPT !.day = IF hasDay THEN @ ELSE least.day]
<1>1. /\ ~misled /\ Limits(first)
      /\ misled' = (misled \/ ~FollowsLimits(d))
      /\ UNCHANGED <<date, index, count, row, base, shown, report>>
  BY DEF setBeginTime
<1>2. DateTypeOK /\ Offered(date) /\ (Loaded => WheelsAgree) /\ (~Loaded => NotLoaded)
      /\ report.told = report.seen
  BY <1>1 DEF DateInv
<1>3. IsDay(d) /\ ~Before(Today, d) /\ d \in Date
  BY DateAssumption DEF IsDay
<1>4. first \in Date /\ first.year = d.year /\ first.month = d.month
  BY <1>2, <1>3 DEF DateTypeOK, Date
<1> HIDE DEF first
<1>5. /\ least' = first /\ yearSum' = date.year - first.year + 1
      /\ leastMonthNum' = IF first.year = date.year THEN Today.month ELSE 12
  BY <1>1 DEF Limits
<1>6. least' \in Date /\ yearSum' \in Int /\ leastMonthNum' \in {12, Today.month}
  BY <1>2, <1>4, <1>5 DEF DateTypeOK, Date
<1>7. misled' \in BOOLEAN /\ (misled' \/ FollowsLimits(d))
  BY <1>1, <1>2 DEF DateTypeOK
<1>8. ASSUME ~misled'
      PROVE  LimitsAgree' /\ Offered(date)' /\ ~Loaded' /\ NotLoaded'
  <2>1. ~Loaded /\ date.year = Today.year /\ d.day = first.day
    BY <1>5, <1>7, <1>8 DEF FollowsLimits
  <2>2. NotLoaded /\ date = Today
    BY <1>2, <2>1 DEF NotLoaded
  <2>3. ~Loaded' /\ NotLoaded'
    BY <1>1, <2>1, <2>2 DEF Loaded, NotLoaded
  <2>4. first = d
    BY <1>3, <1>4, <2>1 DEF Date
  <2>5. LimitsAgree'
    BY <1>3, <1>5, <2>1, <2>4 DEF LimitsAgree, getLastMonth
  <2>6. Offered(date)'
    BY <1>1, <1>3, <1>5, <2>2, <2>4, TodayIsDay DEF Offered, Before
  <2> QED BY <2>3, <2>5, <2>6
<1>9. DateTypeOK'
  BY <1>1, <1>2, <1>6, <1>7, <1>8 DEF DateTypeOK
<1> QED BY <1>1, <1>2, <1>8, <1>9 DEF DateInv

(* Indices whose year and month the wheels have, and any day.               *)
LEMMA SelectKeeps ==
  ASSUME DateInv, ~misled, NEW idx \in [Wheel -> Int], SelectIndices(idx),
         date' \in Date, misled' \in BOOLEAN,
         UNCHANGED <<least, yearSum, leastMonthNum, shown, report>>,
         ~misled' => HasYearMonth(idx) /\ Offered(date')
  PROVE  DateInv'
<1>1. DateTypeOK /\ LimitsAgree /\ report.told = report.seen
  BY DEF DateInv
<1>2. index' = idx /\ Reload(idx, idx) /\ base' = Base(idx)
  BY DEF SelectIndices
<1>3. count' \in [Wheel -> Int] /\ row' \in [Wheel -> Int]
  BY <1>1, <1>2, ReloadTyped
<1>4. base' \in [Wheel -> Int]
  BY <1>1, <1>2, CountsTyped, TodayIsDay DEF DateTypeOK
<1>5. ASSUME ~misled'
      PROVE  /\ WheelsAgree' /\ Loaded' /\ LimitsAgree' /\ Offered(date)'
             /\ \A w \in Wheel : count'[w] \in 1..(31 + yearSum') /\ row'[w] \in 0..(count'[w] - 1)
  <2>1. /\ row'[1] = idx[1] /\ row'[2] = idx[2]
        /\ HasRows(row') /\ count' = Counts(row') /\ count' # <<0, 0, 0>>
        /\ \A w \in Wheel : count'[w] \in 1..(31 + yearSum) /\ row'[w] \in 0..(count'[w] - 1)
    BY <1>1, <1>2, <1>5, ReloadSettles
  <2>2. Base(idx) = Base(row')
    BY <2>1, SameYearMonth
  <2>3. WheelsAgree'
    BY <1>2, <2>1, <2>2 DEF WheelsAgree, HasRows, HasYearMonth, Counts, Base
  <2>4. LimitsAgree'
    BY <1>1 DEF LimitsAgree
  <2>5. Offered(date)'
    BY <1>5 DEF Offered
  <2> QED BY <2>1, <2>3, <2>4, <2>5 DEF Loaded
<1>6. DateTypeOK'
  BY <1>1, <1>2, <1>3, <1>4, <1>5 DEF DateTypeOK
<1> QED BY <1>1, <1>5, <1>6 DEF DateInv

(* The wheels have the year and the month of a date that is offered.        *)
LEMMA OfferedHasYearMonth ==
  ASSUME LimitsAgree, NEW d \in Date, Offered(d), d.month \in 1..12,
         NEW idx \in [Wheel -> Int], idx[1] = d.year - least.year,
         idx[2] = d.month - (IF idx[1] = 0 THEN least.month ELSE 1)
  PROVE  HasYearMonth(idx)
<1>1. d.year \in Int /\ d.month \in Int /\ d.day \in Int
  BY DEF Date
<1>2. least.year \in Int /\ least.month \in 1..12 /\ least.day \in Int
  BY DEF LimitsAgree, IsDay, Date
<1>3. /\ d.year >= least.year /\ d.year <= Today.year
      /\ d.year = least.year => d.month >= least.month
      /\ d.year = Today.year => d.month <= Today.month
  BY <1>1, <1>2, TodayIsDay DEF Offered, Before
<1>4. yearSum = Today.year - least.year + 1
      /\ leastMonthNum = (IF least.year = Today.year THEN Today.month ELSE 12)
  BY DEF LimitsAgree, getLastMonth
<1>5. idx[1] + Base(idx)[1] = d.year
  BY <1>1, <1>2 DEF Base
<1>6. Counts(idx)[2] = IF idx[1] = 0 THEN leastMonthNum - least.month + 1
                       ELSE getLastMonth(d.year)
  BY <1>5 DEF Counts
<1>7. idx[1] \in 0..(yearSum - 1)
  BY <1>1, <1>2, <1>3, <1>4, TodayIsDay
<1>8. CASE idx[1] = 0
  <2>1. d.year = least.year
    BY <1>1, <1>2, <1>8
  <2>2. idx[2] = d.month - least.month /\ d.month >= least.month
    BY <1>3, <1>8, <2>1
  <2>3. d.month <= leastMonthNum /\ leastMonthNum \in Int
    BY <1>1, <1>3, <1>4, <2>1, TodayIsDay
  <2>4. idx[2] \in 0..(leastMonthNum - least.month)
    BY <1>1, <1>2, <2>2, <2>3
    <2> QED BY <1>2, <1>6, <1>7, <1>8, <2>3, <2>4 DEF HasYearMonth
<1>9. CASE idx[1] # 0
  <2>1. getLastMonth(d.year) \in 1..12 /\ d.month <= getLastMonth(d.year)
    BY <1>3, TodayIsDay DEF getLastMonth
  <2> QED BY <1>6, <1>7, <1>9, <2>1 DEF HasYearMonth
<1> QED BY <1>8, <1>9

LEMMA SelectDateKeeps ==
  ASSUME DateInv, NEW d \in Picks, selectYearMonthDay(d)
  PROVE  DateInv'
<1> DEFINE idx == IndicesOf(d)
<1>1. /\ ~misled /\ date' = d /\ SelectIndices(idx)
      /\ misled' = (misled \/ Before(d, least))
      /\ UNCHANGED <<least, yearSum, leastMonthNum, shown, report>>
  BY DEF selectYearMonthDay
<1>2. IsDay(d) /\ ~Before(Today, d) /\ d \in Date /\ d.month \in 1..12
  BY DateAssumption DEF IsDay
<1>3. LimitsAgree /\ least \in Date /\ misled \in BOOLEAN
  BY <1>1 DEF DateInv, DateTypeOK
<1>4. least.year \in Int /\ least.month \in Int /\ least.day \in Int
      /\ d.year \in Int /\ d.month \in Int /\ d.day \in Int
  BY <1>2, <1>3 DEF Date
<1>5. idx \in [Wheel -> Int] /\ idx[1] = d.year - least.year
      /\ idx[2] = d.month - (IF idx[1] = 0 THEN least.month ELSE 1)
  BY <1>4, Triples DEF IndicesOf
<1> HIDE DEF idx
<1>6. misled' \in BOOLEAN
  BY <1>1, <1>3
<1>7. ASSUME ~misled'
      PROVE  HasYearMonth(idx) /\ Offered(date')
  <2>1. Offered(d)
    BY <1>1, <1>2, <1>7 DEF Offered, IsDay
  <2> QED BY <1>1, <1>2, <1>3, <1>5, <2>1, OfferedHasYearMonth
<1> QED BY <1>1, <1>2, <1>5, <1>6, <1>7, SelectKeeps

LEMMA SelectLastKeeps == ASSUME DateInv, setSelectLastDate PROVE DateInv'
<1> DEFINE idx == <<date.year - least.year, date.month - 1, date.day - 1>>
<1>1. /\ ~misled /\ SelectIndices(idx)
      /\ misled' = (misled \/ (date.year = least.year /\ least.month > 1))
      /\ UNCHANGED <<least, yearSum, leastMonthNum, date, shown, report>>
  BY DEF setSelectLastDate
<1>2. LimitsAgree /\ least \in Date /\ misled \in BOOLEAN /\ date \in Date /\ Offered(date)
  BY <1>1 DEF DateInv, DateTypeOK
<1>3. least.year \in Int /\ least.month \in 1..12
      /\ date.year \in Int /\ date.month \in Int /\ date.day \in Int
  BY <1>2 DEF Date, LimitsAgree, IsDay
<1>4. idx \in [Wheel -> Int] /\ idx[1] = date.year - least.year /\ idx[2] = date.month - 1
  BY <1>3, Triples
<1> HIDE DEF idx
<1>5. date.month \in 1..12
  BY <1>2, <1>3 DEF Offered, MonthLength
<1>6. ASSUME ~misled'
      PROVE  HasYearMonth(idx)
  <2>1. idx[2] = date.month - (IF idx[1] = 0 THEN least.month ELSE 1)
    <3>1. date.year = least.year => least.month = 1
      <4>1. ~(date.year = least.year /\ least.month > 1)
        BY <1>1, <1>6, Zenon
      <4> QED BY <1>3, <4>1
    <3>2. idx[1] = 0 => date.year = least.year
      BY <1>3, <1>4
    <3> QED BY <1>4, <3>1, <3>2
  <2> QED BY <1>2, <1>4, <1>5, <2>1, OfferedHasYearMonth
<1>7. misled' \in BOOLEAN /\ date' \in Date /\ Offered(date')
  BY <1>1, <1>2
<1> QED BY <1>1, <1>4, <1>6, <1>7, SelectKeeps

(* How many months a year offers.                                           *)
LEMMA MonthCounts ==
  ASSUME LimitsAgree, NEW idx \in [Wheel -> Int], idx[1] \in 0..(yearSum - 1)
  PROVE  /\ Counts(idx)[2] \in 1..12
         /\ idx[1] # 0 /\ idx[1] # yearSum - 1 => Counts(idx)[2] = 12
<1>1. least.year \in Int /\ least.month \in 1..12 /\ least.day \in Int
      /\ ~Before(Today, least) /\ yearSum = Today.year - least.year + 1
  BY DEF LimitsAgree, IsDay, Date
<1>2. least.year <= Today.year /\ (least.year = Today.year => least.month <= Today.month)
  BY <1>1, TodayIsDay DEF Before
<1>3. leastMonthNum \in least.month..12
  BY <1>1, <1>2, TodayIsDay DEF LimitsAgree, getLastMonth
<1>4. Base(idx)[1] = least.year
  BY DEF Base
<1>5. Counts(idx)[2] = IF idx[1] = 0 THEN leastMonthNum - least.month + 1
                       ELSE getLastMonth(idx[1] + least.year)
  BY <1>4 DEF Counts
<1>6. getLastMonth(idx[1] + least.year) \in 1..12
  BY TodayIsDay DEF getLastMonth
<1>7. Counts(idx)[2] \in 1..12
  <2>1. leastMonthNum \in Int /\ leastMonthNum - least.month + 1 \in 1..12
    BY <1>1, <1>3
  <2> QED BY <1>5, <1>6, <2>1
<1>8. idx[1] # yearSum - 1 => idx[1] + least.year # Today.year
  BY <1>1, TodayIsDay
<1> QED BY <1>5, <1>7, <1>8 DEF getLastMonth

(* A spin leaves the wheels with a year and a month that they have.         *)
LEMMA SpinSettles ==
  ASSUME DateTypeOK, LimitsAgree, Loaded, ~misled, WheelsAgree,
         NEW w \in Wheel, NEW r \in 0..(count[w] - 1)
  PROVE  LET idx == IndexAfter(w, r)
             rows == RowsAfter(w, r)
         IN idx[1] = rows[1] /\ idx[2] = rows[2] /\ HasYearMonth(idx)
<1> DEFINE idx == IndexAfter(w, r)
           rows == RowsAfter(w, r)
<1>1. /\ index \in [Wheel -> Int] /\ row \in [Wheel -> Int]
      /\ index[1] = row[1] /\ index[2] = row[2] /\ count = Counts(row)
      /\ row[1] \in 0..(yearSum - 1) /\ row[2] \in 0..(count[2] - 1)
  BY DEF DateTypeOK, WheelsAgree, HasRows, HasYearMonth
<1>2. count[1] = yearSum /\ yearSum \in Int
  BY <1>1 DEF Counts, DateTypeOK
<1>3. count[2] \in 1..12
  BY <1>1, MonthCounts
<1>4. count[2] \in Int /\ count[3] \in Int /\ count[2] > 0 /\ count[3] > 0
  BY DEF DateTypeOK, Wheel
<1>5. r \in Int
  BY DEF DateTypeOK, Wheel
<1>6. CASE w = 1 /\ index[1] # r /\ Edge(r)
  <2>1. idx = <<r, 0, 0>> /\ rows = <<r, Within(0, count[2]), Within(0, count[3])>>
    BY <1>6 DEF IndexAfter, RowsAfter
  <2>2. Within(0, count[2]) = 0
    BY <1>4 DEF Within
  <2>3. idx \in [Wheel -> Int] /\ idx[1] = r /\ idx[2] = 0
    BY <1>5, <2>1, Triples
  <2>4. rows[1] = r /\ rows[2] = 0
    BY <2>1, <2>2
  <2>5. r \in 0..(yearSum - 1)
    BY <1>2, <1>6
  <2> HIDE DEF idx, rows
  <2>6. Counts(idx)[2] \in 1..12
    BY <2>3, <2>5, MonthCounts
  <2> QED BY <2>3, <2>4, <2>5, <2>6 DEF HasYearMonth, idx, rows
<1>7. CASE w = 1 /\ ~(index[1] # r /\ Edge(r))
  <2>1. idx = [index EXCEPT ![1] = r] /\ rows = [row EXCEPT ![1] = r]
    BY <1>7 DEF IndexAfter, RowsAfter
  <2>2. /\ idx \in [Wheel -> Int] /\ idx[1] = r /\ idx[2] = row[2]
        /\ rows[1] = r /\ rows[2] = row[2]
    BY <1>1, <1>5, <2>1 DEF Wheel
  <2>3. r \in 0..(yearSum - 1)
    BY <1>2, <1>7
  <2> HIDE DEF idx, rows
  <2>4. row[2] \in 0..(Counts(idx)[2] - 1)
    <3>1. CASE index[1] = r
      BY <1>1, <2>2, <3>1, SameYearMonth
    <3>2. CASE index[1] # r
      <4>1. r # 0 /\ r # yearSum - 1
        BY <1>2, <1>7, <3>2 DEF Edge
      <4>2. Counts(idx)[2] = 12
        BY <2>2, <2>3, <4>1, MonthCounts
      <4> QED BY <1>1, <1>3, <4>2
    <3> QED BY <3>1, <3>2
  <2> QED BY <2>2, <2>3, <2>4 DEF HasYearMonth, idx, rows
<1>8. CASE w = 2
  <2>1. idx = <<index[1], r, r>> /\ rows = [row EXCEPT ![2] = r]
    BY <1>8 DEF IndexAfter, RowsAfter
  <2>2. /\ idx[1] = row[1] /\ idx[2] = r
        /\ rows[1] = row[1] /\ rows[2] = r
    BY <1>1, <1>5, <2>1 DEF Wheel
  <2> HIDE DEF idx, rows
  <2>3. Counts(idx)[2] = count[2]
    BY <1>1, <2>2 DEF Counts, Base
  <2> QED BY <1>1, <1>8, <2>2, <2>3 DEF HasYearMonth, idx, rows
<1>9. CASE w = 3
  <2>1. idx = [index EXCEPT ![3] = r] /\ rows = [row EXCEPT ![3] = r]
    BY <1>9 DEF IndexAfter, RowsAfter
  <2>2. /\ idx[1] = row[1] /\ idx[2] = row[2]
        /\ rows[1] = row[1] /\ rows[2] = row[2]
    BY <1>1, <2>1 DEF Wheel
  <2> HIDE DEF idx, rows
  <2>3. Counts(idx) = count
    BY <1>1, <2>2, SameYearMonth
  <2> QED BY <1>1, <2>2, <2>3 DEF HasYearMonth, idx, rows
<1> QED BY <1>6, <1>7, <1>8, <1>9 DEF Wheel

LEMMA SpinKeeps ==
  ASSUME DateInv, NEW w \in Wheel, NEW r \in 0..(count[w] - 1), didSelectDateRow(w, r)
  PROVE  DateInv'
<1> DEFINE idx == IndexAfter(w, r)
           rows == RowsAfter(w, r)
<1>1. /\ shown /\ Reload(rows, idx) /\ index' = row'
      /\ date' = DateAt(Base(row'), row') /\ base' = Base(row')
      /\ UNCHANGED <<least, yearSum, leastMonthNum, shown, report, misled>>
  BY DEF didSelectDateRow, ReloadData
<1>2. DateTypeOK
  BY DEF DateInv
<1>3. r \in Int /\ index \in [Wheel -> Int] /\ row \in [Wheel -> Int]
  BY <1>2 DEF DateTypeOK
<1>4. \A n \in Int : Within(0, n) \in Int
  BY DEF Within, NoRow
<1>5. rows \in [Wheel -> Int]
  <2>1. count[2] \in Int /\ count[3] \in Int
    BY <1>2, TriplesEqual DEF DateTypeOK
  <2>2. <<r, Within(0, count[2]), Within(0, count[3])>> \in [Wheel -> Int]
    BY <1>3, <1>4, <2>1, Triples, ZenonT(30)
  <2>3. [row EXCEPT ![w] = r] \in [Wheel -> Int]
    BY <1>3
  <2> QED BY <2>2, <2>3 DEF RowsAfter
<1>6. idx \in [Wheel -> Int]
  <2>1. <<r, 0, 0>> \in [Wheel -> Int] /\ <<index[1], r, r>> \in [Wheel -> Int]
    BY <1>3, Triples, TriplesEqual
  <2>2. [index EXCEPT ![1] = r] \in [Wheel -> Int] /\ [index EXCEPT ![3] = r] \in [Wheel -> Int]
    BY <1>3
  <2>3. w = 1 \/ w = 2 \/ w = 3
    BY DEF Wheel
  <2> QED BY <2>1, <2>2, <2>3 DEF IndexAfter
<1> HIDE DEF idx, rows
<1>7. count' \in [Wheel -> Int] /\ row' \in [Wheel -> Int]
  BY <1>1, <1>2, <1>5, <1>6, ReloadTyped
<1>8. base' \in [Wheel -> Int]
  BY <1>1, <1>2, <1>7, CountsTyped, TodayIsDay DEF DateTypeOK
<1>9. date' \in Date
  BY <1>1, <1>7, <1>8, DateAtTyped
<1>10. ASSUME ~misled
       PROVE  /\ WheelsAgree' /\ Loaded' /\ LimitsAgree' /\ Offered(date)'
              /\ \A v \in Wheel : count'[v] \in 1..(31 + yearSum') /\ row'[v] \in 0..(count'[v] - 1)
  <2>1. LimitsAgree /\ Loaded /\ WheelsAgree
    BY <1>1, <1>10 DEF DateInv, NotLoaded
  <2>2. idx[1] = rows[1] /\ idx[2] = rows[2] /\ HasYearMonth(idx)
    BY <1>2, <1>10, <2>1, SpinSettles DEF idx, rows
  <2>3. /\ HasRows(row') /\ count' = Counts(row') /\ count' # <<0, 0, 0>>
        /\ \A v \in Wheel : count'[v] \in 1..(31 + yearSum) /\ row'[v] \in 0..(count'[v] - 1)
    BY <1>1, <1>2, <1>5, <1>6, <2>1, <2>2, ReloadSettles
  <2>4. Offered(date')
    BY <1>1, <1>7, <2>1, <2>3, RowsOffered
  <2>5. WheelsAgree'
    BY <1>1, <2>3 DEF WheelsAgree, HasRows, HasYearMonth, Counts, Base
  <2>6. LimitsAgree'
    BY <1>1, <2>1 DEF LimitsAgree
  <2>7. Offered(date)'
    BY <1>1, <2>4 DEF Offered
  <2> QED BY <1>1, <2>3, <2>5, <2>6, <2>7 DEF Loaded
<1>11. DateTypeOK'
  BY <1>1, <1>2, <1>7, <1>8, <1>9, <1>10 DEF DateTypeOK
<1> QED BY <1>1, <1>10, <1>11 DEF DateInv

(* Wheels are loaded at row 0 before they have been at any.                 *)
LEMMA ShowKeeps == ASSUME DateInv, show PROVE DateInv'
<1>1. /\ ~shown /\ shown' = TRUE /\ Reload(row, index) /\ base' = Base(index)
      /\ report' = NoReport
      /\ UNCHANGED <<least, yearSum, leastMonthNum, date, index, misled>>
  BY DEF show
<1>2. DateTypeOK
  BY DEF DateInv
<1>3. index \in [Wheel -> Int] /\ row \in [Wheel -> Int]
  BY <1>2 DEF DateTypeOK
<1>4. count' \in [Wheel -> Int] /\ row' \in [Wheel -> Int]
  BY <1>1, <1>2, <1>3, ReloadTyped
<1>5. base' \in [Wheel -> Int]
  BY <1>1, <1>2, <1>3, CountsTyped, TodayIsDay DEF DateTypeOK
<1>6. report' \in [told : Date, seen : Date] /\ report'.told = report'.seen
  BY <1>1, TodayIsDay DEF NoReport
<1>7. ASSUME ~misled
      PROVE  /\ WheelsAgree' /\ Loaded' /\ LimitsAgree' /\ Offered(date)'
             /\ \A v \in Wheel : count'[v] \in 1..(31 + yearSum') /\ row'[v] \in 0..(count'[v] - 1)
  <2>1. LimitsAgree /\ Offered(date)
    BY <1>7 DEF DateInv
  <2>2. PICK rows \in [Wheel -> Int] :
          index[1] = rows[1] /\ index[2] = rows[2] /\ HasYearMonth(index) /\ Reload(rows, index)
    <3>1. CASE Loaded
      <4>1. index[1] = row[1] /\ index[2] = row[2] /\ HasYearMonth(row)
        BY <1>7, <3>1 DEF DateInv, WheelsAgree, HasRows
      <4>2. HasYearMonth(index)
        BY <4>1, SameYearMonth DEF HasYearMonth
      <4> QED BY <1>1, <1>3, <4>1, <4>2
    <3>2. CASE ~Loaded
      <4>1. index = <<0, 0, 0>> /\ row = <<NoRow, NoRow, NoRow>>
        BY <1>7, <3>2 DEF DateInv, NotLoaded
      <4>2. index[1] = 0 /\ index[2] = 0
        BY <4>1
      <4>3. yearSum - 1 \in Nat
        <5>1. least.year \in Int /\ yearSum = Today.year - least.year + 1
              /\ ~Before(Today, least)
          BY <2>1 DEF LimitsAgree, IsDay, Date
        <5> QED BY <5>1, TodayIsDay DEF Before
      <4>4. index[1] \in 0..(yearSum - 1)
        BY <4>2, <4>3
      <4>5. HasYearMonth(index)
        BY <1>3, <2>1, <4>2, <4>4, MonthCounts DEF HasYearMonth
      <4>6. \A v \in Wheel : row[v] = -1 /\ index[v] = 0
        BY <4>1 DEF Wheel, NoRow
      <4>7. Reload(index, index)
        <5>1. \A v \in Wheel : Counts(index)[v] \in Int
          BY <1>2, <1>3, CountsTyped, TodayIsDay DEF DateTypeOK
        <5>2. \A v \in Wheel : Within(row[v], Counts(index)[v]) = Within(index[v], Counts(index)[v])
          BY <4>6, <5>1 DEF Within
        <5> QED BY <1>1, <5>2 DEF Reload
      <4> QED BY <1>3, <4>5, <4>7
    <3> QED BY <3>1, <3>2
  <2>3. /\ row'[1] = index[1] /\ row'[2] = index[2]
        /\ HasRows(row') /\ count' = Counts(row') /\ count' # <<0, 0, 0>>
        /\ \A v \in Wheel : count'[v] \in 1..(31 + yearSum) /\ row'[v] \in 0..(count'[v] - 1)
    BY <1>1, <1>2, <1>3, <2>1, <2>2, ReloadSettles
  <2>4. Base(index) = Base(row')
    BY <2>3, SameYearMonth
  <2>5. WheelsAgree'
    BY <1>1, <2>3, <2>4 DEF WheelsAgree, HasRows, HasYearMonth, Counts, Base
  <2>6. LimitsAgree'
    BY <1>1, <2>1 DEF LimitsAgree
  <2>7. Offered(date)'
    BY <1>1, <2>1 DEF Offered
  <2> QED BY <1>1, <2>3, <2>5, <2>6, <2>7 DEF Loaded
<1>8. DateTypeOK'
  BY <1>1, <1>2, <1>4, <1>5, <1>6, <1>7 DEF DateTypeOK
<1> QED BY <1>1, <1>6, <1>7, <1>8 DEF DateInv

LEMMA OkKeeps == ASSUME DateInv, selectedOk PROVE DateInv'
<1>1. /\ shown /\ row' = row /\ index' = row /\ date' = DateAt(Base(row), row)
      /\ report' = [told |-> date', seen |-> DateAt(base, row)] /\ shown' = FALSE
      /\ UNCHANGED <<least, yearSum, leastMonthNum, count, base, misled>>
  BY DEF selectedOk, ReloadData
<1>2. DateTypeOK /\ row \in [Wheel -> Int] /\ base \in [Wheel -> Int]
  BY DEF DateInv, DateTypeOK
<1>3. Base(row) \in [Wheel -> Int]
  BY <1>2, CountsTyped, TodayIsDay DEF DateTypeOK
<1>4. date' \in Date /\ report' \in [told : Date, seen : Date]
  BY <1>1, <1>2, <1>3, DateAtTyped
<1>5. DateTypeOK'
  BY <1>1, <1>2, <1>4 DEF DateTypeOK, Loaded
<1>6. ASSUME ~misled
      PROVE  /\ LimitsAgree' /\ Offered(date)' /\ WheelsAgree' /\ Loaded'
             /\ report'.told = report'.seen
  <2>1. LimitsAgree /\ Loaded /\ WheelsAgree
    BY <1>1, <1>6 DEF DateInv, NotLoaded
  <2>2. Offered(date')
    BY <1>1, <1>2, <2>1, RowsOffered DEF WheelsAgree
  <2>3. LimitsAgree' /\ Loaded'
    BY <1>1, <2>1 DEF LimitsAgree, Loaded
  <2>4. WheelsAgree'
    BY <1>1, <2>1 DEF WheelsAgree, HasRows, HasYearMonth, Counts, Base
  <2>5. Offered(date)'
    BY <1>1, <2>2 DEF Offered
  <2>6. report'.told = report'.seen
    BY <1>1, <2>1 DEF WheelsAgree
  <2> QED BY <2>3, <2>4, <2>5, <2>6
<1> QED BY <1>1, <1>5, <1>6 DEF DateInv

LEMMA DateInvStep == DateInv /\ [DateNext]_dateVars => DateInv'
<1> SUFFICES ASSUME DateInv, [DateNext]_dateVars PROVE DateInv'
  OBVIOUS
<1>1. ASSUME NEW d \in Begins, NEW hasDay \in BOOLEAN, setBeginTime(d, hasDay)
      PROVE  DateInv'
  BY <1>1, SetBeginKeeps
<1>2. ASSUME NEW d \in Picks, selectYearMonthDay(d) PROVE DateInv'
  BY <1>2, SelectDateKeeps
<1>3. CASE setSelectLastDate
  BY <1>3, SelectLastKeeps
<1>4. ASSUME NEW w \in Wheel, NEW r \in 0..(count[w] - 1), didSelectDateRow(w, r)
      PROVE  DateInv'
  BY <1>4, SpinKeeps
<1>5. CASE show
  BY <1>5, ShowKeeps
<1>6. CASE selectedOk
  BY <1>6, OkKeeps
<1>7. CASE UNCHANGED <<least, yearSum, leastMonthNum, date, index, count, row, base,
                       report, misled>> /\ shown' \in BOOLEAN /\ (shown' => shown)
  BY <1>7 DEF DateInv, DateTypeOK, Loaded, LimitsAgree, Offered, WheelsAgree, NotLoaded,
              HasRows, HasYearMonth, Counts, Base
<1>8. CASE remove
  BY <1>7, <1>8 DEF remove
<1>9. CASE UNCHANGED dateVars
  BY <1>7, <1>9 DEF dateVars, DateInv, DateTypeOK
<1> QED BY <1>1, <1>2, <1>3, <1>4, <1>5, <1>6, <1>8, <1>9 DEF DateNext

LEMMA DateInvHolds == DateSpec => []DateInv
BY DateInvInit, DateInvStep, PTL DEF DateSpec

(* The date sheet's state has its type; its wheels have rows, and rest at   *)
(* one, until the app misleads it (STPickerDate.m:40-76).                   *)
THEOREM DateTypeTheorem == DateSpec => []DateTypeOK
<1>1. DateInv => DateTypeOK
  BY DEF DateInv
<1> QED BY <1>1, DateInvHolds, PTL

(* The delegate is told the date that the wheels showed, for any today, any *)
(* begins and any selections (STPickerDate.m:228-268).                      *)
THEOREM DateReportTheorem == DateSpec => []ReportedIsShown
<1>1. DateInv => ReportedIsShown
  BY DEF DateInv, ReportedIsShown
<1> QED BY <1>1, DateInvHolds, PTL

(* The wheels offer the dates from the begin to today and no other, for any *)
(* today, any begins and any selections (STPickerDate.m:133-155, 162-195).  *)
THEOREM DateOfferTheorem == DateSpec => []OffersBeginToToday
<1>1. DateInv => OffersBeginToToday
  <2> SUFFICES ASSUME DateInv, shown, ~misled
               PROVE  LET at == DateAt(base, row)
                      IN /\ Labels(1) = least.year..Today.year
                         /\ Labels(2) = {m \in 1..12 :
                              \E d \in 1..31 : Offered([at EXCEPT !.month = m, !.day = d])}
                         /\ Labels(3) = {d \in 1..31 : Offered([at EXCEPT !.day = d])}
                         /\ Offered(at)
    BY DEF OffersBeginToToday
  <2>1. DateTypeOK /\ LimitsAgree /\ WheelsAgree
    BY DEF DateInv, NotLoaded
  <2> QED BY <2>1, WheelsOffer
<1> QED BY <1>1, DateInvHolds, PTL
=============================================================================

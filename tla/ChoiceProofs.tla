---------------------------- MODULE ChoiceProofs ----------------------------
(***************************************************************************)
(* Proofs about DownSelectView, for any models and lists, and about        *)
(* KPDepartSelectPopView, for any departments.                             *)
(***************************************************************************)
EXTENDS KPDepartSelectPopView, SequenceTheorems, WellFoundedInduction, TLAPS

----------------------------------------------------------------------------
(* The list.  Its models are distinct; it has no buttons, and nothing was   *)
(* taken from it, before it opens.                                          *)
Fresh ==
  /\ listUp = "new" => itemBtn = <<>>
  /\ itemBtn = <<>> => picked = NoModel
  /\ \A i, j \in DOMAIN selectList : selectList[i] = selectList[j] => i = j

ListInv == ListTypeOK /\ Fresh /\ OneChoice /\ CrashesOnlyReopened

(* The two fields of the models agree.                                      *)
Tagged == \A m \in Multi : isSelected[m] <=> tagSelecte[m] # 0

LEMMA ListInvInit == ListInit => ListInv
<1> SUFFICES ASSUME ListInit PROVE ListInv
  OBVIOUS
<1> USE ListAssumption DEF ListInit
<1>1. isSelected \in [Model -> BOOLEAN] /\ tagSelecte \in [Model -> 0..2]
  OBVIOUS
<1>2. selectList \in Seq(Model) /\ itemBtn \in Seq(BOOLEAN)
  OBVIOUS
<1>3. listUp \in {"new", "up", "gone"} /\ picked \in Model \cup {NoModel}
      /\ isAutoPop \in BOOLEAN
  OBVIOUS
<1>4. reopened \in BOOLEAN /\ listCrashed \in BOOLEAN
  OBVIOUS
<1>5. ListTypeOK
  BY <1>1, <1>2, <1>3, <1>4 DEF ListTypeOK
<1>6. DOMAIN selectList = {}
  OBVIOUS
<1>7. Fresh
  BY <1>6 DEF Fresh
<1>8. OneChoice
  <2>1. \A m \in Multi : isSelected[m] = FALSE /\ tagSelecte[m] = 0
    OBVIOUS
  <2> QED BY <2>1 DEF OneChoice
<1> QED BY <1>5, <1>7, <1>8 DEF ListInv, CrashesOnlyReopened

(* selectModelToDo: of some models keeps both fields together.              *)
LEMMA SelectsTagged ==
  ASSUME ListTypeOK, Tagged, NEW models, NEW chosen, SelectModels(models, chosen)
  PROVE  /\ isSelected' \in [Model -> BOOLEAN]
         /\ tagSelecte' \in [Model -> 0..2]
         /\ Tagged'
         /\ \A m \in models \cap Model : isSelected'[m] <=> m = chosen
<1> USE ListAssumption
<1>1. isSelected' = [m \in Model |-> IF m \in models THEN m = chosen ELSE isSelected[m]]
      /\ tagSelecte' = TagsAfter(models, chosen)
  BY DEF SelectModels
<1>2. isSelected' \in [Model -> BOOLEAN]
  BY <1>1 DEF ListTypeOK
<1>6. \A m \in models \cap Model : isSelected'[m] <=> m = chosen
  BY <1>1 DEF ListTypeOK
<1>7. \A m \in Model \ models : isSelected'[m] <=> isSelected[m]
  BY <1>1 DEF ListTypeOK
<1>3. ASSUME NEW m \in Model
      PROVE  /\ tagSelecte'[m] \in 0..2
             /\ m \notin Multi \/ m \notin models => tagSelecte'[m] = tagSelecte[m]
             /\ m \in Multi \cap models /\ m # chosen => tagSelecte'[m] = 0
             /\ m \in Multi \cap models /\ m = chosen => tagSelecte'[m] # 0
  <2>1. CASE m \notin Multi \/ m \notin models
    BY <1>1, <2>1 DEF TagsAfter, ListTypeOK
  <2>2. CASE m \in Multi \cap models /\ m # chosen
    BY <1>1, <2>2 DEF TagsAfter
  <2>3. CASE m \in Multi \cap models /\ m = chosen
    BY <1>1, <2>3 DEF TagsAfter
  <2> QED BY <2>1, <2>2, <2>3
<1>4. tagSelecte' \in [Model -> 0..2]
  <2>1. DOMAIN tagSelecte' = Model /\ tagSelecte' = [m \in Model |-> tagSelecte'[m]]
    BY <1>1 DEF TagsAfter
  <2> QED BY <1>3, <2>1
<1>5. Tagged'
  <2>1. SUFFICES ASSUME NEW m \in Multi PROVE isSelected'[m] <=> tagSelecte'[m] # 0
    BY DEF Tagged
  <2>2. m \in Model
    OBVIOUS
  <2>3. CASE m \notin models
    <3>1. isSelected'[m] <=> isSelected[m]
      BY <1>7, <2>2, <2>3
    <3>2. tagSelecte'[m] = tagSelecte[m]
      BY <1>3, <2>2, <2>3
    <3>3. isSelected[m] <=> tagSelecte[m] # 0
      BY DEF Tagged
    <3> QED BY <3>1, <3>2, <3>3, Zenon
  <2>4. CASE m \in models
    <3>1. isSelected'[m] <=> m = chosen
      BY <1>6, <2>2, <2>4
    <3>2. tagSelecte'[m] # 0 <=> m = chosen
      BY <1>3, <2>2, <2>4
    <3> QED BY <3>1, <3>2, Zenon
  <2> QED BY <2>3, <2>4
<1> QED BY <1>2, <1>4, <1>5, <1>6

LEMMA AppSelectsInv ==
  ASSUME ListInv, NEW m \in Model, NEW chosen \in Model \cup {NoModel},
         appSelects(m, chosen)
  PROVE  ListInv'
<1> USE DEF ListInv
<1>1. /\ listUp = "new" /\ SelectModels({m}, chosen)
      /\ UNCHANGED <<isAutoPop, selectList, itemBtn, listUp, picked, reopened,
                     listCrashed>>
  BY DEF appSelects
<1>2. /\ isSelected' \in [Model -> BOOLEAN] /\ tagSelecte' \in [Model -> 0..2]
      /\ Tagged'
  BY <1>1, SelectsTagged DEF OneChoice, Tagged
<1>3. itemBtn' = <<>>
  BY <1>1 DEF Fresh
<1>4. ListTypeOK'
  BY <1>1, <1>2 DEF ListTypeOK
<1>5. Fresh' /\ CrashesOnlyReopened'
  BY <1>1 DEF Fresh, CrashesOnlyReopened
<1> QED BY <1>2, <1>3, <1>4, <1>5 DEF OneChoice, Tagged

LEMMA OpenInv ==
  ASSUME ListInv, NEW list \in Lists, openSelectFrame(list) PROVE ListInv'
<1> USE ListAssumption DEF ListInv
<1>1. /\ ~listCrashed
      /\ selectList' = list
      /\ itemBtn' = ButtonsAfter(list)
      /\ listUp' = "up"
      /\ reopened' = (reopened \/ (itemBtn # <<>> /\ list # selectList))
      /\ UNCHANGED <<isSelected, tagSelecte, isAutoPop, picked, listCrashed>>
  BY DEF openSelectFrame
<1>2. list \in Seq(Model) /\ DOMAIN list = 1..Len(list)
  OBVIOUS
<1>3. itemBtn' \in Seq(BOOLEAN)
  <2>1. \A i \in DOMAIN list : isSelected[list[i]] \in BOOLEAN
    BY <1>2 DEF ListTypeOK
  <2>2. ButtonsFor(list) \in Seq(BOOLEAN)
    BY <1>2, <2>1 DEF ButtonsFor
  <2> QED BY <1>1, <2>2 DEF ButtonsAfter, ListTypeOK
<1>4. ListTypeOK'
  <2>1. reopened' \in BOOLEAN
    BY <1>1
  <2> QED BY <1>1, <1>2, <1>3, <2>1 DEF ListTypeOK
<1>5. Fresh'
  <2>1. itemBtn # <<>> => itemBtn' = itemBtn
    BY <1>1 DEF ButtonsAfter
  <2> QED BY <1>1, <2>1 DEF Fresh
<1>6. Tagged'
  BY <1>1 DEF OneChoice, Tagged
<1>7. CASE itemBtn = <<>>
  <2>1. itemBtn' = [i \in DOMAIN list |-> isSelected[list[i]]] /\ picked = NoModel
    BY <1>1, <1>7 DEF ButtonsAfter, ButtonsFor, Fresh
  <2>2. /\ DOMAIN itemBtn' = DOMAIN selectList'
        /\ \A i \in DOMAIN itemBtn' : itemBtn'[i] = isSelected'[selectList'[i]]
    BY <1>1, <2>1
  <2>3. OneChoice'
    BY <1>1, <1>6, <2>1, <2>2 DEF OneChoice, Tagged
  <2> QED BY <1>1, <1>4, <1>5, <2>3 DEF CrashesOnlyReopened
<1>8. CASE itemBtn # <<>>
  <2>1. itemBtn' = itemBtn
    BY <1>1, <1>8 DEF ButtonsAfter
  <2>2. ~reopened' => ~reopened /\ selectList' = selectList
    BY <1>1, <1>8
  <2>3. OneChoice'
    BY <1>1, <1>6, <1>8, <2>1, <2>2 DEF OneChoice, Tagged
  <2> QED BY <1>1, <1>4, <1>5, <2>3 DEF CrashesOnlyReopened
<1> QED BY <1>7, <1>8
(* A row that is taken is the only one marked, and the only one selected.   *)
LEMMA TakenInv ==
  ASSUME ListInv, NEW i \in DOMAIN itemBtn, i \in DOMAIN selectList, listUp = "up",
         Taken(i), UNCHANGED <<isAutoPop, selectList, reopened>>
  PROVE  ListInv'
<1> DEFINE models == {selectList[j] : j \in DOMAIN selectList}
<1> USE DEF ListInv
<1>1. /\ itemBtn' = MarksAfter(i)
      /\ SelectModels(models, selectList[i])
      /\ picked' = selectList[i]
      /\ listUp' = (IF isAutoPop THEN "gone" ELSE listUp)
      /\ listCrashed' = listCrashed
  BY DEF Taken, HidesList
<1>2. models \subseteq Model /\ selectList[i] \in models
  BY DEF ListTypeOK
<1> HIDE DEF models
<1>3. isSelected' \in [Model -> BOOLEAN] /\ tagSelecte' \in [Model -> 0..2] /\ Tagged'
  BY <1>1, SelectsTagged DEF OneChoice, Tagged
<1>4. \A m \in models \cap Model : isSelected'[m] <=> m = selectList[i]
  BY <1>1, SelectsTagged DEF OneChoice, Tagged
<1>5. /\ DOMAIN itemBtn' = DOMAIN itemBtn
      /\ \A j \in DOMAIN itemBtn :
           itemBtn'[j] = IF j \in DOMAIN selectList THEN j = i ELSE itemBtn[j]
  BY <1>1 DEF MarksAfter
<1>6. itemBtn' \in Seq(BOOLEAN)
  <2>1. itemBtn \in Seq(BOOLEAN) /\ DOMAIN itemBtn = 1..Len(itemBtn)
    BY DEF ListTypeOK
  <2>2. \A j \in DOMAIN itemBtn :
          (IF j \in DOMAIN selectList THEN j = i ELSE itemBtn[j]) \in BOOLEAN
    <3>1. \A j \in DOMAIN itemBtn : itemBtn[j] \in BOOLEAN
      BY <2>1
    <3>2. \A j \in DOMAIN itemBtn : (j = i) \in BOOLEAN
      OBVIOUS
    <3> QED BY <3>1, <3>2, Zenon
  <2> QED BY <1>1, <2>1, <2>2 DEF MarksAfter
<1>7. ListTypeOK'
  <2>1. picked' \in Model \cup {NoModel} /\ listUp' \in {"new", "up", "gone"}
    BY <1>1, <1>2
  <2> QED BY <1>1, <1>3, <1>6, <2>1 DEF ListTypeOK
<1>8. itemBtn' # <<>> /\ listUp' # "new"
  <2>1. DOMAIN itemBtn' # {}
    BY <1>5
  <2>2. DOMAIN <<>> = {}
    OBVIOUS
  <2> QED BY <1>1, <2>1, <2>2
<1>9. Fresh'
  BY <1>8 DEF Fresh
<1>10. ASSUME ~reopened
       PROVE  /\ DOMAIN itemBtn' = DOMAIN selectList
              /\ \A j \in DOMAIN itemBtn' :
                   /\ itemBtn'[j] = isSelected'[selectList[j]]
                   /\ itemBtn'[j] <=> selectList[j] = picked'
  <2>1. itemBtn # <<>>
    OBVIOUS
  <2>2. DOMAIN itemBtn = DOMAIN selectList
    BY <1>10, <2>1 DEF OneChoice
  <2>3. ASSUME NEW j \in DOMAIN selectList
        PROVE  itemBtn'[j] = isSelected'[selectList[j]]
               /\ (itemBtn'[j] <=> selectList[j] = picked')
    <3>1. itemBtn'[j] = (j = i)
      BY <1>5, <2>2
    <3>2. (selectList[j] = selectList[i]) <=> (j = i)
      BY DEF Fresh
    <3>3. selectList[j] \in models \cap Model
      BY <1>2 DEF models
    <3>4. isSelected'[selectList[j]] <=> selectList[j] = selectList[i]
      BY <1>4, <3>3
    <3>5. isSelected'[selectList[j]] \in BOOLEAN
      BY <1>3, <3>3
    <3> QED BY <1>1, <3>1, <3>2, <3>4, <3>5
  <2> QED BY <1>5, <2>2, <2>3
<1>11. OneChoice'
  BY <1>3, <1>10 DEF OneChoice, Tagged
<1> QED BY <1>1, <1>7, <1>9, <1>11 DEF CrashesOnlyReopened

LEMMA TouchInv ==
  ASSUME ListInv, NEW i \in DOMAIN itemBtn, selectToDo(i) PROVE ListInv'
<1> USE DEF ListInv
<1>1. listUp = "up" /\ UNCHANGED <<isAutoPop, selectList, reopened>>
  BY DEF selectToDo
<1>2. CASE i \notin DOMAIN selectList /\ OutOfList
  <2>1. /\ listCrashed' = TRUE
        /\ UNCHANGED <<isSelected, tagSelecte, itemBtn, listUp, picked>>
    BY <1>2 DEF OutOfList
  <2>2. reopened
    BY <1>2 DEF OneChoice
  <2> QED BY <1>1, <2>1, <2>2
          DEF ListTypeOK, Fresh, OneChoice, CrashesOnlyReopened
<1>3. CASE i \in DOMAIN selectList /\ Stays(selectList[i]) /\ Filtered(i)
  <2>1. /\ listUp' = IF isAutoPop THEN "gone" ELSE listUp
        /\ UNCHANGED <<isSelected, tagSelecte, itemBtn, picked, listCrashed>>
    BY <1>3 DEF Filtered, HidesList
  <2> QED BY <1>1, <2>1 DEF ListTypeOK, Fresh, OneChoice, CrashesOnlyReopened
<1>4. CASE i \in DOMAIN selectList /\ ~Stays(selectList[i]) /\ Taken(i)
  BY <1>1, <1>4, TakenInv
<1> QED BY <1>2, <1>3, <1>4 DEF selectToDo

LEMMA CloseInv == ASSUME ListInv, closeDo PROVE ListInv'
<1> USE DEF ListInv
<1>1. /\ listUp' = "gone"
      /\ UNCHANGED <<isSelected, tagSelecte, isAutoPop, selectList, itemBtn, picked,
                     reopened, listCrashed>>
  BY DEF closeDo
<1> QED BY <1>1 DEF ListTypeOK, Fresh, OneChoice, CrashesOnlyReopened

LEMMA ListInvNext == ListInv /\ [ListNext]_listVars => ListInv'
<1> SUFFICES ASSUME ListInv, [ListNext]_listVars PROVE ListInv'
  OBVIOUS
<1>1. ASSUME NEW m \in Model, NEW chosen \in Model \cup {NoModel}, appSelects(m, chosen)
      PROVE  ListInv'
  BY <1>1, AppSelectsInv
<1>2. ASSUME NEW l \in Lists, openSelectFrame(l) PROVE ListInv'
  BY <1>2, OpenInv
<1>3. ASSUME NEW i \in DOMAIN itemBtn, selectToDo(i) PROVE ListInv'
  BY <1>3, TouchInv
<1>4. CASE closeDo
  BY <1>4, CloseInv
<1>5. CASE UNCHANGED listVars
  BY <1>5 DEF listVars, ListInv, ListTypeOK, Fresh, OneChoice, CrashesOnlyReopened
<1> QED BY <1>1, <1>2, <1>3, <1>4, <1>5 DEF ListNext

LEMMA ListAlways == ListSpec => []ListInv
BY ListInvInit, ListInvNext, PTL DEF ListSpec

(* The state of the list and of its models has its type.                    *)
THEOREM ListTypeTheorem == ListSpec => []ListTypeOK
BY ListAlways, PTL DEF ListInv

(* The row marked, the model selected and the model the delegate was told   *)
(* are one, for any models and any lists of them (26-50, 307-343).          *)
THEOREM OneChoiceTheorem == ListSpec => []OneChoice
BY ListAlways, PTL DEF ListInv

(* A button has no row only after the list was opened again with another.   *)
THEOREM ListCrashTheorem == ListSpec => []CrashesOnlyReopened
BY ListAlways, PTL DEF ListInv

----------------------------------------------------------------------------
(* The pop view.  It confirms what it shows; its list is open over the      *)
(* window only, with a row for each department and the chosen one marked.   *)
DepartInv ==
  /\ department \in [id : Nat, name : STRING]
  /\ selectIndex \in Position
  /\ buttonTitle = department.name
  /\ ~stray => department = Departments[selectIndex]
  /\ confirmedDepart # NoDepartment => confirmedDepart = department /\ ~onWindow
  /\ isAutoPop
  /\ listUp = "up" =>
       /\ onWindow
       /\ selectList = [i \in Position |-> i]
       /\ DOMAIN itemBtn = Position
       /\ \A i \in Position : itemBtn[i] => i = selectIndex

LEMMA PositionTyped ==
  ASSUME NEW id PROVE PositionOf(id) \in Position
<1>1. 1 \in Position
  BY DepartmentAssumption DEF Position
<1> QED BY <1>1 DEF PositionOf

LEMMA DepartmentTyped ==
  ASSUME NEW k \in Position PROVE Departments[k] \in [id : Nat, name : STRING]
<1> DEFINE R == [id : Nat, name : STRING]
<1>1. Departments \in Seq(R)
  BY DepartmentAssumption
<1> HIDE DEF R
<1>2. Departments[k] \in R
  BY <1>1 DEF Position
<1> QED BY <1>2 DEF R

(* There is a last department of every name, as the loop over them finds.   *)
LEMMA NamedTyped ==
  ASSUME NEW row \in Position
  PROVE  /\ PositionNamed(row) \in Position
         /\ Departments[PositionNamed(row)].name = Departments[row].name
<1> DEFINE N == Len(Departments)
           Named == {i \in Position : Departments[i].name = Departments[row].name}
           T == {N - i : i \in Named}
<1>1. N \in Nat /\ Position = 1..N
  BY DepartmentAssumption DEF Position
<1>2. T \subseteq Nat /\ T # {}
  BY <1>1
<1>3. PICK x \in T : \A y \in T : ~(<<y, x>> \in OpToRel(<, Nat))
  BY <1>2, WFMin, NatLessThanWellFounded
<1>4. \A y \in T : ~(y < x)
  BY <1>2, <1>3 DEF OpToRel
<1>5. PICK i \in Named : x = N - i
  OBVIOUS
<1>6. \A j \in Named : j <= i
  <2>1. SUFFICES ASSUME NEW j \in Named PROVE j <= i
    OBVIOUS
  <2>2. N - j \in T
    OBVIOUS
  <2>3. ~(N - j < N - i)
    BY <1>4, <1>5, <2>2
  <2>4. i \in Int /\ j \in Int /\ N \in Int
    BY <1>1
  <2> HIDE DEF N
  <2> QED BY <2>3, <2>4
<1>7. \E k \in Position :
        /\ Departments[k].name = Departments[row].name
        /\ \A j \in Position : Departments[j].name = Departments[row].name => j <= k
  BY <1>6
<1> QED BY <1>7 DEF PositionNamed

LEMMA DepartInvInit == DepartInit => DepartInv
<1> SUFFICES ASSUME DepartInit PROVE DepartInv
  OBVIOUS
<1>1. /\ department \in {PresentDepartment(g) : g \in GivenDepartments}
      /\ selectIndex = PositionOf(department.id)
      /\ buttonTitle = department.name
      /\ confirmedDepart = NoDepartment
      /\ stray = (department # Departments[selectIndex])
      /\ isAutoPop /\ listUp = "new"
  BY DEF DepartInit, createData, ListInit
<1>2. department \in [id : Nat, name : STRING]
  <2>1. \A k \in Position : Departments[k] \in [id : Nat, name : STRING]
    BY DepartmentTyped
  <2>2. PICK g \in GivenDepartments : department = PresentDepartment(g)
    BY <1>1
  <2> QED BY <2>1, <2>2, PositionTyped, DepartmentAssumption DEF PresentDepartment
<1>3. selectIndex \in Position
  BY <1>1, PositionTyped
<1>4. ~stray => department = Departments[selectIndex]
  BY <1>1
<1> QED BY <1>1, <1>2, <1>3, <1>4 DEF DepartInv

LEMMA DepartInvNext ==
  DepartInv /\ [DepartNext]_<<listVars, popVars>> => DepartInv'
<1> SUFFICES ASSUME DepartInv, [DepartNext]_<<listVars, popVars>> PROVE DepartInv'
  OBVIOUS
<1> USE DEF DepartInv, popVars, listVars
<1>1. CASE showPopView
  BY <1>1 DEF showPopView
<1>2. CASE buttonAction
  <2>1. /\ onWindow
        /\ selectList' = [i \in Position |-> i]
        /\ itemBtn' = [i \in Position |-> i = selectIndex]
        /\ listUp' = "up"
        /\ UNCHANGED <<isAutoPop, popVars>>
    BY <1>2 DEF buttonAction
  <2>2. DOMAIN itemBtn' = Position /\ \A i \in Position : itemBtn'[i] => i = selectIndex
    BY <2>1
  <2> QED BY <2>1, <2>2
<1>3. ASSUME NEW i \in DOMAIN itemBtn, rowTouched(i) PROVE DepartInv'
  <2>1. selectToDo(i) /\ UNCHANGED <<onWindow, confirmedDepart>>
    BY <1>3 DEF rowTouched
  <2>2. listUp = "up" /\ isAutoPop' = isAutoPop
    BY <2>1 DEF selectToDo
  <2>3. onWindow /\ i \in Position /\ i \in DOMAIN selectList
    BY <2>2
  <2>4. listUp' = "gone"
    BY <2>1, <2>3 DEF selectToDo, Filtered, Taken, HidesList
  <2>5. confirmedDepart = NoDepartment
    BY <2>3
  <2>6. CASE Stays(i)
    BY <1>3, <2>1, <2>2, <2>4, <2>5, <2>6 DEF rowTouched
  <2>7. CASE ~Stays(i)
    <3>1. /\ buttonTitle' = Departments[i].name
          /\ selectIndex' = PositionNamed(i)
          /\ department' = Departments[PositionNamed(i)]
      BY <1>3, <2>7 DEF rowTouched
    <3>2. /\ PositionNamed(i) \in Position
          /\ Departments[PositionNamed(i)].name = Departments[i].name
      BY <2>3, NamedTyped
    <3>3. Departments[PositionNamed(i)] \in [id : Nat, name : STRING]
      BY <3>2, DepartmentTyped
    <3> QED BY <2>1, <2>2, <2>4, <2>5, <3>1, <3>2, <3>3
  <2> QED BY <2>6, <2>7
<1>4. CASE listLeft
  BY <1>4 DEF listLeft, closeDo
<1>5. CASE clickSureBtn
  BY <1>5 DEF clickSureBtn, ListCovers
<1>6. CASE clickCancleBtn
  BY <1>6 DEF clickCancleBtn, ListCovers
<1>7. CASE UNCHANGED <<listVars, popVars>>
  BY <1>7
<1> QED BY <1>1, <1>2, <1>3, <1>4, <1>5, <1>6, <1>7 DEF DepartNext

(* The department confirmed is the one whose name the button shows, and the *)
(* row marked is one of that name, for any departments, two of one name and *)
(* one that is not in the list included (KPDepartSelectPopView.m:56-201).   *)
THEOREM TitleTheorem == DepartSpec => []TitleIsChosen
<1>1. DepartInv => TitleIsChosen
  BY DEF DepartInv, TitleIsChosen, ListCovers
<1> QED BY <1>1, DepartInvInit, DepartInvNext, PTL DEF DepartSpec

=============================================================================

--------------------------- MODULE DownSelectView ---------------------------
(***************************************************************************)
(* A list of rows that drops down over a view.  The rows are models of the *)
(* app, which say whether they are selected and which way they sort; the   *)
(* view makes a button for each when it opens for the first time.          *)
(***************************************************************************)
EXTENDS Integers, Sequences

CONSTANTS
  Model,       \* the SelectToModels of the app
  Multi,       \* those that are ItemSelectTypeMultiselect and sort up or down
  Lists,       \* the lists of models that the app opens the view with
  NoModel

ASSUME ListAssumption ==
  /\ Multi \subseteq Model
  /\ \A l \in Lists : l \in Seq(Model) /\ l # <<>>
  /\ \A l \in Lists : \A i, j \in DOMAIN l : l[i] = l[j] => i = j
  /\ NoModel \notin Model

VARIABLES
  isSelected, tagSelecte,   \* of each model
  isAutoPop,
  selectList,
  itemBtn,                  \* is the button selected, for each button made
  listUp,                   \* "new", "up", "gone"
  picked,                   \* history: the model the delegate was told last
  reopened,                 \* history: opened with another list than the buttons'
  listCrashed

listVars == <<isSelected, tagSelecte, isAutoPop, selectList, itemBtn, listUp,
              picked, reopened, listCrashed>>

ListInit ==
  /\ isSelected = [m \in Model |-> FALSE]
  /\ tagSelecte = [m \in Model |-> 0]
  /\ isAutoPop \in BOOLEAN
  /\ selectList = <<>>
  /\ itemBtn = <<>>
  /\ listUp = "new"
  /\ picked = NoModel
  /\ reopened = FALSE
  /\ listCrashed = FALSE

----------------------------------------------------------------------------
(* selectModelToDo: of the models in a set, with YES for one of them.       *)

(* Mutant: counts how often a model was selected.                           *)
TagsCounted(models, chosen) ==
  [m \in Model |-> IF m \in Multi \cap models
                   THEN IF m = chosen THEN tagSelecte[m] + 1 ELSE 0
                   ELSE tagSelecte[m]]

TagsAfter(models, chosen) ==
  [m \in Model |->
     CASE m \notin Multi \/ m \notin models -> tagSelecte[m]
       [] m \in Multi \cap models /\ m # chosen -> 0
       [] m \in Multi \cap models /\ m = chosen ->
            IF isSelected[m] /\ tagSelecte[m] = 1 THEN 2 ELSE 1]

SelectModels(models, chosen) ==
  /\ isSelected' = [m \in Model |-> IF m \in models THEN m = chosen ELSE isSelected[m]]
  /\ tagSelecte' = TagsAfter(models, chosen)

(* The app selects or deselects a model before the list opens.              *)
appSelects(m, chosen) ==
  /\ listUp = "new"
  /\ SelectModels({m}, chosen)
  /\ UNCHANGED <<isAutoPop, selectList, itemBtn, listUp, picked, reopened, listCrashed>>

(* Mutant: a button too many.                                               *)
ButtonsOneMore(list) ==
  [i \in 1..(Len(list) + 1) |-> i \in DOMAIN list /\ isSelected[list[i]]]

ButtonsFor(list) == [i \in DOMAIN list |-> isSelected[list[i]]]

(* Buttons are made once, the list is taken every time.                     *)
ButtonsAfter(list) == IF itemBtn = <<>> THEN ButtonsFor(list) ELSE itemBtn

openSelectFrame(list) ==
  /\ listUp # "gone" /\ ~listCrashed
  /\ selectList' = list
  /\ itemBtn' = ButtonsAfter(list)
  /\ listUp' = "up"
  /\ reopened' = (reopened \/ (itemBtn # <<>> /\ list # selectList))
  /\ UNCHANGED <<isSelected, tagSelecte, isAutoPop, picked, listCrashed>>

----------------------------------------------------------------------------
(* selectToDo:, the button i is touched.                                    *)
Stays(m) == isSelected[m] /\ m \notin Multi

(* Mutant: the buttons of the other rows stay as they are.                  *)
MarksAdded(i) == [itemBtn EXCEPT ![i] = TRUE]

MarksAfter(i) ==
  [j \in DOMAIN itemBtn |-> IF j \in DOMAIN selectList THEN j = i ELSE itemBtn[j]]

HidesList == listUp' = IF isAutoPop THEN "gone" ELSE listUp

(* A row that was selected before is filtered, and the delegate not told.   *)
Filtered(i) ==
  /\ HidesList
  /\ UNCHANGED <<isSelected, tagSelecte, itemBtn, picked, listCrashed>>

Taken(i) ==
  /\ itemBtn' = MarksAfter(i)
  /\ SelectModels({selectList[j] : j \in DOMAIN selectList}, selectList[i])
  /\ picked' = selectList[i]
  /\ HidesList
  /\ UNCHANGED listCrashed

(* The button may have no row in a shorter list.                            *)
OutOfList ==
  /\ listCrashed' = TRUE
  /\ UNCHANGED <<isSelected, tagSelecte, itemBtn, listUp, picked>>

selectToDo(i) ==
  /\ listUp = "up" /\ ~listCrashed
  /\ \/ i \notin DOMAIN selectList /\ OutOfList
     \/ i \in DOMAIN selectList /\ Stays(selectList[i]) /\ Filtered(i)
     \/ i \in DOMAIN selectList /\ ~Stays(selectList[i]) /\ Taken(i)
  /\ UNCHANGED <<isAutoPop, selectList, reopened>>

(* A tap beside the rows, or the app calls hideSelect.                      *)
closeDo ==
  /\ listUp = "up" /\ ~listCrashed
  /\ listUp' = "gone"
  /\ UNCHANGED <<isSelected, tagSelecte, isAutoPop, selectList, itemBtn, picked,
                 reopened, listCrashed>>

ListNext ==
  \/ \E m \in Model, chosen \in Model \cup {NoModel} :
       (chosen = m \/ chosen = NoModel) /\ appSelects(m, chosen)
  \/ \E l \in Lists : openSelectFrame(l)
  \/ \E i \in DOMAIN itemBtn : selectToDo(i)
  \/ closeDo

ListSpec == ListInit /\ [][ListNext]_listVars

----------------------------------------------------------------------------
(* What must hold.                                                          *)

ListTypeOK ==
  /\ isSelected \in [Model -> BOOLEAN]
  /\ tagSelecte \in [Model -> 0..2]
  /\ isAutoPop \in BOOLEAN
  /\ selectList \in Seq(Model)
  /\ itemBtn \in Seq(BOOLEAN)
  /\ listUp \in {"new", "up", "gone"}
  /\ picked \in Model \cup {NoModel}
  /\ reopened \in BOOLEAN
  /\ listCrashed \in BOOLEAN

(* What is shown, what is selected and what the delegate was told are one   *)
(* row, although three loops and an early return keep them (26-50, 307-343): a     *)
(* button is selected if its model is; once a row was taken it is the only  *)
(* one; and a model sorts up or down if and only if it is selected.         *)
OneChoice ==
  /\ \A m \in Multi : isSelected[m] <=> tagSelecte[m] # 0
  /\ ~reopened /\ itemBtn # <<>> =>
       /\ DOMAIN itemBtn = DOMAIN selectList
       /\ \A i \in DOMAIN itemBtn :
            /\ itemBtn[i] = isSelected[selectList[i]]
            /\ picked # NoModel => (itemBtn[i] <=> selectList[i] = picked)

(* A button without a row is only touched after the view was opened again   *)
(* with another list, which replaces the models but not the buttons         *)
(* (236-240, 310).                                                          *)
CrashesOnlyReopened == listCrashed => reopened
=============================================================================

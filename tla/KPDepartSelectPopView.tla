----------------------- MODULE KPDepartSelectPopView -----------------------
(***************************************************************************)
(* A pop view to choose a department: its button drops down a list of the  *)
(* departments' names, a new DownSelectView each time.  The rows are the   *)
(* models, named by their position.                                        *)
(***************************************************************************)
EXTENDS DownSelectView

CONSTANTS
  Departments,        \* the departments in order, [id, name]
  GivenDepartments,   \* those that the app may pass as the present one
  NoDepartment

DefaultId == 0
Position == DOMAIN Departments

ASSUME DepartmentAssumption ==
  /\ Departments \in Seq([id : Nat, name : STRING]) /\ Departments # <<>>
  /\ \A i, j \in Position : Departments[i].id = Departments[j].id => i = j
  /\ GivenDepartments \subseteq [id : Nat, name : STRING] \cup {NoDepartment}
  /\ NoDepartment \notin [id : Nat, name : STRING]
  /\ Position \subseteq Model \ Multi

VARIABLES
  department,      \* _department
  selectIndex,     \* _selectIndex, from 1
  buttonTitle,
  onWindow,
  confirmedDepart, \* history: what the block was given
  stray            \* history: the present department is not in the list

popVars == <<department, selectIndex, buttonTitle, onWindow, confirmedDepart, stray>>

(* Row 1 if there is no other.                                              *)
PositionOf(id) ==
  IF \E i \in Position : Departments[i].id = id
  THEN CHOOSE i \in Position : Departments[i].id = id
  ELSE 1

PresentDepartment(given) ==
  IF given = NoDepartment THEN Departments[PositionOf(DefaultId)] ELSE given

createData ==
  /\ department \in {PresentDepartment(g) : g \in GivenDepartments}
  /\ selectIndex = PositionOf(department.id)
  /\ buttonTitle = department.name
  /\ onWindow = FALSE
  /\ confirmedDepart = NoDepartment
  /\ stray = (department # Departments[selectIndex])

DepartInit == ListInit /\ isAutoPop /\ createData

----------------------------------------------------------------------------
ListCovers == onWindow /\ listUp = "up"

showPopView ==
  /\ ~onWindow
  /\ onWindow' = TRUE
  /\ confirmedDepart' = NoDepartment
  /\ UNCHANGED <<listVars, department, selectIndex, buttonTitle, stray>>

(* buttonAction:, a new list with one model selected.                       *)
buttonAction ==
  /\ onWindow /\ ~ListCovers
  /\ isSelected' = [m \in Model |-> m = selectIndex]
  /\ tagSelecte' = [m \in Model |-> 0]
  /\ selectList' = [i \in Position |-> i]
  /\ itemBtn' = [i \in Position |-> i = selectIndex]
  /\ listUp' = "up"
  /\ picked' = NoModel
  /\ UNCHANGED <<isAutoPop, reopened, listCrashed, popVars>>

(* Mutant: takes the department of the row touched before.                  *)
PositionNamedBefore(row) == selectIndex

(* downSelectView:Data:FromModel: finds the department by its name, the last *)
(* one of that name.                                                        *)
PositionNamed(row) ==
  CHOOSE i \in Position :
    /\ Departments[i].name = Departments[row].name
    /\ \A j \in Position : Departments[j].name = Departments[row].name => j <= i

rowTouched(i) ==
  /\ selectToDo(i)
  /\ IF Stays(i) THEN UNCHANGED <<department, selectIndex, buttonTitle, stray>>
     ELSE /\ buttonTitle' = Departments[i].name
          /\ selectIndex' = PositionNamed(i)
          /\ department' = Departments[PositionNamed(i)]
          /\ stray' = FALSE
  /\ UNCHANGED <<onWindow, confirmedDepart>>

listLeft == closeDo /\ UNCHANGED popVars

clickSureBtn ==
  /\ onWindow /\ ~ListCovers
  /\ confirmedDepart' = department
  /\ onWindow' = FALSE
  /\ UNCHANGED <<listVars, department, selectIndex, buttonTitle, stray>>

clickCancleBtn ==
  /\ onWindow /\ ~ListCovers
  /\ onWindow' = FALSE
  /\ UNCHANGED <<listVars, department, selectIndex, buttonTitle, confirmedDepart, stray>>

DepartNext ==
  \/ showPopView
  \/ buttonAction
  \/ \E i \in DOMAIN itemBtn : rowTouched(i)
  \/ listLeft
  \/ clickSureBtn
  \/ clickCancleBtn

DepartSpec == DepartInit /\ [][DepartNext]_<<listVars, popVars>>

----------------------------------------------------------------------------
(* The name on the button is that of the department that will be confirmed, *)
(* and the row marked in the list is one of that name, unless the present   *)
(* department is not in the list: then row 1 is marked, and touching it is  *)
(* filtered and chooses nothing (56-82, 121-128, 153, 187-201).             *)
TitleIsChosen ==
  /\ buttonTitle = department.name
  /\ confirmedDepart # NoDepartment => confirmedDepart = department
  /\ ListCovers /\ ~stray =>
       \A i \in DOMAIN itemBtn : itemBtn[i] => Departments[i].name = buttonTitle
=============================================================================

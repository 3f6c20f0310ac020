------------------------ MODULE KeyBoardDigitalView ------------------------
(***************************************************************************)
(* KeyBoardDigitalView, the one keyboard of digits that all text fields    *)
(* share.  When a field begins editing, the app names a foot view and      *)
(* calls setKeyBoardInputView:, which builds a new panel of keys, moves    *)
(* the foot view out of its own superview into the panel and makes the     *)
(* panel the field's inputView.  When the keyboard hides, two timers are   *)
(* started per registration with the notification centre: reductionView    *)
(* half way through the animation takes the foot view home, and            *)
(* keyBoardDismiss at its end lets go of everything.  Nothing cancels them.*)
(*                                                                         *)
(* All of it runs on the main thread; what interleaves are the user, the   *)
(* timers and UIKit, which frees a panel some time after its last use.     *)
(***************************************************************************)
EXTENDS Integers

CONSTANTS
  Field,       \* text fields
  NoField,     \* nil
  Foot,        \* foot views apps lend to the keyboard
  NoFoot,      \* nil
  FootOf,      \* [Field -> Foot], the foot view named for a field
  HomeFoot,    \* the feet that stand in a view; the others have no superview
  MaxPanels    \* bound on the panels built

ASSUME KeyBoardAssumption ==
  /\ NoField \notin Field /\ NoFoot \notin Foot
  /\ FootOf \in [Field -> Foot]
  /\ HomeFoot \subseteq Foot
  /\ MaxPanels \in Nat

VARIABLES
  (* the keyboard's properties; panels are numbered as they are built *)
  toTextView, keyMainView, footView, subFootView, orgFootFrame,
  (* how often it is registered with the notification centre *)
  observers,
  (* timer calls still to come, per hiding; a hiding has the number of the *)
  (* panel that was on screen                                              *)
  reductions, dismissals,
  (* the views: superview and frame of each foot, inputView of each field *)
  parent, frame, inputView,
  (* the first responder, and how many panels have been built *)
  focus, built,
  (* history: did a field begin editing while timers were still to come,  *)
  (* or with another foot view than the keyboard holds?                   *)
  disturbed

keyboardVars == <<toTextView, keyMainView, footView, subFootView,
                  orgFootFrame, observers>>
viewVars == <<parent, frame, inputView>>
timerVars == <<reductions, dismissals>>
vars == <<keyboardVars, timerVars, viewVars, focus, built, disturbed>>

Panel == 1..MaxPanels
NoView == 0
Home == -1
View == Panel \cup {NoView, Home}
Frame == {"home", "panel"}

TypeOK ==
  /\ toTextView \in Field \cup {NoField} /\ focus \in Field \cup {NoField}
  /\ keyMainView \in Panel \cup {NoView} /\ built \in Panel \cup {0}
  /\ footView \in Foot \cup {NoFoot}
  /\ subFootView \in View /\ orgFootFrame \in Frame \cup {"zero"}
  /\ observers \in 0..MaxPanels
  /\ reductions \in [Panel -> 0..MaxPanels]
  /\ dismissals \in [Panel -> 0..MaxPanels]
  /\ parent \in [Foot -> View]
  /\ frame \in [Foot -> Frame \cup {"zero"}]
  /\ inputView \in [Field -> Panel \cup {NoView}]
  /\ disturbed \in BOOLEAN

Init ==
  /\ toTextView = NoField /\ focus = NoField
  /\ keyMainView = NoView /\ built = 0
  /\ footView = NoFoot /\ subFootView = NoView /\ orgFootFrame = "zero"
  /\ observers = 0
  /\ reductions = [p \in Panel |-> 0] /\ dismissals = [p \in Panel |-> 0]
  /\ parent = [f \in Foot |-> IF f \in HomeFoot THEN Home ELSE NoView]
  /\ frame = [f \in Foot |-> "home"]
  /\ inputView = [t \in Field |-> NoView]
  /\ disturbed = FALSE

----------------------------------------------------------------------------
(* Is a timer still to come?                                                *)
Pending == \E p \in Panel : dismissals[p] > 0

(* A field begins editing: footView is set and setKeyBoardInputView: called.*)

(* Mutant: does not ask whether the foot stands in the keyboard already.    *)
ComesFromOutsideAnyway(foot) == parent[foot] # NoView

ComesFromOutside(foot) ==
  parent[foot] # NoView /\ (keyMainView = NoView \/ parent[foot] # keyMainView)

(* buildKeyBoard: a new panel, and the foot view moved into it.             *)
buildKeyBoard(foot) ==
  /\ built < MaxPanels
  /\ built' = built + 1
  /\ keyMainView' = built + 1
  /\ parent' = [parent EXCEPT ![foot] = built + 1]
  /\ frame' = [frame EXCEPT ![foot] = "panel"]

(* Mutant: a field that is held is not replaced.                            *)
TextViewHeld(t) == IF toTextView = NoField THEN t ELSE toTextView

TextViewTaken(t) == t

setKeyBoardInputView(t) ==
  LET foot == FootOf[t] IN
  /\ t # focus
  /\ focus' = t
  /\ toTextView' = TextViewTaken(t)
  /\ footView' = foot
  /\ subFootView' = CASE ComesFromOutside(foot) -> parent[foot]
                      [] parent[foot] = NoView -> NoView
                      [] OTHER -> subFootView
  /\ orgFootFrame' = IF ComesFromOutside(foot) THEN frame[foot]
                     ELSE orgFootFrame
  /\ buildKeyBoard(foot)
  /\ inputView' = [inputView EXCEPT ![toTextView'] = built + 1]
  /\ observers' = observers + 1
  /\ disturbed' = (disturbed \/ Pending \/ footView \notin {NoFoot, foot})
  /\ UNCHANGED timerVars

----------------------------------------------------------------------------
(* The keyboard hides: every registration starts both timers.               *)

(* Mutant: only the dismissal is started.                                   *)
StartReductionsNot == reductions

StartReductions == [reductions EXCEPT ![built] = observers]

keyboardWillHide ==
  /\ focus # NoField
  /\ focus' = NoField
  /\ reductions' = StartReductions
  /\ dismissals' = [dismissals EXCEPT ![built] = observers]
  /\ UNCHANGED <<keyboardVars, viewVars, built, disturbed>>

(* The app or the system ends editing.                                      *)
EndEditing == keyboardWillHide

(* buttonAction: of the key that puts the keyboard away; it asks the field  *)
(* the keyboard knows, not the first responder.                             *)
PickUpKey == toTextView = focus /\ keyboardWillHide

(* Does the foot view have a way back?                                      *)
Returns == subFootView # NoView /\ footView # NoFoot

reductionView(p) ==
  /\ reductions[p] > 0
  /\ reductions' = [reductions EXCEPT ![p] = @ - 1]
  /\ parent' = IF Returns THEN [parent EXCEPT ![footView] = subFootView]
               ELSE parent
  /\ frame' = IF Returns THEN [frame EXCEPT ![footView] = orgFootFrame]
              ELSE frame
  /\ UNCHANGED <<keyboardVars, dismissals, inputView, focus, built, disturbed>>

(* Mutant: one registration is taken back per call.                         *)
OneLess == observers - 1

(* Mutant: the registrations stay.                                          *)
AllKept == observers

RegistrationsLeft == 0

keyBoardDismiss(p) ==
  /\ reductions[p] = 0 /\ dismissals[p] > 0
  /\ dismissals' = [dismissals EXCEPT ![p] = @ - 1]
  /\ inputView' = IF toTextView = NoField THEN inputView
                  ELSE [inputView EXCEPT ![toTextView] = NoView]
  /\ toTextView' = NoField
  /\ keyMainView' = NoView
  /\ footView' = NoFoot
  /\ subFootView' = NoView
  /\ observers' = RegistrationsLeft
  /\ UNCHANGED <<reductions, orgFootFrame, parent, frame, focus, built,
                 disturbed>>

----------------------------------------------------------------------------
(* UIKit, outside src/: a panel that is neither held nor on screen is freed *)
(* in the end.  Its subviews lose their superview, weak references to it    *)
(* become nil.                                                              *)
Held(p) ==
  \/ p = keyMainView
  \/ \E t \in Field : inputView[t] = p
  \/ focus # NoField /\ p = built

PanelFreed(p) ==
  /\ ~Held(p)
  /\ subFootView = p \/ \E f \in Foot : parent[f] = p
  /\ parent' = [f \in Foot |-> IF parent[f] = p THEN NoView ELSE parent[f]]
  /\ subFootView' = IF subFootView = p THEN NoView ELSE subFootView
  /\ UNCHANGED <<toTextView, keyMainView, footView, orgFootFrame, observers,
                 timerVars, frame, inputView, focus, built, disturbed>>

TimerStep ==
  \/ \E p \in Panel : reductionView(p)
  \/ \E p \in Panel : keyBoardDismiss(p)

Next ==
  \/ \E t \in Field : setKeyBoardInputView(t)
  \/ EndEditing
  \/ PickUpKey
  \/ TimerStep
  \/ \E p \in Panel : PanelFreed(p)

Spec == Init /\ [][Next]_vars

(* The run loop of the main thread fires every timer.                       *)
FairSpec == Spec /\ WF_vars(TimerStep)

----------------------------------------------------------------------------
(* What must hold.                                                          *)

(* The field that is being edited is the one the keys type into and the     *)
(* pick-up key resigns, its inputView is the panel the keyboard holds, and  *)
(* hiding will be noticed.                                                  *)
ServesFocus ==
  focus # NoField /\ ~disturbed =>
    /\ toTextView = focus
    /\ keyMainView # NoView /\ inputView[focus] = keyMainView
    /\ observers > 0

(* A foot view that stood in a view of the app is there, where it was, or   *)
(* stands in the keyboard's panel while the keyboard knows the way back.    *)
AtHome(f) == parent[f] = Home /\ frame[f] = "home"

WayBack(f) ==
  /\ footView = f /\ parent[f] = keyMainView
  /\ subFootView = Home /\ orgFootFrame = "home"

FootIsSafe == ~disturbed => \A f \in HomeFoot : AtHome(f) \/ WayBack(f)

(* When nobody edits and no timer is to come, the keyboard has let go of    *)
(* the field, the foot view and the panel and is registered no more, however*)
(* fields and timers followed one another.                                  *)
LetsGo ==
  focus = NoField /\ ~Pending =>
    /\ toTextView = NoField /\ keyMainView = NoView
    /\ footView = NoFoot /\ subFootView = NoView
    /\ observers = 0

(* After editing every borrowed foot view comes home, unless the user goes  *)
(* on before that.                                                          *)
ComesHome ==
  \A f \in HomeFoot :
    focus = NoField ~> AtHome(f) \/ focus # NoField \/ disturbed
=============================================================================

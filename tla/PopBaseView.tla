---------------------------- MODULE PopBaseView ----------------------------
(***************************************************************************)
(* Pop views on the window: PopBaseView and its subclasses.  A pop view    *)
(* observes YYKeyboardManager while it is shown and moves up when its      *)
(* centre view, whose lower edge is at Bottom, would be covered.  Each     *)
(* showing is of a new view, as everywhere in the demo.                    *)
(***************************************************************************)
EXTENDS YYKeyboardManager

CONSTANTS
  Pop,        \* pop views
  Bottom      \* [Pop -> Nat], CGRectGetMaxY(_centerView.frame)

ASSUME PopAssumption == Bottom \in [Pop -> 0..Screen]

VARIABLES
  observers,   \* the manager's weak table: the pop views on the window
  offset,      \* frame.origin.y
  late         \* history: shown since the manager last noticed a change

popVars == <<observers, offset>>
vars == <<yyVars, popVars, late>>

TypeOK ==
  /\ YYTypeOK
  /\ observers \in SUBSET Pop
  /\ offset \in [Pop -> (-Screen)..0]
  /\ late \in SUBSET Pop

Init ==
  /\ YYInit
  /\ observers = {}
  /\ offset = [p \in Pop |-> 0]
  /\ late = {}

----------------------------------------------------------------------------
(* showPopView, at once or, for rich text, in a later block.                *)
showPopView(p) ==
  /\ p \notin observers
  /\ observers' = observers \cup {p}
  /\ offset' = [offset EXCEPT ![p] = 0]
  /\ late' = late \cup {p}
  /\ UNCHANGED yyVars

(* clickSureBtn:, clickCancleBtn: end here.                                 *)
dismissPopView(p) ==
  /\ p \in observers
  /\ observers' = observers \ {p}
  /\ UNCHANGED <<yyVars, offset, late>>

----------------------------------------------------------------------------
(* keyboardChangedWithTransition: of a pop view, told of a frame.           *)

(* Mutant: measures from where it stands now.                               *)
OffsetFromHere(p, frame) ==
  IF Bottom[p] + offset[p] > Top[frame] THEN Top[frame] - Bottom[p] - offset[p]
  ELSE IF Top[frame] = Screen THEN 0 ELSE offset[p]

(* Mutant: a pop view that is far enough up comes down again.               *)
OffsetAlways(p, frame) == Top[frame] - Bottom[p]

OffsetFor(p, frame) ==
  IF Bottom[p] > Top[frame] THEN Top[frame] - Bottom[p]
  ELSE IF Top[frame] = Screen THEN 0 ELSE offset[p]

(* keyboardChange: tells every observer.                                    *)
TellObservers ==
  /\ KeyboardChange
  /\ offset' = [p \in Pop |-> IF p \in observers THEN OffsetFor(p, trans.to)
                              ELSE offset[p]]
  /\ UNCHANGED <<observers, late>>

----------------------------------------------------------------------------
Heard ==
  \/ \E f \in Frame, animated \in BOOLEAN : KeyboardWillChange(f, animated)
  \/ \E f \in Frame : KeyboardViewSet(f)
  \/ KeyboardDidChange
  \/ DragBegins
  \/ KeyboardViewMade
  \/ NotifyAllObservers

KeyboardStep ==
  /\ Heard
  /\ late' = IF Noticed THEN {} ELSE late
  /\ UNCHANGED popVars

Next ==
  \/ KeyboardStep
  \/ TellObservers
  \/ \E p \in Pop : showPopView(p) \/ dismissPopView(p)

Spec == Init /\ [][Next]_vars

(* The run loop performs what is due, and UIKit ends its animations.        *)
Arrives == KeyboardViewSet(target) /\ keyboard # target

FairSpec ==
  /\ Spec
  /\ WF_yyVars(NotifyAllObservers)
  /\ WF_yyVars(KeyboardDidChange)
  /\ WF_yyVars(Arrives)
  /\ WF_vars(TellObservers)

----------------------------------------------------------------------------
(* What must hold.                                                          *)

(* UIKit is at rest and no perform is due.                                  *)
AtRest == owed = <<>> /\ ~dragging /\ ~notifyDue

(* Whatever notifications and observed frames came in whatever order, the   *)
(* manager ends up with the frame the keyboard has.                         *)
FollowsKeyboard == AtRest /\ fromFrame # NoFrame => fromFrame = keyboard

(* At rest, no pop view that has observed a change is covered by the        *)
(* keyboard (PopBaseView.m:196-217), although performs are called off and   *)
(* what is told is whatever the last transition was.                        *)
Uncovered ==
  AtRest /\ tellsDue = 0 =>
    \A p \in observers \ late : Bottom[p] + offset[p] <= Top[keyboard]

(* A pop view that has observed a change goes back to the middle once the   *)
(* keyboard is gone, unless it comes back or the pop view is dismissed.     *)
Gone == target = Hidden /\ ~dragging
BackInTheMiddle ==
  \A p \in Pop :
    Gone /\ p \in observers \ late ~>
      offset[p] = 0 \/ ~Gone \/ p \notin observers \ late

(* YYKeyboardManager.h:27-29, "fromVisible: Keyboard visible before         *)
(* transition", "fromFrame: Keyboard frame before transition": observers    *)
(* are told of a change.                                                    *)
TellsOfChanges ==
  [][TellObservers /\ observers # {} => trans.from # trans.to]_vars
=============================================================================

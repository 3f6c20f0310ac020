------------------------- MODULE YYKeyboardManager -------------------------
(***************************************************************************)
(* YYKeyboardManager makes one sequence of transitions of what it hears of *)
(* the system keyboard: notifications that its frame will change and did   *)
(* change, and key-value observation of the keyboard's view.  What it      *)
(* hears is first turned into a transition, at once or in a later turn of  *)
(* the run loop, and told to the observers later still: at the end of the  *)
(* animation, 0.3 s on, while the keyboard is visible.                     *)
(*                                                                         *)
(* All of it runs on the main thread; what interleaves are UIKit, the user *)
(* and the delayed performs.  Frames are in the coordinates of the screen, *)
(* which all windows fill, so convertRect: changes nothing in them.        *)
(***************************************************************************)
EXTENDS Integers, Sequences

CONSTANTS
  Frame,       \* frames of the keyboard's view, none of them empty
  NoFrame,     \* CGRectZero
  Top,         \* [Frame -> Nat], origin.y
  Screen,      \* SCREEN_HEIGHT
  Hidden,      \* a frame below the screen
  MaxChanges,  \* bound on the changes of the keyboard
  MaxTells     \* bound on waiting performs of keyboardChange:

ASSUME FrameAssumption ==
  /\ NoFrame \notin Frame
  /\ Screen \in Nat /\ Top \in [Frame -> 0..Screen]
  /\ Hidden \in Frame /\ Top[Hidden] = Screen
  /\ MaxChanges \in Nat /\ MaxTells \in Nat

VARIABLES
  (* what the manager remembers *)
  fromFrame, notificationToFrame, observedToFrame, hasObservedChange,
  lastIsNotification, trans,
  (* delayed performs: of _notifyAllObservers, and of keyboardChange: *)
  notifyDue, tellsDue,
  (* UIKit: the frame of the keyboard's view, the frame it is bound for,  *)
  (* the view itself, ends of changes still to be announced, is the user  *)
  (* dragging it, how many changes there have been                        *)
  keyboard, target, keyboardView, owed, dragging, changes

transitionVars == <<fromFrame, trans>>
notificationVars == <<notificationToFrame, observedToFrame,
                      hasObservedChange, lastIsNotification>>
uikitVars == <<keyboard, target, keyboardView, owed, dragging, changes>>
yyVars == <<transitionVars, notificationVars, notifyDue, tellsDue, uikitVars>>

AnyFrame == Frame \cup {NoFrame}
Transition == [from : AnyFrame, to : AnyFrame]

YYTypeOK ==
  /\ fromFrame \in AnyFrame /\ trans \in Transition
  /\ notificationToFrame \in AnyFrame /\ observedToFrame \in AnyFrame
  /\ hasObservedChange \in BOOLEAN /\ lastIsNotification \in BOOLEAN
  /\ notifyDue \in BOOLEAN /\ tellsDue \in 0..MaxTells
  /\ keyboard \in Frame /\ target \in Frame
  /\ keyboardView \in {"none", "new", "watched"}
  /\ owed \in Seq(Frame)
  /\ dragging \in BOOLEAN /\ changes \in 0..MaxChanges

YYInit ==
  /\ fromFrame = NoFrame
  /\ trans = [from |-> NoFrame, to |-> NoFrame]
  /\ notificationToFrame = NoFrame /\ observedToFrame = NoFrame
  /\ hasObservedChange = FALSE /\ lastIsNotification = FALSE
  /\ notifyDue = FALSE /\ tellsDue = 0
  /\ keyboard = Hidden /\ target = Hidden /\ keyboardView = "none"
  /\ owed = <<>> /\ dragging = FALSE /\ changes = 0

----------------------------------------------------------------------------
(* The transition.                                                          *)

(* Mutant: what was observed is always newer.                               *)
TakesNotificationNever(observed) == ~hasObservedChange

(* _notifyAllObservers takes the notification's frame if that came last, or *)
(* if the view was seen to go there.                                        *)
TakesNotification(observed) ==
  \/ lastIsNotification
  \/ hasObservedChange /\ observed = notificationToFrame

NewFrame == IF TakesNotification(observedToFrame) THEN notificationToFrame
            ELSE observedToFrame

(* Mutant: only a keyboard that is visible is told of.                      *)
TellsAfterShowOnly(due, to) == IF Top[to] = Screen THEN due ELSE 1

(* A keyboard that leaves is told of in the next turn of the run loop, any  *)
(* other in 0.3 s; the latter calls off all performs that are due.          *)
TellsAfter(due, to) == IF Top[to] = Screen THEN due + 1 ELSE 1

(* _notifyAllObservers.                                                     *)
Notifies(to) ==
  /\ trans' = [from |-> fromFrame, to |-> to]
  /\ fromFrame' = to
  /\ tellsDue' = IF to = fromFrame THEN tellsDue ELSE TellsAfter(tellsDue, to)
  /\ tellsDue' <= MaxTells
  /\ hasObservedChange' = FALSE

(* Has the keyboard moved, for the manager, with this step?                 *)
Noticed == fromFrame' # fromFrame

NotifyAllObservers ==
  /\ notifyDue
  /\ notifyDue' = FALSE
  /\ Notifies(NewFrame)
  /\ UNCHANGED <<notificationToFrame, observedToFrame, lastIsNotification,
                 uikitVars>>

(* keyboardChange: what the observers are told is the transition of now.    *)
KeyboardChange ==
  /\ tellsDue > 0
  /\ tellsDue' = tellsDue - 1
  /\ UNCHANGED <<transitionVars, notificationVars, notifyDue, uikitVars>>

----------------------------------------------------------------------------
(* What the manager hears.                                                  *)

(* _initFrameObserver: a keyboard view that is there is observed from now.  *)
InitFrameObserver ==
  keyboardView' = IF keyboardView = "none" THEN "none" ELSE "watched"

(* _keyboardFrameWillChangeNotification:, animated or not.                  *)
WillChangeNotification(after, animated) ==
  /\ InitFrameObserver
  /\ notificationToFrame' = after
  /\ lastIsNotification' = TRUE
  /\ notifyDue' = ~animated
  /\ IF animated THEN Notifies(after)
     ELSE UNCHANGED <<transitionVars, tellsDue, hasObservedChange>>
  /\ UNCHANGED observedToFrame

(* Mutant: what did change is only remembered.                              *)
DidChangeNotificationSilent(after) ==
  /\ InitFrameObserver
  /\ notificationToFrame' = after
  /\ lastIsNotification' = TRUE
  /\ UNCHANGED <<transitionVars, notifyDue, tellsDue, observedToFrame,
                 hasObservedChange>>

(* _keyboardFrameDidChangeNotification:                                     *)
DidChangeNotification(after) ==
  /\ InitFrameObserver
  /\ notificationToFrame' = after
  /\ lastIsNotification' = TRUE
  /\ notifyDue' = TRUE
  /\ UNCHANGED <<transitionVars, tellsDue, observedToFrame, hasObservedChange>>

(* _keyboardFrameChanged:, for a view that is observed.                     *)
FrameChanged(frame) ==
  IF keyboardView = "watched"
  THEN /\ observedToFrame' = frame
       /\ hasObservedChange' = TRUE
       /\ lastIsNotification' = FALSE
       /\ notifyDue' = TRUE
       /\ UNCHANGED notificationToFrame
  ELSE UNCHANGED <<notificationVars, notifyDue>>

----------------------------------------------------------------------------
(* UIKit, outside src/.                                                     *)

(* The keyboard comes, goes or takes another height, or the user lets go of *)
(* it.  An animation that is under way is replaced by the new one; the end  *)
(* of each is announced in its turn.                                        *)
KeyboardWillChange(after, animated) ==
  /\ changes < MaxChanges
  /\ changes' = changes + 1
  /\ WillChangeNotification(after, animated)
  /\ target' = after
  /\ owed' = Append(owed, after)
  /\ dragging' = FALSE
  /\ UNCHANGED keyboard

(* The view is given a frame: that of the change under way, or any while    *)
(* the user drags it.  A property of the view may also be set to what it is.*)
KeyboardViewSet(frame) ==
  /\ frame \in {keyboard, target} \/ dragging
  /\ keyboard' = frame
  /\ FrameChanged(frame)
  /\ UNCHANGED <<transitionVars, tellsDue, target, keyboardView, owed,
                 dragging, changes>>

KeyboardDidChange ==
  /\ owed # <<>>
  /\ Len(owed) = 1 => keyboard = target
  /\ owed' = Tail(owed)
  /\ DidChangeNotification(Head(owed))
  /\ UNCHANGED <<keyboard, target, dragging, changes>>

(* A user may drag a visible keyboard that is at rest; when it is let go, a *)
(* change of its frame follows.                                             *)
DragBegins ==
  /\ owed = <<>> /\ Top[keyboard] < Screen /\ changes < MaxChanges
  /\ dragging' = TRUE
  /\ UNCHANGED <<transitionVars, notificationVars, notifyDue, tellsDue,
                 keyboard, target, keyboardView, owed, changes>>

(* The keyboard's view is made when it is first needed, and made anew at    *)
(* will: nobody observes the new one yet.                                   *)
KeyboardViewMade ==
  /\ keyboardView # "new"
  /\ keyboardView' = "new"
  /\ UNCHANGED <<transitionVars, notificationVars, notifyDue, tellsDue,
                 keyboard, target, owed, dragging, changes>>
=============================================================================

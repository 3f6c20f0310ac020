--------------------------- MODULE PopBaseProofs ---------------------------
(***************************************************************************)
(* Proofs about YYKeyboardManager and PopBaseView, for any frames, pop     *)
(* views and bounds.  What is typed knows where the next transition goes;  *)
(* what the manager follows is where UIKit is bound for; and a pop view    *)
(* that was told of the manager's frame is clear of it.                    *)
(***************************************************************************)
EXTENDS PopBaseView, SequenceTheorems, TLAPS

(* A transition that is due, or due to be told, has a frame.                *)
Known ==
  /\ trans.to = fromFrame
  /\ notifyDue => lastIsNotification \/ hasObservedChange
  /\ lastIsNotification => notificationToFrame \in Frame
  /\ hasObservedChange => observedToFrame \in Frame
  /\ tellsDue > 0 => fromFrame \in Frame

Typed == TypeOK /\ Known

LEMMA NewFrameIsFrame == ASSUME Typed, notifyDue PROVE NewFrame \in Frame
BY DEF Typed, Known, NewFrame, TakesNotification

(* What _notifyAllObservers does with a frame.                              *)
LEMMA NotifiesTyped ==
  ASSUME Typed, NEW f \in Frame, Notifies(f)
  PROVE  /\ fromFrame' = f /\ trans' \in Transition /\ trans'.to = f
         /\ tellsDue' \in 0..MaxTells /\ hasObservedChange' = FALSE
         /\ f # fromFrame => tellsDue' > 0
         /\ f = fromFrame => tellsDue' = tellsDue
<1> USE FrameAssumption DEF Typed, TypeOK, YYTypeOK, AnyFrame
<1>1. fromFrame' = f /\ trans' = [from |-> fromFrame, to |-> f]
      /\ hasObservedChange' = FALSE
  BY DEF Notifies
<1>2. trans' \in Transition /\ trans'.to = f
  BY <1>1 DEF Transition
<1>3. TellsAfter(tellsDue, f) \in Nat /\ TellsAfter(tellsDue, f) > 0
  BY DEF TellsAfter
<1>4. /\ tellsDue' \in 0..MaxTells
      /\ f # fromFrame => tellsDue' > 0
      /\ f = fromFrame => tellsDue' = tellsDue
  BY <1>3 DEF Notifies
<1> QED BY <1>1, <1>2, <1>4

LEMMA TypedInit == Init => Typed
<1> SUFFICES ASSUME Init PROVE Typed
  OBVIOUS
<1> USE FrameAssumption, PopAssumption DEF Init, YYInit
<1>1. trans \in Transition /\ trans.to = fromFrame
  BY DEF Transition, AnyFrame
<1>2. offset \in [Pop -> (-Screen)..0]
  <2>1. 0 \in (-Screen)..0
    OBVIOUS
  <2> QED BY <2>1
<1>3. owed \in Seq(Frame)
  OBVIOUS
<1>4. YYTypeOK
  <2>1. tellsDue \in 0..MaxTells /\ changes \in 0..MaxChanges
    OBVIOUS
  <2>2. /\ fromFrame \in AnyFrame /\ notificationToFrame \in AnyFrame
        /\ observedToFrame \in AnyFrame
        /\ keyboard \in Frame /\ target \in Frame
    BY DEF AnyFrame
  <2>3. /\ hasObservedChange \in BOOLEAN /\ lastIsNotification \in BOOLEAN
        /\ notifyDue \in BOOLEAN /\ dragging \in BOOLEAN
        /\ keyboardView \in {"none", "new", "watched"}
    OBVIOUS
  <2> QED BY <1>1, <1>3, <2>1, <2>2, <2>3, Zenon DEF YYTypeOK
<1>5. Known
  BY <1>1 DEF Known
<1> QED BY <1>2, <1>4, <1>5 DEF Typed, TypeOK

(* The position that a pop view is given clears the keyboard.               *)
LEMMA OffsetClears ==
  ASSUME NEW p \in Pop, NEW f \in Frame, offset[p] \in (-Screen)..0
  PROVE  /\ OffsetFor(p, f) \in (-Screen)..0
         /\ Bottom[p] + OffsetFor(p, f) <= Top[f]
<1>1. Bottom[p] \in 0..Screen /\ Top[f] \in 0..Screen /\ Screen \in Nat
  BY FrameAssumption, PopAssumption
<1> QED BY <1>1 DEF OffsetFor

(* UIKit and the manager.                                                   *)
LEMMA TypedStepKeyboard == Typed /\ KeyboardStep => Typed'
<1> SUFFICES ASSUME Typed, KeyboardStep PROVE Typed'
  OBVIOUS
<1> USE FrameAssumption DEF Typed, TypeOK, YYTypeOK, Known, AnyFrame
<1>1. observers' \in SUBSET Pop /\ offset' \in [Pop -> (-Screen)..0]
      /\ late' \in SUBSET Pop
  BY DEF KeyboardStep, popVars
<1>2. ASSUME NEW f \in Frame, NEW animated \in BOOLEAN,
             KeyboardWillChange(f, animated)
      PROVE  YYTypeOK' /\ Known'
  <2>1. /\ changes' \in 0..MaxChanges /\ owed' \in Seq(Frame)
        /\ target' \in Frame /\ keyboard' \in Frame /\ dragging' \in BOOLEAN
    <3>1. changes' = changes + 1 /\ changes < MaxChanges
      BY <1>2 DEF KeyboardWillChange
    <3>2. /\ owed' = Append(owed, f) /\ target' = f /\ keyboard' = keyboard
          /\ dragging' = FALSE
      BY <1>2 DEF KeyboardWillChange
    <3>3. changes' \in 0..MaxChanges
      BY <3>1
    <3>4. owed' \in Seq(Frame)
      BY <3>2
    <3> QED BY <3>2, <3>3, <3>4
  <2>2. /\ keyboardView' \in {"none", "new", "watched"}
        /\ notificationToFrame' = f /\ lastIsNotification' = TRUE
        /\ observedToFrame' = observedToFrame /\ notifyDue' \in BOOLEAN
    BY <1>2
       DEF KeyboardWillChange, WillChangeNotification, InitFrameObserver
  <2>3. /\ fromFrame' \in AnyFrame /\ trans' \in Transition
        /\ tellsDue' \in 0..MaxTells /\ hasObservedChange' \in BOOLEAN
        /\ trans'.to = fromFrame'
        /\ hasObservedChange' => observedToFrame \in Frame
        /\ tellsDue' > 0 => fromFrame' \in Frame
    <3>1. CASE animated
      <4>1. Notifies(f)
        BY <1>2, <3>1 DEF KeyboardWillChange, WillChangeNotification
      <4> QED BY <4>1, NotifiesTyped
    <3>2. CASE ~animated
      BY <1>2, <3>2
         DEF KeyboardWillChange, WillChangeNotification, transitionVars
    <3> QED BY <3>1, <3>2
  <2>4. YYTypeOK'
    BY <2>1, <2>2, <2>3
  <2>5. Known'
    BY <2>2, <2>3
  <2> QED BY <2>4, <2>5
<1>3. ASSUME NEW f \in Frame, KeyboardViewSet(f) PROVE YYTypeOK' /\ Known'
  BY <1>3 DEF KeyboardViewSet, FrameChanged, transitionVars, notificationVars
<1>4. ASSUME KeyboardDidChange PROVE YYTypeOK' /\ Known'
  <2>1. Head(owed) \in Frame /\ Tail(owed) \in Seq(Frame)
    BY <1>4 DEF KeyboardDidChange
  <2> QED BY <1>4, <2>1 DEF KeyboardDidChange, DidChangeNotification,
          InitFrameObserver, transitionVars
<1>5. ASSUME DragBegins PROVE YYTypeOK' /\ Known'
  BY <1>5 DEF DragBegins, transitionVars, notificationVars
<1>6. ASSUME KeyboardViewMade PROVE YYTypeOK' /\ Known'
  BY <1>6 DEF KeyboardViewMade, transitionVars, notificationVars
<1>7. ASSUME NotifyAllObservers PROVE YYTypeOK' /\ Known'
  <2>1. NewFrame \in Frame /\ Notifies(NewFrame)
    BY <1>7, NewFrameIsFrame DEF NotifyAllObservers
  <2> QED BY <1>7, <2>1, NotifiesTyped DEF NotifyAllObservers, uikitVars
<1> QED BY <1>1, <1>2, <1>3, <1>4, <1>5, <1>6, <1>7 DEF KeyboardStep, Heard

LEMMA TypedStep == Typed /\ [Next]_vars => Typed'
<1> SUFFICES ASSUME Typed, [Next]_vars PROVE Typed'
  OBVIOUS
<1> USE FrameAssumption DEF Typed, TypeOK, YYTypeOK, Known, yyVars,
        transitionVars, notificationVars, uikitVars
<1>1. CASE KeyboardStep
  BY <1>1, TypedStepKeyboard
<1>2. CASE TellObservers
  <2>1. trans.to \in Frame
    BY <1>2 DEF TellObservers, KeyboardChange
  <2>2. offset' \in [Pop -> (-Screen)..0]
    BY <1>2, <2>1, OffsetClears DEF TellObservers
  <2>3. tellsDue' \in 0..MaxTells /\ (tellsDue' > 0 => tellsDue > 0)
    BY <1>2 DEF TellObservers, KeyboardChange
  <2> QED BY <1>2, <2>2, <2>3 DEF TellObservers, KeyboardChange
<1>3. ASSUME NEW p \in Pop, showPopView(p) PROVE Typed'
  BY <1>3 DEF showPopView
<1>4. ASSUME NEW p \in Pop, dismissPopView(p) PROVE Typed'
  BY <1>4 DEF dismissPopView
<1>5. CASE UNCHANGED vars
  BY <1>5 DEF vars, popVars
<1> QED BY <1>1, <1>2, <1>3, <1>4, <1>5 DEF Next

(* YYKeyboardManager and PopBaseView stay within their types, and what is   *)
(* due always has a frame to go to.                                         *)
THEOREM TypeCorrect == Spec => []TypeOK
<1>1. Typed => TypeOK
  BY DEF Typed
<1> QED BY TypedInit, TypedStep, <1>1, PTL DEF Spec

----------------------------------------------------------------------------
(* What the manager follows.  Ends of changes are announced in order, the   *)
(* last of them where the keyboard is bound for, and once they all are the  *)
(* keyboard is there; what was heard last is then what it will turn into a  *)
(* transition, or already has.                                              *)
Settled == owed = <<>> /\ ~dragging

FollowInv ==
  /\ owed # <<>> => owed[Len(owed)] = target
  /\ Settled => keyboard = target
  /\ Settled /\ notifyDue => NewFrame = target
  /\ Settled /\ ~notifyDue /\ fromFrame # NoFrame => fromFrame = target

LEMMA FollowInit == Init => FollowInv
BY DEF Init, YYInit, FollowInv, Settled

(* The last of a queue that loses its first is still its last.              *)
LEMMA LastOfTail ==
  ASSUME NEW s \in Seq(Frame), s # <<>>, Tail(s) # <<>>
  PROVE  Tail(s)[Len(Tail(s))] = s[Len(s)]
OBVIOUS

LEMMA LongIsNotEmpty == ASSUME NEW s \in Seq(Frame), Len(s) # 0 PROVE s # <<>>
OBVIOUS

LEMMA OthersFollow ==
  ASSUME NEW s \in Seq(Frame), s # <<>>, Len(s) # 1 PROVE Tail(s) # <<>>
<1>1. Tail(s) \in Seq(Frame) /\ Len(Tail(s)) # 0
  BY HeadTailProperties, LenProperties
<1> QED BY <1>1, LongIsNotEmpty, Zenon

LEMMA LastOfAppend ==
  ASSUME NEW s \in Seq(Frame), NEW f \in Frame
  PROVE  Append(s, f) # <<>> /\ Append(s, f)[Len(Append(s, f))] = f
OBVIOUS

LEMMA FollowStepHeard == Typed /\ FollowInv /\ Heard => FollowInv'
<1> SUFFICES ASSUME Typed, FollowInv, Heard PROVE FollowInv'
  OBVIOUS
<1>0. owed \in Seq(Frame)
  BY DEF Typed, TypeOK, YYTypeOK
<1>1. ASSUME NEW f \in Frame, NEW animated \in BOOLEAN,
             KeyboardWillChange(f, animated)
      PROVE  FollowInv'
  <2>1. owed' = Append(owed, f) /\ target' = f
    BY <1>1 DEF KeyboardWillChange
  <2>2. owed' # <<>> /\ owed'[Len(owed')] = target'
    BY <1>0, <2>1, LastOfAppend
  <2> QED BY <2>2 DEF FollowInv, Settled
<1>2. ASSUME NEW f \in Frame, KeyboardViewSet(f) PROVE FollowInv'
  <2>1. /\ keyboard' = f /\ FrameChanged(f)
        /\ f = keyboard \/ f = target \/ dragging
        /\ UNCHANGED <<fromFrame, target, owed, dragging>>
    BY <1>2 DEF KeyboardViewSet, transitionVars
  <2>2. Settled' => Settled /\ f = target
    BY <2>1 DEF FollowInv, Settled
  <2>3. CASE keyboardView = "watched"
    <3>1. observedToFrame' = f /\ lastIsNotification' = FALSE /\ notifyDue'
          /\ notificationToFrame' = notificationToFrame
      BY <2>1, <2>3 DEF FrameChanged
    <3>2. NewFrame' = f
      BY <3>1 DEF NewFrame, TakesNotification
    <3> QED BY <2>1, <2>2, <3>1, <3>2 DEF FollowInv, Settled
  <2>4. CASE keyboardView # "watched"
    <3>1. UNCHANGED <<notificationVars, notifyDue>>
      BY <2>1, <2>4 DEF FrameChanged
    <3>2. NewFrame' = NewFrame
      BY <3>1 DEF notificationVars, NewFrame, TakesNotification
    <3> QED BY <2>1, <2>2, <3>1, <3>2 DEF FollowInv, Settled
  <2> QED BY <2>3, <2>4
<1>3. ASSUME KeyboardDidChange PROVE FollowInv'
  <2>1. /\ owed # <<>> /\ owed' = Tail(owed)
        /\ Len(owed) = 1 => keyboard = target
        /\ UNCHANGED <<keyboard, target, dragging>>
        /\ notificationToFrame' = Head(owed) /\ lastIsNotification'
        /\ notifyDue'
    BY <1>3 DEF KeyboardDidChange, DidChangeNotification
  <2>2. owed' # <<>> => owed'[Len(owed')] = target'
    BY <1>0, <2>1, LastOfTail DEF FollowInv
  <2>3. NewFrame' = Head(owed)
    BY <2>1 DEF NewFrame, TakesNotification
  <2>4. ASSUME owed' = <<>> PROVE Len(owed) = 1 /\ Head(owed) = owed[Len(owed)]
    <3>1. Len(owed) # 1 => Tail(owed) # <<>>
      BY <1>0, <2>1, OthersFollow
    <3>2. Len(owed) = 1
      BY <2>1, <2>4, <3>1, Zenon
    <3>3. Head(owed) = owed[1]
      BY <1>0, <2>1
    <3> QED BY <3>2, <3>3
  <2> QED BY <2>1, <2>2, <2>3, <2>4 DEF FollowInv, Settled
<1>4. ASSUME DragBegins PROVE FollowInv'
  BY <1>4 DEF DragBegins, FollowInv, Settled
<1>5. ASSUME KeyboardViewMade PROVE FollowInv'
  BY <1>5 DEF KeyboardViewMade, FollowInv, Settled, NewFrame,
     TakesNotification, transitionVars, notificationVars
<1>6. ASSUME NotifyAllObservers PROVE FollowInv'
  BY <1>6 DEF NotifyAllObservers, Notifies, FollowInv, Settled, uikitVars
<1> QED BY <1>1, <1>2, <1>3, <1>4, <1>5, <1>6 DEF Heard

LEMMA FollowStep == Typed /\ FollowInv /\ [Next]_vars => FollowInv'
<1> SUFFICES ASSUME Typed, FollowInv, [Next]_vars PROVE FollowInv'
  OBVIOUS
<1>1. ASSUME UNCHANGED yyVars PROVE FollowInv'
  BY <1>1 DEF FollowInv, Settled, NewFrame, TakesNotification, yyVars,
     transitionVars, notificationVars, uikitVars
<1>2. CASE KeyboardStep
  BY <1>2, FollowStepHeard DEF KeyboardStep
<1>3. CASE TellObservers
  BY <1>3 DEF TellObservers, KeyboardChange, FollowInv, Settled, NewFrame,
     TakesNotification, transitionVars, notificationVars, uikitVars
<1>4. CASE \E p \in Pop : showPopView(p) \/ dismissPopView(p)
  BY <1>1, <1>4 DEF showPopView, dismissPopView
<1>5. CASE UNCHANGED vars
  BY <1>1, <1>5 DEF vars
<1> QED BY <1>2, <1>3, <1>4, <1>5 DEF Next

(* Once UIKit is at rest and nothing is due, YYKeyboardManager has ended up *)
(* with the frame of the keyboard, whatever was heard in whatever order.    *)
THEOREM ManagerFollows == Spec => []FollowsKeyboard
<1>1. FollowInv => FollowsKeyboard
  BY DEF FollowInv, Settled, FollowsKeyboard, AtRest
<1> QED BY TypedInit, TypedStep, FollowInit, FollowStep, <1>1, PTL DEF Spec

----------------------------------------------------------------------------
(* A pop view that has observed a change is clear of the frame the manager  *)
(* has, or is about to be told of it.                                       *)
Clear(p) == Bottom[p] + offset[p] <= Top[fromFrame]

ClearInv ==
  /\ fromFrame = NoFrame => observers \subseteq late
  /\ tellsDue = 0 => \A p \in observers \ late : Clear(p)

LEMMA ClearInit == Init => ClearInv
BY DEF Init, ClearInv

(* A step that leaves the manager's frame alone adds no call that is due,   *)
(* takes none away; any other leaves one due.                               *)
LEMMA HeardTells ==
  ASSUME Typed, Heard
  PROVE  \/ fromFrame' = fromFrame /\ tellsDue' = tellsDue
         \/ fromFrame' # fromFrame /\ fromFrame' \in Frame /\ tellsDue' > 0
<1>1. ASSUME NEW f \in Frame, Notifies(f)
      PROVE  \/ fromFrame' = fromFrame /\ tellsDue' = tellsDue
             \/ fromFrame' # fromFrame /\ fromFrame' \in Frame /\ tellsDue' > 0
  BY <1>1, NotifiesTyped
<1>2. ASSUME NEW f \in Frame, NEW animated \in BOOLEAN,
             KeyboardWillChange(f, animated)
      PROVE  Notifies(f) \/ UNCHANGED <<fromFrame, tellsDue>>
  BY <1>2 DEF KeyboardWillChange, WillChangeNotification, transitionVars
<1>3. ASSUME NEW f \in Frame, KeyboardViewSet(f)
      PROVE  UNCHANGED <<fromFrame, tellsDue>>
  BY <1>3 DEF KeyboardViewSet, transitionVars
<1>4. ASSUME KeyboardDidChange PROVE UNCHANGED <<fromFrame, tellsDue>>
  BY <1>4 DEF KeyboardDidChange, DidChangeNotification, transitionVars
<1>5. ASSUME DragBegins \/ KeyboardViewMade
      PROVE  UNCHANGED <<fromFrame, tellsDue>>
  BY <1>5 DEF DragBegins, KeyboardViewMade, transitionVars
<1>6. ASSUME NotifyAllObservers PROVE NewFrame \in Frame /\ Notifies(NewFrame)
  BY <1>6, NewFrameIsFrame DEF NotifyAllObservers
<1> QED BY <1>1, <1>2, <1>3, <1>4, <1>5, <1>6 DEF Heard

LEMMA ClearStep == Typed /\ ClearInv /\ [Next]_vars => ClearInv'
<1> SUFFICES ASSUME Typed, ClearInv, [Next]_vars PROVE ClearInv'
  OBVIOUS
<1>1. CASE KeyboardStep
  <2>1. /\ observers' = observers /\ offset' = offset
        /\ late' = IF fromFrame' # fromFrame THEN {} ELSE late
    BY <1>1 DEF KeyboardStep, popVars, Noticed
  <2>2. CASE fromFrame' = fromFrame /\ tellsDue' = tellsDue
    BY <2>1, <2>2 DEF ClearInv, Clear
  <2>3. CASE fromFrame' # fromFrame /\ fromFrame' \in Frame /\ tellsDue' > 0
    BY <2>1, <2>3, FrameAssumption DEF ClearInv
  <2> QED BY <1>1, <2>2, <2>3, HeardTells DEF KeyboardStep
<1>2. CASE TellObservers
  <2>1. /\ tellsDue > 0 /\ UNCHANGED <<fromFrame, observers, late>>
        /\ offset' = [p \in Pop |-> IF p \in observers
                                    THEN OffsetFor(p, trans.to) ELSE offset[p]]
    BY <1>2 DEF TellObservers, KeyboardChange, transitionVars
  <2>2. trans.to = fromFrame /\ fromFrame \in Frame
    BY <2>1 DEF Typed, Known
  <2>3. ASSUME NEW p \in observers PROVE Clear(p)'
    <3>1. p \in Pop /\ offset[p] \in (-Screen)..0
      BY <2>3 DEF Typed, TypeOK
    <3> QED BY <2>1, <2>2, <2>3, <3>1, OffsetClears DEF Clear
  <2> QED BY <2>1, <2>3 DEF ClearInv
<1>3. ASSUME NEW p \in Pop, showPopView(p) PROVE ClearInv'
  <2>1. /\ p \notin observers /\ observers' = observers \cup {p}
        /\ offset' = [offset EXCEPT ![p] = 0] /\ late' = late \cup {p}
        /\ UNCHANGED <<fromFrame, tellsDue>>
    BY <1>3 DEF showPopView, yyVars, transitionVars
  <2>2. offset \in [Pop -> (-Screen)..0]
    BY DEF Typed, TypeOK
  <2> QED BY <2>1, <2>2 DEF ClearInv, Clear
<1>4. ASSUME NEW p \in Pop, dismissPopView(p) PROVE ClearInv'
  BY <1>4 DEF dismissPopView, yyVars, transitionVars, ClearInv, Clear
<1>5. CASE UNCHANGED vars
  BY <1>5 DEF vars, popVars, yyVars, transitionVars, ClearInv, Clear
<1> QED BY <1>1, <1>2, <1>3, <1>4, <1>5 DEF Next

(* At rest and with everyone told, the keyboard covers no pop view that has *)
(* observed a change of it.                                                 *)
THEOREM NeverCovered == Spec => []Uncovered
<1>1. Typed /\ FollowInv /\ ClearInv => Uncovered
  <2> SUFFICES ASSUME FollowInv, ClearInv, AtRest, tellsDue = 0,
                      NEW p \in observers \ late
               PROVE  Bottom[p] + offset[p] <= Top[keyboard]
    BY DEF Uncovered
  <2>1. fromFrame # NoFrame
    BY DEF ClearInv
  <2>2. fromFrame = keyboard
    BY <2>1 DEF FollowInv, Settled, AtRest
  <2>3. Clear(p)
    BY DEF ClearInv
  <2> QED BY <2>2, <2>3 DEF Clear
<1> QED BY TypedInit, TypedStep, FollowInit, FollowStep, ClearInit, ClearStep,
        <1>1, PTL DEF Spec
=============================================================================

----------------------- MODULE KeyBoardDigitalProofs -----------------------
(***************************************************************************)
(* Proofs about KeyBoardDigitalView, for any fields, feet and number of    *)
(* panels.  The typing invariant adds that registrations never outnumber   *)
(* the panels built.  On top of it stand two inductive invariants: what is *)
(* let go (whatever the user does), and the way home of a foot view (as    *)
(* long as nothing was disturbed).                                         *)
(***************************************************************************)
EXTENDS KeyBoardDigitalView, TLAPS

(* The registrations are those of the panels built; a field that is edited  *)
(* has a panel.                                                             *)
Counted == observers <= built /\ (focus # NoField => built \in Panel)

TypeInv == TypeOK /\ Counted

LEMMA Numbers == Panel \subseteq Nat \ {0} /\ NoView \notin Panel /\ Home \notin Panel
BY KeyBoardAssumption DEF Panel, NoView, Home

LEMMA TypeInit == Init => TypeInv
<1> SUFFICES ASSUME Init PROVE TypeInv
  OBVIOUS
<1>1. disturbed \in BOOLEAN
  BY DEF Init
<1>2. parent \in [Foot -> View] /\ frame \in [Foot -> Frame \cup {"zero"}]
  BY DEF Init, View, Frame
<1>3. /\ reductions \in [Panel -> 0..MaxPanels]
      /\ dismissals \in [Panel -> 0..MaxPanels]
      /\ inputView \in [Field -> Panel \cup {NoView}]
  BY KeyBoardAssumption DEF Init
<1> QED BY <1>1, <1>2, <1>3, KeyBoardAssumption
        DEF Init, TypeInv, TypeOK, Counted, View, NoView

(* Every step keeps the types and the count.                                *)
LEMMA TypeStep == TypeInv /\ [Next]_vars => TypeInv'
<1> SUFFICES ASSUME TypeInv, [Next]_vars PROVE TypeInv'
  OBVIOUS
<1> USE KeyBoardAssumption, Numbers DEF TypeInv, TypeOK, Counted
<1>1. ASSUME NEW t \in Field, setKeyBoardInputView(t) PROVE TypeInv'
  <2>1. /\ built' = built + 1 /\ built + 1 \in Panel
        /\ observers' = observers + 1 /\ observers' \in 0..MaxPanels
    BY <1>1 DEF setKeyBoardInputView, buildKeyBoard, Panel
  <2>2. FootOf[t] \in Foot
    OBVIOUS
  <2>3. /\ keyMainView' \in Panel \cup {NoView} /\ parent' \in [Foot -> View]
        /\ frame' \in [Foot -> Frame \cup {"zero"}]
        /\ inputView' \in [Field -> Panel \cup {NoView}]
    BY <1>1, <2>1, <2>2 DEF setKeyBoardInputView, buildKeyBoard, View, Frame,
       TextViewTaken
  <2>4. subFootView' \in View /\ orgFootFrame' \in Frame \cup {"zero"}
    <3>1. CASE ComesFromOutside(FootOf[t])
      BY <1>1, <2>2, <3>1 DEF setKeyBoardInputView
    <3>2. CASE ~ComesFromOutside(FootOf[t]) /\ parent[FootOf[t]] = NoView
      BY <1>1, <3>2 DEF setKeyBoardInputView, View
    <3>3. CASE ~ComesFromOutside(FootOf[t]) /\ parent[FootOf[t]] # NoView
      BY <1>1, <3>3 DEF setKeyBoardInputView
    <3> QED BY <3>1, <3>2, <3>3
  <2>5. disturbed' \in BOOLEAN
    BY <1>1 DEF setKeyBoardInputView
  <2> QED BY <1>1, <2>1, <2>2, <2>3, <2>4, <2>5
          DEF setKeyBoardInputView, TextViewTaken, timerVars
<1>2. ASSUME keyboardWillHide PROVE TypeInv'
  BY <1>2 DEF keyboardWillHide, StartReductions, keyboardVars, viewVars
<1>3. ASSUME NEW p \in Panel, reductionView(p) PROVE TypeInv'
  <2>1. reductions' \in [Panel -> 0..MaxPanels]
    BY <1>3 DEF reductionView
  <2>2. parent' \in [Foot -> View] /\ frame' \in [Foot -> Frame \cup {"zero"}]
    BY <1>3 DEF reductionView, Returns
  <2> QED BY <1>3, <2>1, <2>2 DEF reductionView, keyboardVars
<1>4. ASSUME NEW p \in Panel, keyBoardDismiss(p) PROVE TypeInv'
  <2>1. dismissals' \in [Panel -> 0..MaxPanels]
    BY <1>4 DEF keyBoardDismiss
  <2>2. inputView' \in [Field -> Panel \cup {NoView}]
    BY <1>4 DEF keyBoardDismiss
  <2> QED BY <1>4, <2>1, <2>2 DEF keyBoardDismiss, RegistrationsLeft, View
<1>5. ASSUME NEW p \in Panel, PanelFreed(p) PROVE TypeInv'
  BY <1>5 DEF PanelFreed, View, timerVars
<1>6. ASSUME UNCHANGED vars PROVE TypeInv'
  BY <1>6 DEF vars, keyboardVars, timerVars, viewVars
<1> QED BY <1>1, <1>2, <1>3, <1>4, <1>5, <1>6
        DEF Next, TimerStep, EndEditing, PickUpKey

THEOREM KeyBoardTypes == Spec => []TypeInv
BY TypeInit, TypeStep, PTL DEF Spec

(* The keyboard's properties keep their types, and a timer call that is     *)
(* counted is one of a panel (KeyBoardDigitalView.m:60-122, :310-333).      *)
THEOREM TypeCorrect == Spec => []TypeOK
<1>1. TypeInv => TypeOK
  BY DEF TypeInv
<1> QED BY <1>1, KeyBoardTypes, PTL

----------------------------------------------------------------------------
(* Letting go.  A keyboard that is registered no more holds nothing, and it *)
(* is registered only while a field is edited or a timer is to come.        *)

Empty == /\ toTextView = NoField /\ keyMainView = NoView
         /\ footView = NoFoot /\ subFootView = NoView

LetsGoInv ==
  /\ observers = 0 => Empty
  /\ focus = NoField /\ ~Pending => observers = 0

LEMMA LetsGoInit == Init => LetsGoInv
BY DEF Init, LetsGoInv, Empty, Pending

LEMMA LetsGoStep == TypeInv /\ LetsGoInv /\ [Next]_vars => LetsGoInv'
<1> SUFFICES ASSUME TypeInv, LetsGoInv, [Next]_vars PROVE LetsGoInv'
  OBVIOUS
<1> USE KeyBoardAssumption, Numbers DEF LetsGoInv
<1>1. ASSUME NEW t \in Field, setKeyBoardInputView(t) PROVE LetsGoInv'
  BY <1>1 DEF setKeyBoardInputView, TypeInv, TypeOK
<1>2. ASSUME keyboardWillHide PROVE LetsGoInv'
  <2>1. Empty' <=> Empty
    BY <1>2 DEF keyboardWillHide, Empty, keyboardVars
  <2>2. observers' = observers /\ observers \in Nat
    BY <1>2 DEF keyboardWillHide, keyboardVars, TypeInv, TypeOK
  <2>3. ASSUME observers # 0 PROVE Pending'
    <3>1. built \in Panel
      BY <1>2 DEF keyboardWillHide, TypeInv, Counted
    <3>2. dismissals'[built] = observers
      BY <1>2, <3>1 DEF keyboardWillHide, TypeInv, TypeOK
    <3> QED BY <2>2, <2>3, <3>1, <3>2 DEF Pending
  <2> QED BY <2>1, <2>2, <2>3
<1>3. ASSUME NEW p \in Panel, reductionView(p) PROVE LetsGoInv'
  BY <1>3 DEF reductionView, Empty, keyboardVars, Pending
<1>4. ASSUME NEW p \in Panel, keyBoardDismiss(p) PROVE LetsGoInv'
  BY <1>4 DEF keyBoardDismiss, RegistrationsLeft, Empty
<1>5. ASSUME NEW p \in Panel, PanelFreed(p) PROVE LetsGoInv'
  BY <1>5 DEF PanelFreed, Empty, Pending, timerVars
<1>6. ASSUME UNCHANGED vars PROVE LetsGoInv'
  BY <1>6 DEF vars, keyboardVars, timerVars, Empty, Pending
<1> QED BY <1>1, <1>2, <1>3, <1>4, <1>5, <1>6
        DEF Next, TimerStep, EndEditing, PickUpKey

(* Whatever fields were edited in whatever rhythm, a keyboard at rest holds *)
(* no field, no panel, no foot view and no registration (keyBoardDismiss,   *)
(* KeyBoardDigitalView.m:99-122).                                           *)
THEOREM LetsGoAtRest == Spec => []LetsGo
<1>1. LetsGoInv => LetsGo
  BY DEF LetsGoInv, LetsGo, Empty
<1>2. Spec => []LetsGoInv
  BY KeyBoardTypes, LetsGoInit, LetsGoStep, PTL DEF Spec
<1> QED BY <1>1, <1>2, PTL

----------------------------------------------------------------------------
(* The way home.  While nothing is disturbed, no timer is to come as long as*)
(* a field is edited; a foot view the keyboard holds is one whose home it   *)
(* knows; and by the time a dismissal is due, every foot view is at home.   *)

FocusIsServed ==
  focus # NoField =>
    /\ ~Pending
    /\ toTextView = focus
    /\ keyMainView # NoView /\ inputView[focus] = keyMainView
    /\ observers > 0

KnowsTheWay ==
  /\ footView # NoFoot => keyMainView # NoView
  /\ \A f \in HomeFoot : footView = f => subFootView = Home /\ orgFootFrame = "home"

ReductionFirst ==
  \A p \in Panel :
    /\ reductions[p] > 0 => dismissals[p] > 0
    /\ reductions[p] = 0 /\ dismissals[p] > 0 => \A f \in HomeFoot : AtHome(f)

Safe == \A f \in HomeFoot : AtHome(f) \/ WayBack(f)

HomeInv ==
  ~disturbed => FocusIsServed /\ KnowsTheWay /\ ReductionFirst /\ Safe

LEMMA HomeInit == Init => HomeInv
BY KeyBoardAssumption
   DEF Init, HomeInv, FocusIsServed, KnowsTheWay, ReductionFirst, Safe, AtHome

(* A field begins editing, undisturbed.                                     *)
LEMMA HomeBegin ==
  ASSUME TypeInv, HomeInv, NEW t \in Field, setKeyBoardInputView(t), ~disturbed'
  PROVE  HomeInv'
<1> DEFINE foot == FootOf[t]
<1> USE KeyBoardAssumption, Numbers DEF TypeInv, TypeOK
<1>1. ~disturbed /\ ~Pending /\ footView \in {NoFoot, foot}
  BY DEF setKeyBoardInputView
<1>2. /\ FocusIsServed /\ KnowsTheWay /\ ReductionFirst /\ Safe
  BY <1>1 DEF HomeInv
<1>3. /\ built + 1 \in Panel /\ built + 1 # NoView
      /\ keyMainView' = built + 1 /\ footView' = foot /\ foot \in Foot
      /\ parent' = [parent EXCEPT ![foot] = built + 1]
      /\ frame' = [frame EXCEPT ![foot] = "panel"]
  <2>1. built < MaxPanels
    BY DEF setKeyBoardInputView, buildKeyBoard
  <2>2. built + 1 \in Panel /\ built + 1 # NoView
    BY <2>1 DEF Panel, NoView
  <2>3. foot \in Foot
    OBVIOUS
  <2> QED BY <2>2, <2>3 DEF setKeyBoardInputView, buildKeyBoard
<1>4. FocusIsServed'
  <2>1. ~Pending'
    BY <1>1 DEF setKeyBoardInputView, timerVars, Pending
  <2>2. /\ toTextView' = t /\ focus' = t /\ inputView'[t] = keyMainView'
        /\ observers' > 0
    BY <1>3 DEF setKeyBoardInputView, TextViewTaken
  <2> QED BY <1>3, <2>1, <2>2 DEF FocusIsServed
<1>5. ASSUME foot \in HomeFoot
      PROVE  subFootView' = Home /\ orgFootFrame' = "home"
  <2>1. CASE AtHome(foot)
    BY <2>1 DEF setKeyBoardInputView, ComesFromOutside, AtHome, NoView, Home
  <2>2. CASE WayBack(foot)
    <3>1. keyMainView # NoView /\ parent[foot] = keyMainView
      BY <1>2, <1>3, <2>2, <1>5 DEF KnowsTheWay, WayBack
    <3>2. ~ComesFromOutside(foot) /\ parent[foot] # NoView
      BY <3>1 DEF ComesFromOutside
    <3> QED BY <2>2, <3>2 DEF setKeyBoardInputView, WayBack
  <2> QED BY <1>2, <1>5, <2>1, <2>2 DEF Safe
<1>6. KnowsTheWay'
  BY <1>3, <1>5 DEF KnowsTheWay
<1>7. ReductionFirst'
  <2>1. \A p \in Panel : dismissals'[p] = 0 /\ reductions'[p] = 0
    BY <1>1, <1>2 DEF Pending, ReductionFirst, setKeyBoardInputView, timerVars
  <2> QED BY <2>1 DEF ReductionFirst
<1>8. Safe'
  <2> SUFFICES ASSUME NEW f \in HomeFoot PROVE AtHome(f)' \/ WayBack(f)'
    BY DEF Safe
  <2>1. CASE f = foot
    BY <1>3, <1>5, <2>1 DEF WayBack
  <2>2. CASE f # foot
    <3>1. f \in Foot /\ f # NoFoot /\ footView # f
      BY <1>1, <2>2
    <3>2. AtHome(f)
      BY <1>2, <3>1 DEF Safe, WayBack
    <3> QED BY <1>3, <2>2, <3>1, <3>2 DEF AtHome
  <2> QED BY <2>1, <2>2
<1> QED BY <1>4, <1>6, <1>7, <1>8 DEF HomeInv

(* Taking the foot view home, undisturbed.                                  *)
LEMMA HomeReduction ==
  ASSUME TypeInv, HomeInv, NEW p \in Panel, reductionView(p), ~disturbed
  PROVE  HomeInv'
<1> USE KeyBoardAssumption, Numbers DEF TypeInv, TypeOK
<1>1. FocusIsServed /\ KnowsTheWay /\ ReductionFirst /\ Safe
  BY DEF HomeInv
<1>2. focus = NoField
  <2>1. Pending
    BY <1>1 DEF reductionView, ReductionFirst, Pending
  <2> QED BY <1>1, <2>1 DEF FocusIsServed
<1>3. \A f \in HomeFoot : AtHome(f)'
  <2> SUFFICES ASSUME NEW f \in HomeFoot PROVE AtHome(f)'
    OBVIOUS
  <2>0. f \in Foot /\ f # NoFoot
    OBVIOUS
  <2>1. CASE footView = f
    <3>1. Returns /\ subFootView = Home /\ orgFootFrame = "home"
      BY <1>1, <2>0, <2>1 DEF KnowsTheWay, Returns, NoView, Home
    <3>2. parent'[f] = Home /\ frame'[f] = "home"
      BY <2>0, <2>1, <3>1 DEF reductionView
    <3> QED BY <3>2 DEF AtHome
  <2>2. CASE footView # f
    <3>1. AtHome(f)
      BY <1>1, <2>2 DEF Safe, WayBack
    <3>2. parent'[f] = parent[f] /\ frame'[f] = frame[f]
      BY <2>0, <2>2 DEF reductionView
    <3> QED BY <3>1, <3>2 DEF AtHome
  <2> QED BY <2>1, <2>2
<1>4. FocusIsServed' /\ KnowsTheWay'
  BY <1>1, <1>2 DEF reductionView, keyboardVars, FocusIsServed, KnowsTheWay
<1>5. ReductionFirst'
  <2> SUFFICES ASSUME NEW q \in Panel, reductions'[q] > 0
               PROVE  dismissals'[q] > 0
    BY <1>3 DEF ReductionFirst
  <2>1. reductions[q] > 0
    BY DEF reductionView
  <2> QED BY <1>1, <2>1 DEF ReductionFirst, reductionView
<1> QED BY <1>3, <1>4, <1>5 DEF HomeInv, Safe

LEMMA HomeStep == TypeInv /\ HomeInv /\ [Next]_vars => HomeInv'
<1> SUFFICES ASSUME TypeInv, HomeInv, [Next]_vars, ~disturbed' PROVE HomeInv'
  BY DEF HomeInv
<1> USE KeyBoardAssumption, Numbers
<1>1. ASSUME NEW t \in Field, setKeyBoardInputView(t) PROVE HomeInv'
  BY <1>1, HomeBegin
<1>2. ASSUME keyboardWillHide PROVE HomeInv'
  <2>1. ~disturbed
    BY <1>2 DEF keyboardWillHide
  <2>2. FocusIsServed /\ KnowsTheWay /\ ReductionFirst /\ Safe
    BY <2>1 DEF HomeInv
  <2>3. ~Pending /\ observers > 0 /\ built \in Panel
    BY <1>2, <2>2 DEF keyboardWillHide, FocusIsServed, TypeInv, Counted
  <2>4. KnowsTheWay' /\ Safe'
    BY <1>2, <2>2 DEF keyboardWillHide, keyboardVars, viewVars, KnowsTheWay,
       Safe, AtHome, WayBack
  <2>5. FocusIsServed'
    BY <1>2 DEF keyboardWillHide, FocusIsServed
  <2>6. ASSUME NEW p \in Panel
        PROVE  /\ reductions'[p] > 0 => dismissals'[p] > 0
               /\ ~(reductions'[p] = 0 /\ dismissals'[p] > 0)
    BY <1>2, <2>2, <2>3 DEF keyboardWillHide, StartReductions, ReductionFirst,
       Pending, TypeInv, TypeOK
  <2>7. ReductionFirst'
    BY <2>6 DEF ReductionFirst
  <2> QED BY <2>4, <2>5, <2>7 DEF HomeInv
<1>3. ASSUME NEW p \in Panel, reductionView(p) PROVE HomeInv'
  <2>1. ~disturbed
    BY <1>3 DEF reductionView
  <2> QED BY <1>3, <2>1, HomeReduction
<1>4. ASSUME NEW p \in Panel, keyBoardDismiss(p) PROVE HomeInv'
  <2>1. ~disturbed /\ reductions[p] = 0 /\ dismissals[p] > 0
    BY <1>4 DEF keyBoardDismiss
  <2>2. FocusIsServed /\ ReductionFirst
    BY <2>1 DEF HomeInv
  <2>3. focus' = NoField
    BY <1>4, <2>1, <2>2 DEF FocusIsServed, Pending, keyBoardDismiss
  <2>4. \A f \in HomeFoot : AtHome(f)'
    BY <1>4, <2>1, <2>2 DEF ReductionFirst, AtHome, keyBoardDismiss
  <2>5. \A q \in Panel : reductions'[q] > 0 => dismissals'[q] > 0
    BY <1>4, <2>1, <2>2 DEF ReductionFirst, keyBoardDismiss, TypeInv, TypeOK
  <2>6. FocusIsServed' /\ KnowsTheWay'
    BY <1>4, <2>3 DEF FocusIsServed, KnowsTheWay, keyBoardDismiss
  <2>7. ReductionFirst' /\ Safe'
    BY <2>4, <2>5 DEF ReductionFirst, Safe
  <2> QED BY <2>6, <2>7 DEF HomeInv
<1>5. ASSUME NEW p \in Panel, PanelFreed(p) PROVE HomeInv'
  <2>1. ~disturbed
    BY <1>5 DEF PanelFreed
  <2>2. FocusIsServed /\ KnowsTheWay /\ ReductionFirst /\ Safe
    BY <2>1 DEF HomeInv
  <2>3. \A f \in HomeFoot : AtHome(f) => AtHome(f)'
    BY <1>5 DEF PanelFreed, AtHome
  <2>4. subFootView = Home => subFootView' = Home
    BY <1>5 DEF PanelFreed
  <2>5. \A f \in HomeFoot : WayBack(f) => WayBack(f)'
    BY <1>5, <2>4 DEF PanelFreed, WayBack, Held
  <2>6. FocusIsServed' /\ KnowsTheWay'
    BY <1>5, <2>2, <2>4 DEF PanelFreed, FocusIsServed, KnowsTheWay, Pending,
       timerVars
  <2>7. ReductionFirst' /\ Safe'
    BY <1>5, <2>2, <2>3, <2>5 DEF PanelFreed, ReductionFirst, Safe, timerVars
  <2> QED BY <2>6, <2>7 DEF HomeInv
<1>6. ASSUME UNCHANGED vars PROVE HomeInv'
  BY <1>6 DEF vars, keyboardVars, timerVars, viewVars, HomeInv, FocusIsServed,
     KnowsTheWay, ReductionFirst, Safe, AtHome, WayBack, Pending
<1> QED BY <1>1, <1>2, <1>3, <1>4, <1>5, <1>6
        DEF Next, TimerStep, EndEditing, PickUpKey

LEMMA HomeAlways == Spec => []HomeInv
BY KeyBoardTypes, HomeInit, HomeStep, PTL DEF Spec

(* A borrowed foot view is at home or the keyboard knows its home           *)
(* (setKeyBoardInputView: and reductionView, KeyBoardDigitalView.m:64-77,   *)
(* :328-333), for any number of fields and feet.                            *)
THEOREM FootStaysSafe == Spec => []FootIsSafe
<1>1. HomeInv => FootIsSafe
  BY DEF HomeInv, Safe, FootIsSafe
<1> QED BY <1>1, HomeAlways, PTL

(* The keys serve the field that is edited, and hiding will be noticed      *)
(* (setKeyBoardInputView:, KeyBoardDigitalView.m:60-97).                    *)
THEOREM FocusStaysServed == Spec => []ServesFocus
<1>1. HomeInv => ServesFocus
  BY DEF HomeInv, FocusIsServed, ServesFocus
<1> QED BY <1>1, HomeAlways, PTL
=============================================================================

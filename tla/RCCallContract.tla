--------------------------- MODULE RCCallContract ---------------------------
(***************************************************************************)
(* What RCAPIBaseManager promises about each call of loadDataWithParams:,  *)
(* whatever tasks, blocks and caches it uses: the call is refused, or it   *)
(* ends exactly once, told to the caller (delegate or block), handed over  *)
(* to whoever observes the token notifications, withheld by an             *)
(* interceptor, or lost with the process.  An answer is told in a later    *)
(* block: a success that waits is always told, a failure that waits may    *)
(* still be withheld.                                                      *)
(***************************************************************************)
EXTENDS Naturals

CONSTANT MaxCalls

Calls == 1..MaxCalls

Final == {"told", "handedOver", "withheld", "refused", "lost"}

VARIABLE phase

Waiting == {"succeeding", "failing"}

TypeOK == phase \in [Calls -> {"unused", "pending"} \cup Waiting \cup Final]

Init == phase = [c \in Calls |-> "unused"]

Move(c, from, to) == phase[c] = from /\ phase' = [phase EXCEPT ![c] = to]

Decided == Waiting \cup {"handedOver", "withheld"}

(* Calls are numbered in the order they are made.                           *)
Issue(c) ==
  /\ \A d \in Calls : d < c => phase[d] # "unused"
  /\ \E to \in {"pending", "refused"} \cup Decided : Move(c, "unused", to)

Decide(c) == \E to \in Decided : Move(c, "pending", to)

Answer(c) ==
  \/ Move(c, "succeeding", "told")
  \/ \E to \in {"told", "withheld"} : Move(c, "failing", to)

(* The process dies.                                                        *)
Lose ==
  phase' = [c \in Calls |-> IF phase[c] \in {"pending"} \cup Waiting
                            THEN "lost" ELSE phase[c]]

Next == (\E c \in Calls : Issue(c) \/ Decide(c) \/ Answer(c)) \/ Lose

Spec == Init /\ [][Next]_phase

FairSpec ==
  Spec /\ \A c \in Calls : WF_phase(Decide(c)) /\ WF_phase(Answer(c))
=============================================================================

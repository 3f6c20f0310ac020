--------------------------- MODULE MCRCNetworking ---------------------------
(* Small instances of RCAPIManager for TLC.                                 *)
EXTENDS RCAPIManager, TLC

CONSTANTS m1, m2, s1

(* One session for the whole app, both cache layers.                        *)
OneSession == [m \in {m1, m2} |-> s1]
BothLayers == [m \in {m1, m2} |-> {"memory", "disk"}]

(* A session per request, as with the service of the demo; no cache.        *)
SessionPerRequest == [m \in {m1, m2} |-> NoSession]
NoLayers == [m \in {m1, m2} |-> {}]

ManagerSymmetry == Permutations({m1, m2})

Bodies == 0..MaxCalls
=============================================================================

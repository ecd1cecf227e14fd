----------------------------- MODULE MCTopology -----------------------------
(* Topology on small networks: a coordinator, up to three routers and their *)
(* end devices.                                                             *)
EXTENDS Topology

Zero == 0
N(addr, type, relation) == [addr |-> addr, type |-> type, relation |-> relation]
Answers(table) == [ok |-> TRUE, table |-> table]
Refuses == [ok |-> FALSE, table |-> <<>>]

\* Two routers below the coordinator that are each other's siblings, one with an end device.
Fork == [n \in {0, 1, 2} |->
           Answers(CASE n = 0 -> <<N(1, "router", "child"), N(2, "router", "child")>>
                     [] n = 1 -> <<N(0, "coordinator", "parent"), N(2, "router", "sibling")>>
                     [] n = 2 -> <<N(3, "end", "child"), N(0, "coordinator", "parent")>>)]

\* Three routers, one below the other.  The third neighbour of 1 does not fit.  An end
\* device that has joined 1 is still known to 2.
Chain == [n \in {0, 1, 2} |->
           Answers(CASE n = 0 -> <<N(3, "end", "child"), N(1, "router", "child")>>
                     [] n = 1 -> <<N(2, "router", "child"), N(4, "end", "child"),
                                   N(0, "coordinator", "parent")>>
                     [] n = 2 -> <<N(1, "router", "parent"), N(4, "end", "none")>>)]

\* A router that does not support the request.
Deaf == [n \in {0, 1} |->
           IF n = 0 THEN Answers(<<N(1, "router", "child"), N(2, "end", "child")>>)
                    ELSE Refuses]

\* One router below the coordinator.
Pair == [n \in {0, 1} |->
           Answers(CASE n = 0 -> <<N(1, "router", "child")>>
                     [] n = 1 -> <<N(0, "coordinator", "parent")>>)]

\* Two routers that know each other in no relation: no tree to dataSendRcv.
Mutual == [n \in {0, 1, 2} |->
           Answers(CASE n = 0 -> <<N(1, "router", "child")>>
                     [] n = 1 -> <<N(2, "router", "none"), N(0, "coordinator", "parent")>>
                     [] n = 2 -> <<N(1, "router", "none"), N(3, "end", "child")>>)]

SmallMeshes == {Fork, Chain, Deaf, Pair, Mutual}

\* In dataSendRcv an early end leaves answers for all that follows: one mesh has to do.
SlowInSmall(p, m) == IF p = "dataSendRcv" /\ m # Pair THEN 0 ELSE 1

\* Where routers are asked for ever, a loss would let two threads ask, one inside the other.
LossInSmall(p, m) == IF p = "dataSendRcv" /\ m = Mutual THEN 0 ELSE 1
=============================================================================

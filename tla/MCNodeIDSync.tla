---------------------------- MODULE MCNodeIDSync ----------------------------
(***************************************************************************)
(* Instances of NodeIDSync for TLC.  One run looks at two scenarios, told  *)
(* apart by a variable that never changes: registrations over one          *)
(* connection, and connections that replace each other while the           *)
(* registrations stay as they are.                                         *)
(***************************************************************************)
EXTENDS NodeIDSync

VARIABLE scenario

mcVars == <<vars, scenario>>

\* A followed gateway has registered one of its nodes before anybody connects:
\* the state RegisterFrontService leads to from Init.
RegisteredInit ==
    /\ \E n \in Node :
          frontServiceInfos = [g \in Gateway |-> IF g \in Followed THEN {n} ELSE {}]
    /\ statusSeq = [g \in Gateway |-> IF g \in Followed THEN 2 ELSE 1]
    /\ peerGatewayNodes = [g \in Gateway |-> [n \in Node |-> {}]]
    /\ p2pID2Seq = [g \in Gateway |-> [p \in Gateway |-> NoSeq]]
    /\ nodeIDInfo = [g \in Gateway |-> [p \in Gateway |-> {}]]
    /\ updater = [g \in Gateway |-> "idle"]
    /\ conns = 0 /\ connecting = {} /\ pending = {} /\ tasks = {}
    /\ session = [g \in Gateway |-> [p \in Gateway |-> NoSession]]
    /\ running = [g \in Gateway |-> {}]
    /\ actived = [g \in Gateway |-> {}]

MCInit ==
    \/ scenario = "registrations" /\ Init
    \/ scenario = "reconnections" /\ RegisteredInit

\* Among reconnections, the connection whose ends are dropped by themselves is
\* the first one: the second goes only after its other end is closed.
LastingConn == 2

\* The bounds of a scenario only stop what has no fairness: dialling, drops of
\* an open connection, and the first step of a registration.
MCNext ==
    /\ Next
    /\ scenario = "registrations" => conns' <= 1
    /\ scenario = "reconnections" =>
          /\ UNCHANGED <<frontServiceInfos, statusSeq, updater>>
          /\ \A g, p \in Gateway :
                g # p /\ LastingConn \in actived[g] \ actived'[g]
                   => Closed(p, g, LastingConn)
    /\ UNCHANGED scenario

MCSpec == MCInit /\ [][MCNext]_mcVars

MCFairSpec == MCSpec /\ Fairness
=============================================================================

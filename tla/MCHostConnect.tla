---------------------------- MODULE MCHostConnect ----------------------------
(* An instance of HostConnect for TLC, in two scenarios: a service that is never  *)
(* stopped, and one that knows already where it listens itself and may be stopped *)
(* at any time.                                                                   *)
EXTENDS HostConnect, TLC

CONSTANTS e1, e2, p1

VARIABLE scenario

\* One static node, and an endpoint where this gateway itself listens.
PeerAndSelf == (e1 :> p1) @@ (e2 :> Self)

MCInit ==
    /\ \/ scenario = "lasting" /\ Init
       \/ /\ scenario = "stopping"
          /\ staticNodes = [e \in Endpoint |-> IF PeerAt[e] = Self THEN Self ELSE NoID]
          /\ InitButStaticNodes

MCNext ==
    /\ Next
    /\ scenario = "lasting" => running' = running
    /\ UNCHANGED scenario

MCFairSpec == MCInit /\ [][MCNext]_<<vars, scenario>> /\ Fairness
=============================================================================

-------------------------------- MODULE MCCore --------------------------------
(* Model for TLC of three components of core/ that share no state: a         *)
(* connection between two endpoints, a router, and a heartbeat sender with   *)
(* its health service and the shutdown of its endpoint.  A behaviour runs    *)
(* one of them; their product would add nothing but interleavings of         *)
(* independent steps.                                                        *)
(*                                                                           *)
(* MaxFrameSize is the code's; of the sizes, the first is the largest that   *)
(* is received, the second is encoded and not received, and Encode refuses   *)
(* the third.  The health service's timeout is three intervals, as on the    *)
(* server.                                                                   *)
EXTENDS FrameLink, Router, Heartbeat

CONSTANTS app, heartbeat

VARIABLE running

Megabyte == 1048576
SomeSizes == {Megabyte - 48, Megabyte - 47, Megabyte + 1}

coreVars == <<vars, routerVars, hbVars, running>>

CoreInit ==
    /\ Init /\ NewRouter /\ HeartbeatInit
    /\ \/ running = "link"
       \/ running \in {"router", "heartbeat"} /\ direction = "toServer"

CoreNext ==
    /\ UNCHANGED running
    /\ \/ running = "link" /\ Next /\ UNCHANGED <<routerVars, hbVars>>
       \/ running = "router" /\ RouterNext /\ UNCHANGED <<vars, hbVars>>
       \/ running = "heartbeat" /\ HeartbeatNext /\ UNCHANGED <<vars, routerVars>>

CoreSpec ==
    /\ CoreInit /\ [][CoreNext]_coreVars
    /\ LinkFairness         \* asks nothing of a link on which nothing is sent
    /\ HeartbeatFairness    \* nor of a sender that was never started
=============================================================================

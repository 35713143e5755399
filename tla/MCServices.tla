------------------------------ MODULE MCServices ------------------------------
(* Model for TLC of two components of services/ that share no state: the     *)
(* broker (three services, one of which subscribes twice, two of equal       *)
(* priority) and the policy engine.  A behaviour runs one of them; their     *)
(* product would add nothing but interleavings of independent steps.         *)
EXTENDS Broker, PolicyEngine

VARIABLE running

Sub(s, e, t, p) == [service |-> s, endpoint |-> e, transport |-> t, priority |-> p]
SomeSubs ==
    {Sub("a", 1, "socket", 1), Sub("a", 2, "shm", 0), Sub("b", 3, "shm", 1),
     Sub("c", 4, "shm", 0)}

(* LoadSafeDefaults with one controlled and one restricted action. *)
SomeDefaults ==
    <<[action |-> "device:write", rule |-> [verdict |-> "allow", capability |-> "device:write"]],
      [action |-> "system:reboot", rule |-> [verdict |-> "confirm", capability |-> ""]]>>

servicesVars == <<vars, policyVars, running>>

ServicesInit ==
    /\ Init /\ NewEngine
    /\ \/ running = "broker" /\ defaultDeny
       \/ running = "policy"

ServicesNext ==
    /\ UNCHANGED running
    /\ \/ running = "broker" /\ Next /\ UNCHANGED policyVars
       \/ running = "policy" /\ PolicyNext /\ UNCHANGED vars

ServicesSpec == ServicesInit /\ [][ServicesNext]_servicesVars
=============================================================================

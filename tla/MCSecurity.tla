------------------------------ MODULE MCSecurity ------------------------------
(* Model for TLC of two components of security/ that share no state: the    *)
(* replay tracker (numbers 0..8, window 3, so a number can fall out of the  *)
(* window in several ways) and the keyring (two ids, three entries, three   *)
(* moments).  A behaviour runs one of them; their product would add nothing *)
(* but interleavings of independent steps.                                  *)
EXTENDS ReplayTracker, Keyring

VARIABLE running

Window == 3
Largest == 8

securityVars == <<vars, krVars, running>>

SecurityInit == Init /\ NewKeyring /\ running \in {"replay", "keyring"}

SecurityNext ==
    /\ UNCHANGED running
    /\ \/ running = "replay" /\ Next /\ UNCHANGED krVars
       \/ running = "keyring" /\ KeyringNext /\ UNCHANGED vars

SecuritySpec == SecurityInit /\ [][SecurityNext]_securityVars
=============================================================================

----------------------------- MODULE ReplayGuard -----------------------------
(***************************************************************************)
(* What a receiver may rely on when it filters sequence numbers through a  *)
(* replay tracker: between two resets every number is let through at most  *)
(* once.  How the tracker remembers what it let through is left open.      *)
(***************************************************************************)
CONSTANT Seqs    \* the sequence numbers a frame header can carry

VARIABLES
    delivered,   \* numbers let through since the last reset
    verdict      \* the answer to the most recent query

Verdicts == {"none", "ok", "ErrReplay"}

Init ==
    /\ delivered = {}
    /\ verdict = "none"

Deliver(seq) ==
    /\ seq \notin delivered
    /\ delivered' = delivered \cup {seq}
    /\ verdict' = "ok"

Refuse ==
    /\ verdict' = "ErrReplay"
    /\ UNCHANGED delivered

Forget ==
    /\ delivered' = {}
    /\ verdict' = "none"

Next == (\E seq \in Seqs : Deliver(seq)) \/ Refuse \/ Forget

Spec == Init /\ [][Next]_<<delivered, verdict>>
=============================================================================

----------------------------- MODULE BoundedQueue -----------------------------
(***************************************************************************)
(* What a message buffer promises: items come out once, in the order they  *)
(* went in, and at most Capacity of them wait.                             *)
(***************************************************************************)
EXTENDS Naturals, Sequences

CONSTANTS Items, Capacity

VARIABLES
    q,      \* the items waiting
    got     \* the item taken last

qVars == <<q, got>>

QInit == q = <<>> /\ got \notin Items

Put(x) ==
    /\ Len(q) < Capacity
    /\ q' = Append(q, x)
    /\ UNCHANGED got

Take ==
    /\ q # <<>>
    /\ got' = Head(q)
    /\ q' = Tail(q)

QNext == (\E x \in Items : Put(x)) \/ Take

QSpec == QInit /\ [][QNext]_qVars
=============================================================================

---------------------------- MODULE ReplayTracker ----------------------------
(***************************************************************************)
(* security/replay/tracker.go: the sliding-window replay tracker that      *)
(* every ServerEndpoint consults for each frame it receives.  Check and    *)
(* Reset hold the tracker's mutex from the first line to the last, so each *)
(* is one step.  Sequence numbers are uint64; none of the subtractions in  *)
(* the code can wrap (each is guarded), so they are modelled in Nat.       *)
(***************************************************************************)
EXTENDS Integers, FiniteSets

CONSTANTS
    WindowSize,   \* t.windowSize
    MaxSeq        \* the largest sequence number, 2^64 - 1 in the code

ASSUME TrackerAssumption ==
    /\ WindowSize \in Nat \ {0}
    /\ MaxSeq \in Nat \ {0}

VARIABLES
    maxSeen,      \* t.maxSeen
    seen,         \* the keys of t.seen
    accepted,     \* history: for each number, how often Check returned nil
                  \* for it since the tracker was created or last reset
    last          \* the last number checked and Check's answer

trackerVars == <<maxSeen, seen>>
vars == <<maxSeen, seen, accepted, last>>

Seqs == 0 .. MaxSeq
Nothing == [seq |-> 0, err |-> "none"]

TypeOK ==
    /\ maxSeen \in Seqs
    /\ seen \in SUBSET Seqs
    /\ accepted \in [Seqs -> Nat]
    /\ last \in [seq : Seqs, err : {"none", "ok", "ErrReplay"}]

NewTracker ==
    /\ maxSeen = 0
    /\ seen = {}

Init ==
    /\ NewTracker
    /\ accepted = [s \in Seqs |-> 0]
    /\ last = Nothing
-----------------------------------------------------------------------------
(* Mutations of the definitions below, one per property. *)
cleanup_drops_edge(newMax, s) ==
    LET cutoff == IF newMax > WindowSize THEN newMax - WindowSize ELSE 0
    IN {q \in s : q > cutoff}

Reset_keeps_seen ==
    /\ maxSeen' = 0
    /\ accepted' = [s \in Seqs |-> 0]
    /\ last' = Nothing
    /\ UNCHANGED seen

Fill_forgets(seq) ==
    /\ seq # 0
    /\ seq <= maxSeen
    /\ maxSeen - seq <= WindowSize
    /\ seq \notin seen
    /\ accepted' = [accepted EXCEPT ![seq] = @ + 1]
    /\ last' = [seq |-> seq, err |-> "ok"]
    /\ UNCHANGED <<maxSeen, seen>>
-----------------------------------------------------------------------------
(* t.cleanup(), called with the new maximum already stored. *)
cleanup(newMax, s) ==
    LET cutoff == IF newMax > WindowSize THEN newMax - WindowSize ELSE 0
    IN {q \in s : q >= cutoff}

TooOld(seq) == maxSeen - seq > WindowSize

Answer(seq, err) == last' = [seq |-> seq, err |-> err]

Record(seq) ==
    /\ accepted' = [accepted EXCEPT ![seq] = @ + 1]
    /\ Answer(seq, "ok")

(* Check, a number above every earlier one: the window slides. *)
Advance(seq) ==
    /\ seq > maxSeen
    /\ maxSeen' = seq
    /\ seen' = cleanup(seq, seen) \cup {seq}
    /\ Record(seq)

(* Check, a late number inside the window that has not been seen. *)
Fill(seq) ==
    /\ seq # 0
    /\ seq <= maxSeen
    /\ ~TooOld(seq)
    /\ seq \notin seen
    /\ seen' = seen \cup {seq}
    /\ Record(seq)
    /\ UNCHANGED maxSeen

(* Check, the three ways of returning ErrReplay. *)
Refuse(seq) ==
    /\ \/ seq = 0
       \/ seq <= maxSeen /\ (TooOld(seq) \/ seq \in seen)
    /\ Answer(seq, "ErrReplay")
    /\ UNCHANGED <<maxSeen, seen, accepted>>

Check(seq) == Advance(seq) \/ Fill(seq) \/ Refuse(seq)

Reset ==
    /\ maxSeen' = 0
    /\ seen' = {}
    /\ accepted' = [s \in Seqs |-> 0]
    /\ last' = Nothing

Next == (\E seq \in Seqs : Check(seq)) \/ Reset

Spec == Init /\ [][Next]_vars
-----------------------------------------------------------------------------
Delivered == {s \in Seqs : accepted[s] > 0}

(* Check never returns nil twice for one number (until a Reset), however   *)
(* far the window has slid in between: what cleanup deletes must be        *)
(* exactly what the age test refuses.                                      *)
AcceptedAtMostOnce == \A s \in Seqs : accepted[s] <= 1

(* t.seen is the set of accepted numbers that the age test would still let *)
(* through: nothing is forgotten too early, nothing is kept that the age   *)
(* test refuses anyway.                                                    *)
SeenIsWindow == seen = {s \in Delivered : ~TooOld(s)}

(* Check refuses a number only for cause: it is zero, it was accepted      *)
(* before, or it is more than WindowSize behind the largest one accepted.  *)
(* In-window reordering never loses a message.                             *)
RefusalHasCause ==
    last.err = "ErrReplay" =>
        last.seq = 0 \/ last.seq \in Delivered \/ TooOld(last.seq)

(* The memory a connection's tracker holds stays bounded for ever.         *)
MemoryBounded == Cardinality(seen) <= WindowSize + 1

(* The tracker implements the abstract at-most-once filter. *)
Guard == INSTANCE ReplayGuard WITH
    delivered <- Delivered, verdict <- last.err

GuardSpec == Guard!Spec
=============================================================================

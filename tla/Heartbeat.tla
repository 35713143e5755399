------------------------------ MODULE Heartbeat ------------------------------
(***************************************************************************)
(* core/lifecycle.go and services/health/health.go: a HeartbeatSender on   *)
(* an endpoint, the health service of the peer that records its beats, and *)
(* GracefulShutdown of the endpoint.  Time passes in whole units and is    *)
(* kept as ages and countdowns, which saturate, so that it can pass for    *)
(* ever.  A beat is as old as the tick of the ticker that caused it.       *)
(***************************************************************************)
EXTENDS Naturals, Sequences

CONSTANTS
    Interval,       \* HeartbeatConfig.Interval (5 s on the server's side)
    Timeout,        \* of the health service (15 s)
    ShutdownTime,   \* the timeout of GracefulShutdown
    MaxDelay,       \* from a tick to its record, while the network is calm
    MaxLost,        \* beats lost in a row, while the network is calm
    MaxFlight       \* bound: beats on their way

ASSUME HeartbeatAssumption ==
    /\ Interval \in Nat \ {0} /\ ShutdownTime \in Nat
    /\ MaxDelay \in Nat /\ MaxLost \in Nat /\ MaxFlight \in Nat
    /\ Timeout \in Nat /\ Timeout >= (MaxLost + 1) * Interval + MaxDelay

VARIABLES
    untilTick,      \* time to the next tick of the ticker
    tickCh,         \* ticker.C, a channel of capacity 1: the age of its tick
    loop,           \* the goroutine of Start: "off", "select", "send", "ended"
    sending,        \* the age of the beat in endpoint.Send
    stopped,        \* h.stopped; stopCh is closed with it
    flight,         \* the ages of the beats on their way, oldest first
    silence,        \* the time since LastSeen; Never before the first record
    lost,           \* history: beats lost in a row
    calm,           \* history: no beat came late, never too many were lost
                    \* in a row, and the sender and its endpoint are in use
    open,           \* the endpoint is open
    closer,         \* the goroutine of GracefulShutdown
    doneCh,         \* done, a channel of capacity 1: what it holds
    shutdown,       \* the caller of GracefulShutdown
    waited          \* how long it has waited

senderVars == <<untilTick, tickCh, loop, sending, stopped>>
healthVars == <<flight, silence>>
histVars == <<lost, calm>>
shutdownVars == <<open, closer, doneCh, shutdown, waited>>
hbVars == <<senderVars, healthVars, histVars, shutdownVars>>

None == MaxDelay + 2
Late == MaxDelay + 1
Never == Timeout + 2
Ages == 0 .. Late

HeartbeatTypeOK ==
    /\ untilTick \in 1 .. Interval
    /\ tickCh \in Ages \cup {None} /\ sending \in Ages \cup {None}
    /\ loop \in {"off", "select", "send", "ended"} /\ stopped \in BOOLEAN
    /\ flight \in Seq(Ages) /\ Len(flight) <= MaxFlight
    /\ silence \in 0 .. Never /\ lost \in 0 .. MaxLost + 1 /\ calm \in BOOLEAN
    /\ open \in BOOLEAN /\ doneCh \in {"empty", "result"}
    /\ closer \in {"none", "closing", "closed", "ended"}
    /\ shutdown \in {"none", "waiting", "result", "timed out"}
    /\ waited \in 0 .. ShutdownTime

HeartbeatInit ==
    /\ untilTick = Interval /\ tickCh = None
    /\ loop = "off" /\ sending = None /\ stopped = FALSE
    /\ flight = <<>> /\ silence = Never
    /\ lost = 0 /\ calm = TRUE
    /\ open = TRUE /\ closer = "none" /\ doneCh = "empty"
    /\ shutdown = "none" /\ waited = 0

Older(age) == IF age = None THEN None ELSE IF age < Late THEN age + 1 ELSE Late
AtMost(n, bound) == IF n < bound THEN n ELSE bound

(* One more beat is lost. *)
Lose ==
    /\ lost' = AtMost(lost + 1, MaxLost + 1)
    /\ calm' = (calm /\ lost < MaxLost)
-----------------------------------------------------------------------------
(* Mutations of the definitions below, one per property. *)
IsAlive_strict == silence < Timeout
StopRequested_ignored == FALSE
CanPut_unbuffered == shutdown = "waiting"

(* IsAlive and LivePeers: LastSeen is not more than the timeout ago. *)
IsAlive == silence <= Timeout

(* case <-h.stopCh is ready. *)
StopRequested == stopped

(* The goroutine of GracefulShutdown can put its result into done. *)
CanPut == doneCh = "empty"

Start ==
    /\ loop = "off"
    /\ loop' = "select"
    /\ UNCHANGED <<untilTick, tickCh, sending, stopped, healthVars, histVars, shutdownVars>>

(* A unit of time passes: everything on its way grows older, and the       *)
(* ticker may fire; a tick that finds the channel full is dropped.  Time   *)
(* before Start is left out.                                               *)
Pass ==
    LET fires == untilTick = 1 /\ loop # "ended"
        drops == fires /\ tickCh # None
        aged == [i \in DOMAIN flight |-> Older(flight[i])]
        late == \/ Older(tickCh) = Late \/ Older(sending) = Late
                \/ \E i \in DOMAIN aged : aged[i] = Late
    IN
    /\ loop # "off"
    /\ untilTick' = IF untilTick = 1 THEN Interval ELSE untilTick - 1
    /\ tickCh' = IF fires /\ ~drops THEN 0 ELSE Older(tickCh)
    /\ sending' = Older(sending)
    /\ flight' = aged
    /\ silence' = IF silence = Never THEN Never ELSE AtMost(silence + 1, Timeout + 1)
    /\ lost' = IF drops THEN AtMost(lost + 1, MaxLost + 1) ELSE lost
    /\ calm' = (calm /\ ~late /\ (drops => lost < MaxLost))
    /\ waited' = IF shutdown = "waiting" THEN AtMost(waited + 1, ShutdownTime) ELSE waited
    /\ UNCHANGED <<loop, stopped, open, closer, doneCh, shutdown>>

(* The select of Start: a ready case is taken; if both are, either. *)
TakeTick ==
    /\ loop = "select" /\ tickCh # None
    /\ loop' = "send"
    /\ sending' = tickCh /\ tickCh' = None
    /\ UNCHANGED <<untilTick, stopped, healthVars, histVars, shutdownVars>>

TakeStop ==
    /\ loop = "select" /\ StopRequested
    /\ loop' = "ended" /\ tickCh' = None
    /\ UNCHANGED <<untilTick, sending, stopped, healthVars, histVars, shutdownVars>>

(* endpoint.Send returns; its error is only printed. *)
SendReturns ==
    /\ loop = "send"
    /\ loop' = "select" /\ sending' = None
    /\ \/ /\ open /\ Len(flight) < MaxFlight
          /\ flight' = Append(flight, sending)
          /\ UNCHANGED histVars
       \/ Lose /\ UNCHANGED flight
    /\ UNCHANGED <<untilTick, tickCh, stopped, silence, shutdownVars>>

Stop ==
    /\ stopped' = TRUE
    /\ calm' = FALSE
    /\ UNCHANGED <<untilTick, tickCh, loop, sending, healthVars, lost, shutdownVars>>

(* The peer's handler of TypeHeartbeat: RecordHeartbeat. *)
Record ==
    /\ flight # <<>>
    /\ flight' = Tail(flight)
    /\ silence' = 0
    /\ lost' = 0
    /\ UNCHANGED <<senderVars, calm, shutdownVars>>

(* A beat on its way gets lost: refused, or its connection broke. *)
Vanish ==
    /\ flight # <<>>
    /\ flight' = Tail(flight)
    /\ Lose
    /\ UNCHANGED <<senderVars, silence, shutdownVars>>

GracefulShutdown ==
    /\ shutdown = "none" /\ loop # "off"
    /\ shutdown' = "waiting" /\ closer' = "closing"
    /\ UNCHANGED <<senderVars, healthVars, histVars, open, doneCh, waited>>

(* endpoint.Close returns, if it does. *)
CloseReturns ==
    /\ closer = "closing"
    /\ closer' = "closed" /\ open' = FALSE
    /\ calm' = FALSE
    /\ UNCHANGED <<senderVars, healthVars, lost, doneCh, shutdown, waited>>

(* done <- err *)
PutResult ==
    /\ closer = "closed" /\ CanPut
    /\ closer' = "ended" /\ doneCh' = "result"
    /\ UNCHANGED <<senderVars, healthVars, histVars, open, shutdown, waited>>

(* The select of GracefulShutdown. *)
TakeResult ==
    /\ shutdown = "waiting" /\ doneCh = "result"
    /\ shutdown' = "result" /\ doneCh' = "empty"
    /\ UNCHANGED <<senderVars, healthVars, histVars, open, closer, waited>>

TakeTimeout ==
    /\ shutdown = "waiting" /\ waited = ShutdownTime
    /\ shutdown' = "timed out"
    /\ UNCHANGED <<senderVars, healthVars, histVars, open, closer, doneCh, waited>>

HeartbeatNext ==
    \/ Pass
    \/ Start \/ TakeTick \/ TakeStop \/ SendReturns \/ Stop
    \/ Record \/ Vanish
    \/ GracefulShutdown \/ CloseReturns \/ PutResult \/ TakeResult \/ TakeTimeout

HeartbeatSpec == HeartbeatInit /\ [][HeartbeatNext]_hbVars

(* Time passes; a goroutine that can go on does.  Go's select picks among  *)
(* ready cases at random, so one that is ready again and again is taken.   *)
(* Send, Close and the network owe nothing.                                *)
HeartbeatFairness ==
    /\ WF_hbVars(Pass)
    /\ SF_hbVars(TakeStop)
    /\ WF_hbVars(PutResult)
    /\ WF_hbVars(TakeResult \/ TakeTimeout)
-----------------------------------------------------------------------------
(* While beats are recorded within MaxDelay of their tick and no more than *)
(* MaxLost in a row fail, IsAlive never reports a peer dead that it has    *)
(* heard of: the server's timeout of three intervals bridges a lost beat   *)
(* followed by a late one.                                                 *)
NoFalseAlarm == calm /\ silence # Never => IsAlive

(* After Stop the health service reports the peer dead and does not change *)
(* its mind, also if the loop was in Send, if a tick was waiting beside    *)
(* the stop, or if beats were still on their way.                          *)
StoppedIsNoticed == stopped ~> [](~IsAlive)

(* GracefulShutdown returns although Close may hang, and once Close has    *)
(* returned its goroutine ends, also when nobody waits for the result.     *)
ShutdownEnds ==
    /\ (shutdown = "waiting") ~> (shutdown \in {"result", "timed out"})
    /\ (closer = "closed") ~> (closer = "ended")
=============================================================================

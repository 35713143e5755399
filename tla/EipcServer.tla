------------------------------ MODULE EipcServer ------------------------------
(***************************************************************************)
(* cmd/eipc-server/main.go: the accept loop with its connection semaphore, *)
(* one handleConnection goroutine and one authentication timer per         *)
(* connection, the session cleanup goroutine, and the handlers the router  *)
(* dispatches to.  All connections share one Authenticator.                *)
(*                                                                         *)
(* Peers are the environment.  A peer may send any message at any time, or *)
(* none, or go away.  Peers share the secret, so one may answer with the   *)
(* HMAC of any nonce drawn so far, also one that was sent on another       *)
(* connection, or wrongly.  A Receive that fails for any reason (end of    *)
(* stream, a bad frame, ErrIntegrity, ErrReplay) looks the same to the     *)
(* handler, which returns.                                                 *)
(***************************************************************************)
EXTENDS Authenticator, FiniteSets

CONSTANTS
    Conns,          \* the connections peers make; each is made once
    MaxConns,       \* the capacity of connSem
    Capabilities,   \* the capability names messages carry
    ServiceCaps,    \* knownServices: service -> set of capabilities
    Allowlist,      \* the capability checker: capability -> set of actions
    Required,       \* message type with a capability-checked handler -> the
                    \* action that the handler checks
    Intents,        \* what the Intent field of an intent's payload may say
    Traffic         \* the messages peers send after the handshake

NoCapability == "none"
NoIntent == "none"
MsgTypes == DOMAIN Required \cup {"heartbeat", "unrouted"}
Messages == [type : MsgTypes, capability : Capabilities \cup {NoCapability},
             wellFormed : BOOLEAN, intent : Intents \cup {NoIntent}]

ASSUME ServerAssumption ==
    /\ IsFiniteSet(Conns)
    /\ MaxConns \in Nat \ {0}
    /\ NoCapability \notin Capabilities
    /\ ServiceCaps \in [Known -> SUBSET Capabilities]
    /\ DOMAIN Allowlist \subseteq Capabilities
    /\ DOMAIN Required \cap {"heartbeat", "unrouted"} = {}
    /\ Traffic \subseteq Messages

VARIABLES
    up,        \* the server process runs
    sem,       \* the number of tokens in connSem
    pc,        \* where the handler of each connection is
    open,      \* conn.Close has not been called on the server's side
    timer,     \* the goroutine that enforces the authentication deadline
    service,   \* authReq.ServiceID
    challenge, \* the nonce in the handler's challenge
    answer,    \* responseBytes
    peer,      \* the token in the handler's PeerIdentity
    msg,       \* the message the loop is handling
    audit,     \* the last entry logged for each connection
    late,      \* history: connections whose msg arrived after the session expired
    rivals     \* history: connections whose handshake for the same service
               \* was under way at the same time as this one's

connVars == <<pc, open, timer, service, challenge, answer, peer, msg>>
vars == <<authVars, up, sem, connVars, audit, late, rivals>>

NoService == Unknown
NoToken == 0
NoMsg == [type |-> "unrouted", capability |-> NoCapability, wellFormed |-> FALSE,
          intent |-> NoIntent]

Receiving == {"recvAuth", "recvResponse", "loop"}
Sending == {"sendDenied", "sendChallenge", "sendOk", "reply", "replyError"}
(* authDone is closed on leaving these. *)
Handshaking == {"recvAuth", "create", "sendChallenge", "recvResponse",
                "verify", "sendDenied", "verified"}
Serving == {"sendOk", "loop", "check", "dispatch", "reply", "replyError"}
Unwinding == {"closing", "releasing"}
PCs == {"idle", "rejected", "done"} \cup Handshaking \cup Serving \cup Unwinding

(* The handler goroutine of c runs and holds a slot of connSem. *)
Served(c) == pc[c] \in Handshaking \cup Serving \cup Unwinding

(* c is between CreateChallenge and VerifyResponse. *)
Contending(c) == pc[c] \in {"sendChallenge", "recvResponse", "verify"}

NoEntry == <<"nothing", "logged">>
(* The actions that entries name. *)
Actions ==
    {Required[type] : type \in DOMAIN Required} \cup Intents \cup {NoIntent}
    \cup {"connect", "authenticate", "session_check", "capability"}
AuditEntry == {NoEntry} \cup (Actions \X {"allowed", "denied"})
Log(c, action, decision) == audit' = [audit EXCEPT ![c] = <<action, decision>>]
Goto(c, label) == pc' = [pc EXCEPT ![c] = label]

(* The local variables of a handler that has returned. *)
Forget(c) ==
    /\ service' = [service EXCEPT ![c] = NoService]
    /\ challenge' = [challenge EXCEPT ![c] = NoNonce]
    /\ answer' = [answer EXCEPT ![c] = NoNonce]
    /\ peer' = [peer EXCEPT ![c] = NoToken]
    /\ msg' = [msg EXCEPT ![c] = NoMsg]
    /\ late' = late \ {c}

TypeOK ==
    /\ AuthTypeOK
    /\ up \in BOOLEAN
    /\ sem \in 0 .. MaxConns
    /\ pc \in [Conns -> PCs]
    /\ open \in [Conns -> BOOLEAN]
    /\ timer \in [Conns -> {"off", "waiting", "fired", "exited"}]
    /\ service \in [Conns -> Known \cup {Unknown}]
    /\ challenge \in [Conns -> Nonces \cup {NoNonce}]
    /\ answer \in [Conns -> Responses \cup {NoNonce}]
    /\ peer \in [Conns -> Nat]
    /\ msg \in [Conns -> Messages]
    /\ audit \in [Conns -> AuditEntry]
    /\ late \subseteq Conns
    /\ rivals \in [Conns -> SUBSET Conns]

Init ==
    /\ AuthInit
    /\ up = TRUE
    /\ sem = 0
    /\ pc = [c \in Conns |-> "idle"]
    /\ open = [c \in Conns |-> FALSE]
    /\ timer = [c \in Conns |-> "off"]
    /\ service = [c \in Conns |-> NoService]
    /\ challenge = [c \in Conns |-> NoNonce]
    /\ answer = [c \in Conns |-> NoNonce]
    /\ peer = [c \in Conns |-> NoToken]
    /\ msg = [c \in Conns |-> NoMsg]
    /\ audit = [c \in Conns |-> NoEntry]
    /\ late = {}
    /\ rivals = [c \in Conns |-> {}]
-----------------------------------------------------------------------------
(* Mutations of the definitions below, one per property. *)
CloseConn_releases_slot(c) ==
    /\ pc[c] = "closing"
    /\ Goto(c, "releasing")
    /\ sem' = sem - 1
    /\ UNCHANGED <<authVars, up, open, timer, service, challenge, answer, peer,
                   msg, audit, late, rivals>>

CloseConn_forgotten(c) ==
    /\ pc[c] = "closing"
    /\ Goto(c, "releasing")
    /\ UNCHANGED <<authVars, up, sem, open, timer, service, challenge, answer,
                   peer, msg, audit, late, rivals>>

ValidateCapability_accepts_all(c, cap) == TRUE

SessionExpired_never(c) == FALSE

TimerCloses_nothing(c) ==
    /\ timer[c] = "fired"
    /\ timer' = [timer EXCEPT ![c] = "exited"]
    /\ UNCHANGED <<authVars, up, sem, pc, open, service, challenge, answer, peer,
                   msg, audit, late, rivals>>

ReceiveFails_retries(c) ==
    /\ pc[c] \in Receiving
    /\ Goto(c, IF pc[c] = "loop" THEN "loop" ELSE "closing")
    /\ UNCHANGED <<authVars, up, sem, open, timer, service, challenge, answer,
                   peer, msg, audit, late, rivals>>
-----------------------------------------------------------------------------
(* The accept loop. *)
Accept(c) ==
    /\ up
    /\ pc[c] = "idle"
    /\ sem < MaxConns
    /\ sem' = sem + 1
    /\ Goto(c, "recvAuth")
    /\ open' = [open EXCEPT ![c] = TRUE]
    /\ timer' = [timer EXCEPT ![c] = "waiting"]
    /\ UNCHANGED <<authVars, up, service, challenge, answer, peer, msg, audit,
                   late, rivals>>

RejectConn(c) ==
    /\ up
    /\ pc[c] = "idle"
    /\ sem = MaxConns
    /\ Goto(c, "rejected")
    /\ Log(c, "connect", "denied")
    /\ UNCHANGED <<authVars, up, sem, open, timer, service, challenge, answer,
                   peer, msg, late, rivals>>

(* Accept fails and main returns, or the interrupt handler exits: the      *)
(* process ends and the operating system closes what it had open.          *)
Exit ==
    /\ up
    /\ up' = FALSE
    /\ sem' = 0
    /\ pc' = [c \in Conns |-> "done"]
    /\ open' = [c \in Conns |-> FALSE]
    /\ timer' = [c \in Conns |-> "exited"]
    /\ UNCHANGED <<authVars, service, challenge, answer, peer, msg, audit, late,
                   rivals>>
-----------------------------------------------------------------------------
(* The authentication timer: select between authDone and time.After.  A    *)
(* goroutine parked in the select is woken by whichever comes first, so it *)
(* may have chosen the deadline when authDone is closed a moment later.    *)
TimerFires(c) ==
    /\ timer[c] = "waiting"
    /\ pc[c] \in Handshaking
    /\ timer' = [timer EXCEPT ![c] = "fired"]
    /\ UNCHANGED <<authVars, up, sem, pc, open, service, challenge, answer, peer,
                   msg, audit, late, rivals>>

TimerCloses(c) ==
    /\ timer[c] = "fired"
    /\ timer' = [timer EXCEPT ![c] = "exited"]
    /\ open' = [open EXCEPT ![c] = FALSE]
    /\ UNCHANGED <<authVars, up, sem, pc, service, challenge, answer, peer, msg,
                   audit, late, rivals>>

TimerExits(c) ==
    /\ timer[c] = "waiting"
    /\ pc[c] \notin Handshaking
    /\ timer' = [timer EXCEPT ![c] = "exited"]
    /\ UNCHANGED <<authVars, up, sem, pc, open, service, challenge, answer, peer,
                   msg, audit, late, rivals>>
-----------------------------------------------------------------------------
(* Steps every part of handleConnection has in common. *)

(* endpoint.Receive returns an error, or during the handshake a message of *)
(* the wrong type or one that does not decode: the handler returns.        *)
ReceiveFails(c) ==
    /\ pc[c] \in Receiving
    /\ Goto(c, "closing")
    /\ UNCHANGED <<authVars, up, sem, open, timer, service, challenge, answer,
                   peer, msg, audit, late, rivals>>

SendSucceeds(c) ==
    /\ pc[c] \in Sending
    /\ open[c]
    /\ Goto(c, CASE pc[c] = "sendChallenge" -> "recvResponse"
                 [] pc[c] = "sendDenied" -> "closing"
                 [] OTHER -> "loop")
    /\ msg' = [msg EXCEPT ![c] = NoMsg]
    /\ UNCHANGED <<authVars, up, sem, open, timer, service, challenge, answer,
                   peer, audit, late, rivals>>

(* Only an error acknowledgement may fail to be sent without ending the    *)
(* connection.                                                             *)
SendFails(c) ==
    /\ pc[c] \in Sending
    /\ Goto(c, IF pc[c] = "replyError" THEN "loop" ELSE "closing")
    /\ msg' = [msg EXCEPT ![c] = NoMsg]
    /\ UNCHANGED <<authVars, up, sem, open, timer, service, challenge, answer,
                   peer, audit, late, rivals>>

(* The deferred conn.Close, and then the deferred receive from connSem. *)
CloseConn(c) ==
    /\ pc[c] = "closing"
    /\ Goto(c, "releasing")
    /\ open' = [open EXCEPT ![c] = FALSE]
    /\ UNCHANGED <<authVars, up, sem, timer, service, challenge, answer, peer,
                   msg, audit, late, rivals>>

ReleaseSlot(c) ==
    /\ pc[c] = "releasing"
    /\ Goto(c, "done")
    /\ sem' = sem - 1
    /\ Forget(c)
    /\ UNCHANGED <<authVars, up, open, timer, audit, rivals>>
-----------------------------------------------------------------------------
(* The handshake. *)
RecvAuth(c, s) ==
    /\ pc[c] = "recvAuth"
    /\ open[c]
    /\ service' = [service EXCEPT ![c] = s]
    /\ Goto(c, "create")
    /\ UNCHANGED <<authVars, up, sem, open, timer, challenge, answer, peer, msg,
                   audit, late, rivals>>

ChallengeCreated(c) ==
    LET contenders == {d \in Conns : Contending(d) /\ service[d] = service[c]}
    IN  /\ pc[c] = "create"
        /\ \E n \in Nonces :
              /\ CreateChallenge(service[c], n)
              /\ challenge' = [challenge EXCEPT ![c] = n]
        /\ Goto(c, "sendChallenge")
        /\ rivals' = [d \in Conns |->
                        IF d = c THEN contenders
                        ELSE IF d \in contenders THEN rivals[d] \cup {c}
                        ELSE rivals[d]]
        /\ UNCHANGED <<up, sem, open, timer, service, answer, peer, msg, audit, late>>

ChallengeRefused(c) ==
    /\ pc[c] = "create"
    /\ CreateChallengeFails(service[c])
    /\ Log(c, "authenticate", "denied")
    /\ Goto(c, "sendDenied")
    /\ UNCHANGED <<up, sem, open, timer, service, challenge, answer, peer, msg,
                   late, rivals>>

RecvResponse(c, r) ==
    /\ pc[c] = "recvResponse"
    /\ open[c]
    /\ answer' = [answer EXCEPT ![c] = r]
    /\ Goto(c, "verify")
    /\ UNCHANGED <<authVars, up, sem, open, timer, service, challenge, peer, msg,
                   audit, late, rivals>>

(* A response that is not hexadecimal is dropped without an audit entry. *)
RecvUndecodable(c) ==
    /\ pc[c] = "recvResponse"
    /\ open[c]
    /\ answer' = [answer EXCEPT ![c] = BadMac]
    /\ Goto(c, "closing")
    /\ UNCHANGED <<authVars, up, sem, open, timer, service, challenge, peer, msg,
                   audit, late, rivals>>

ResponseAccepted(c) ==
    /\ pc[c] = "verify"
    /\ VerifyResponse(service[c], answer[c])
    /\ peer' = [peer EXCEPT ![c] = Len(grants')]
    /\ Goto(c, "verified")
    /\ UNCHANGED <<up, sem, open, timer, service, challenge, answer, msg, audit,
                   late, rivals>>

ResponseRefused(c) ==
    /\ pc[c] = "verify"
    /\ VerifyResponseFails(service[c], answer[c])
    /\ Log(c, "authenticate", "denied")
    /\ Goto(c, "sendDenied")
    /\ UNCHANGED <<up, sem, open, timer, service, challenge, answer, peer, msg,
                   late, rivals>>

(* close(authDone), the audit entry and SetPeerCapabilities. *)
AuthCompleted(c) ==
    /\ pc[c] = "verified"
    /\ Log(c, "authenticate", "allowed")
    /\ Goto(c, "sendOk")
    /\ UNCHANGED <<authVars, up, sem, open, timer, service, challenge, answer,
                   peer, msg, late, rivals>>
-----------------------------------------------------------------------------
(* The message loop. *)
PeerCapabilities(c) == ServiceCaps[grants[peer[c]].service]

ValidateCapability(c, cap) == cap = NoCapability \/ cap \in PeerCapabilities(c)

(* Checker.Check with the one capability the message carries. *)
Permits(cap, action) == cap \in DOMAIN Allowlist /\ action \in Allowlist[cap]

SessionExpired(c) == IsExpired(peer[c])

RecvMessage(c, m) ==
    /\ pc[c] = "loop"
    /\ open[c]
    /\ msg' = [msg EXCEPT ![c] = m]
    /\ late' = IF IsExpired(peer[c]) THEN late \cup {c} ELSE late
    /\ Goto(c, "check")
    /\ UNCHANGED <<authVars, up, sem, open, timer, service, challenge, answer,
                   peer, audit, rivals>>

CheckExpired(c) ==
    /\ pc[c] = "check"
    /\ SessionExpired(c)
    /\ Log(c, "session_check", "denied")
    /\ Goto(c, "closing")
    /\ UNCHANGED <<authVars, up, sem, open, timer, service, challenge, answer,
                   peer, msg, late, rivals>>

CheckCapability(c) ==
    /\ pc[c] = "check"
    /\ ~SessionExpired(c)
    /\ \/ /\ ValidateCapability(c, msg[c].capability)
          /\ Goto(c, "dispatch")
          /\ UNCHANGED audit
       \/ /\ ~ValidateCapability(c, msg[c].capability)
          /\ Log(c, "capability", "denied")
          /\ Goto(c, "replyError")
    /\ UNCHANGED <<authVars, up, sem, open, timer, service, challenge, answer,
                   peer, msg, late, rivals>>

(* The action of the entry a handler logs: of an intent the one its sender *)
(* names, though the handler checks another.                               *)
Audited(m) == IF m.type = "intent" THEN m.intent ELSE Required[m.type]

(* router.Dispatch to a capability-checked handler (intent, chat, complete). *)
DispatchChecked(c) ==
    LET m == msg[c]
    IN  /\ pc[c] = "dispatch"
        /\ m.type \in DOMAIN Required
        /\ \/ /\ ~m.wellFormed
              /\ Goto(c, "replyError")
              /\ UNCHANGED audit
           \/ /\ m.wellFormed
              /\ ~Permits(m.capability, Required[m.type])
              /\ Log(c, Audited(m), "denied")
              /\ Goto(c, "replyError")
           \/ /\ m.wellFormed
              /\ Permits(m.capability, Required[m.type])
              /\ Log(c, Audited(m), "allowed")
              /\ Goto(c, "reply")
        /\ UNCHANGED <<authVars, up, sem, open, timer, service, challenge,
                       answer, peer, msg, late, rivals>>

(* The heartbeat handler answers only a payload it cannot decode; a type   *)
(* without a handler is dropped.                                           *)
DispatchSilent(c) ==
    /\ pc[c] = "dispatch"
    /\ msg[c].type \notin DOMAIN Required
    /\ IF msg[c].type = "heartbeat" /\ ~msg[c].wellFormed
       THEN Goto(c, "replyError") /\ UNCHANGED msg
       ELSE Goto(c, "loop") /\ msg' = [msg EXCEPT ![c] = NoMsg]
    /\ UNCHANGED <<authVars, up, sem, open, timer, service, challenge, answer,
                   peer, audit, late, rivals>>
-----------------------------------------------------------------------------
(* The goroutine that calls authenticator.CleanupExpired on a ticker. *)
CleanupLoop ==
    /\ up
    /\ CleanupExpired
    /\ UNCHANGED <<up, sem, connVars, audit, late, rivals>>

Time == Tick /\ UNCHANGED <<up, sem, connVars, audit, late, rivals>>

(* What the handler and the timer of c do without waiting for the peer. *)
Local(c) ==
    \/ ChallengeCreated(c) \/ ChallengeRefused(c)
    \/ ResponseAccepted(c) \/ ResponseRefused(c) \/ AuthCompleted(c)
    \/ CheckExpired(c) \/ CheckCapability(c)
    \/ DispatchChecked(c) \/ DispatchSilent(c)
    \/ CloseConn(c) \/ ReleaseSlot(c)

TimerStep(c) == TimerFires(c) \/ TimerCloses(c) \/ TimerExits(c)

(* What happens only if the peer, or the network, does something. *)
PeerStep(c) ==
    \/ \E s \in Known \cup {Unknown} : RecvAuth(c, s)
    \/ \E r \in DOMAIN challenges \cup {BadMac} : RecvResponse(c, r)
    \/ RecvUndecodable(c)
    \/ \E m \in Traffic : RecvMessage(c, m)

Next ==
    \/ \E c \in Conns :
        \/ Accept(c) \/ RejectConn(c)
        \/ TimerStep(c) \/ Local(c) \/ PeerStep(c)
        \/ ReceiveFails(c) \/ SendSucceeds(c) \/ SendFails(c)
    \/ CleanupLoop
    \/ Time
    \/ Exit

Spec == Init /\ [][Next]_vars

(* Goroutines that can run do run; a Receive or a Send on a connection the *)
(* server has closed returns.  Nothing is assumed of peers: while the      *)
(* connection is open, a Receive may wait for ever and so may a Send.      *)
Fairness ==
    /\ \A c \in Conns :
        /\ WF_vars(Local(c))
        /\ WF_vars(TimerStep(c))
        /\ WF_vars(~open[c] /\ (ReceiveFails(c) \/ SendFails(c)))
    /\ WF_vars(CleanupLoop)
    /\ WF_vars(Time)

FairSpec == Spec /\ Fairness
-----------------------------------------------------------------------------
(* connSem counts exactly the handlers that run, and a slot is given back  *)
(* only after the connection is closed: at no moment are more than         *)
(* MaxConns connections open.                                              *)
SlotsMatchHandlers ==
    /\ sem = Cardinality({c \in Conns : Served(c)})
    /\ \A c \in Conns : open[c] => Served(c)

(* The session a handler serves is its own, is for the service its peer    *)
(* asked for, and was earned with a nonce drawn no earlier than the one    *)
(* this handler sent: an answer that was right in an earlier handshake     *)
(* admits nobody.  The authenticator keeps one challenge per service, not  *)
(* per connection, so among handshakes that overlap a peer may spend the   *)
(* challenge of another; without a rival it has answered the very one it   *)
(* was sent.                                                               *)
SessionFresh ==
    \A c \in Conns : pc[c] \in {"verified"} \cup Serving =>
        /\ peer[c] \in DOMAIN grants
        /\ grants[peer[c]].service = service[c]
        /\ grants[peer[c]].nonce >= challenge[c]
        /\ rivals[c] = {} => grants[peer[c]].nonce = challenge[c]
        /\ \A d \in Conns : peer[d] = peer[c] => d = c

(* A correct answer is refused only when another connection's handshake    *)
(* for the same service was under way at the same time (each CreateChallenge *)
(* overwrites the service's pending nonce).                                *)
RefusalNeedsRival ==
    \A c \in Conns :
        (/\ pc[c] = "verify"
         /\ answer[c] = challenge[c]
         /\ pendingChallenges[service[c]] # challenge[c])
        => rivals[c] # {}

(* A message is acknowledged only if the service that authenticated on the *)
(* connection holds a capability that permits what the handler requires,   *)
(* and the log says so: the capability a message names is checked twice,   *)
(* in the loop against the session and in the handler against the action,  *)
(* and both are needed.                                                    *)
ActionsAuthorised ==
    \A c \in Conns : pc[c] = "reply" =>
        /\ peer[c] \in DOMAIN grants
        /\ \E cap \in ServiceCaps[grants[peer[c]].service] :
              Permits(cap, Required[msg[c].type])
        /\ audit[c] = <<Audited(msg[c]), "allowed">>

(* A message that arrives after its session has expired is never           *)
(* dispatched, however long the connection sat idle.                       *)
LateNeverDispatched == \A c \in late : pc[c] \notin {"dispatch", "reply", "replyError"}

(* A connection does not stay unauthenticated: whatever the peer does or   *)
(* omits, the handshake ends.                                              *)
HandshakeEnds == \A c \in Conns : (pc[c] \in Handshaking) ~> (pc[c] \notin Handshaking)

(* Once the server has closed a connection its handler ends and gives its  *)
(* slot back.                                                              *)
ClosedIsReleased ==
    \A c \in Conns : (Served(c) /\ ~open[c]) ~> (pc[c] = "done")

(* The comment on the message loop: it has an idle timeout. *)
IdleConnectionsDropped == \A c \in Conns : (pc[c] = "loop") ~> (pc[c] # "loop")
=============================================================================

----------------------------- MODULE SystemProofs -----------------------------
(***************************************************************************)
(* Proofs about EipcServer, for every number of connections, slots,        *)
(* services, capabilities and messages, and about EipcSystem, the server   *)
(* with its clients and the streams between them.                          *)
(*                                                                         *)
(* The invariant of the server has a part for each handler (HandlerState:  *)
(* what it holds at each point of handleConnection), a part about pairs of *)
(* handlers that share the authenticator (no two hold the same challenge   *)
(* or session, handshakes for one service know of each other, the          *)
(* challenge that pends for a service is never older than one that is      *)
(* still out for it, and is that one if it has no rival), and the count of *)
(* slots.  A step of one handler leaves the part of every other one alone, *)
(* because the authenticator only adds to the challenges and sessions they *)
(* refer to.                                                               *)
(*                                                                         *)
(* The system adds that what is on its way on a connection, and what its   *)
(* client has learnt, agrees with what the handler holds (StreamState).    *)
(* Every step of the system is a step of the server or leaves the server's *)
(* variables alone, which is the refinement SystemRunsServer.              *)
(***************************************************************************)
EXTENDS EipcSystem, FiniteSetTheorems, TLAPS

(* TypeOK without the authenticator's variables and the count of slots. *)
ServerTypeOK ==
    /\ up \in BOOLEAN
    /\ pc \in [Conns -> PCs]
    /\ open \in [Conns -> BOOLEAN]
    /\ timer \in [Conns -> {"off", "waiting", "fired", "exited"}]
    /\ service \in [Conns -> Known \cup {Unknown}]
    /\ challenge \in [Conns -> Nonces \cup {NoNonce}]
    /\ answer \in [Conns -> Responses \cup {NoNonce}]
    /\ peer \in [Conns -> Nat]
    /\ msg \in [Conns -> Messages]
    /\ audit \in [Conns -> AuditEntry]
    /\ late \subseteq Conns
    /\ rivals \in [Conns -> SUBSET Conns]

(* Before a challenge is drawn, while one is out, and once it was answered. *)
Early == {"idle", "recvAuth", "create"}
Asked == {"sendChallenge", "recvResponse", "verify"}
Granted == {"verified"} \cup Serving

(* The handler's challenge was drawn for its service. *)
OwnChallenge(c) ==
    /\ pc[c] \in Early => challenge[c] = NoNonce
    /\ pc[c] \in Asked \cup Granted => challenge[c] # NoNonce
    /\ challenge[c] # NoNonce =>
        challenge[c] \in DOMAIN challenges /\ challenges[challenge[c]] = service[c]

(* Its session was earned with the answer it was given, to a challenge for *)
(* its service that is no older than its own.                              *)
OwnSession(c) ==
    /\ pc[c] \in Early \cup Asked => peer[c] = NoToken
    /\ pc[c] \in Granted => peer[c] # NoToken
    /\ peer[c] # NoToken =>
        /\ challenge[c] # NoNonce
        /\ peer[c] \in DOMAIN grants
        /\ grants[peer[c]].nonce = answer[c]
        /\ grants[peer[c]].nonce >= challenge[c]
        /\ grants[peer[c]].service = service[c]

(* A session that holds a capability which permits the action. *)
Entitled(t, action) ==
    /\ t \in DOMAIN grants
    /\ \E cap \in ServiceCaps[grants[t].service] :
          cap \in DOMAIN Allowlist /\ action \in Allowlist[cap]

(* What it dispatches and what it acknowledges was allowed to that session. *)
OwnActions(c) ==
    /\ pc[c] = "dispatch" => ValidateCapability(c, msg[c].capability)
    /\ pc[c] = "reply" =>
        /\ Entitled(peer[c], Required[msg[c].type])
        /\ audit[c] = <<Audited(msg[c]), "allowed">>
    /\ c \in late =>
        /\ pc[c] \in {"check", "done"} \cup Unwinding
        /\ peer[c] # NoToken /\ IsExpired(peer[c])

(* Only a handler that runs has an open connection. *)
OwnConn(c) ==
    /\ open[c] => Served(c)
    /\ pc[c] = "releasing" => ~open[c]

(* What a handler holds. *)
HandlerState(c) == OwnChallenge(c) /\ OwnSession(c) /\ OwnActions(c) /\ OwnConn(c)

(* No two handlers hold the same challenge. *)
ChallengesOwn ==
    \A c, d \in Conns : challenge[c] # NoNonce /\ challenge[c] = challenge[d] => c = d

(* Two handshakes for one service that are under way know of each other. *)
RivalsKnown ==
    \A c, d \in Conns :
        c # d /\ Contending(c) /\ Contending(d) /\ service[c] = service[d] => d \in rivals[c]

(* The challenge of a handshake without rivals still pends. *)
PendingHeld ==
    \A c \in Conns :
        Contending(c) /\ rivals[c] = {} => pendingChallenges[service[c]] = challenge[c]

(* What pends for a service is no older than a challenge still out for it. *)
PendingNewer ==
    \A c \in Conns :
        Contending(c) /\ pendingChallenges[service[c]] # NoNonce =>
            pendingChallenges[service[c]] >= challenge[c]

(* No two handlers hold the same session. *)
SessionsOwn ==
    \A c, d \in Conns : peer[c] # NoToken /\ peer[c] = peer[d] => c = d

(* Without rivals, a session was earned with the handler's own challenge. *)
EarnedAlone ==
    \A c \in Conns :
        peer[c] # NoToken /\ rivals[c] = {} => grants[peer[c]].nonce = challenge[c]

(* What holds of pairs of handlers. *)
Pairs ==
    /\ ChallengesOwn /\ RivalsKnown /\ PendingHeld /\ PendingNewer
    /\ SessionsOwn /\ EarnedAlone

(* connSem holds a token for each handler that runs. *)
Slots == sem \in 0 .. MaxConns /\ sem = Cardinality({c \in Conns : Served(c)})

(* The inductive invariant of the server. *)
SInv ==
    /\ ServerTypeOK /\ AuthTypeOK
    /\ \A c \in Conns : HandlerState(c)
    /\ Pairs /\ Slots
-----------------------------------------------------------------------------
(* Only the variables of c change, and they keep their types. *)
Moves(c) ==
    /\ pc' = [pc EXCEPT ![c] = pc'[c]] /\ pc'[c] \in PCs
    /\ open' = [open EXCEPT ![c] = open'[c]] /\ open'[c] \in BOOLEAN
    /\ timer' = [timer EXCEPT ![c] = timer'[c]]
    /\ timer'[c] \in {"off", "waiting", "fired", "exited"}
    /\ service' = [service EXCEPT ![c] = service'[c]] /\ service'[c] \in Known \cup {Unknown}
    /\ challenge' = [challenge EXCEPT ![c] = challenge'[c]]
    /\ challenge'[c] \in Nonces \cup {NoNonce}
    /\ answer' = [answer EXCEPT ![c] = answer'[c]] /\ answer'[c] \in Responses \cup {NoNonce}
    /\ peer' = [peer EXCEPT ![c] = peer'[c]] /\ peer'[c] \in Nat
    /\ msg' = [msg EXCEPT ![c] = msg'[c]] /\ msg'[c] \in Messages
    /\ audit' = [audit EXCEPT ![c] = audit'[c]] /\ audit'[c] \in AuditEntry
    /\ late \ {c} = late' \ {c} /\ late' \subseteq Conns
    /\ up' \in BOOLEAN

(* The variables of d are as they were. *)
Same(d) ==
    /\ pc'[d] = pc[d] /\ open'[d] = open[d] /\ service'[d] = service[d]
    /\ challenge'[d] = challenge[d] /\ answer'[d] = answer[d] /\ peer'[d] = peer[d]
    /\ msg'[d] = msg[d] /\ audit'[d] = audit[d] /\ (d \in late' <=> d \in late)

(* The authenticator's histories grow, and time does not go back. *)
Grows ==
    /\ \A n \in DOMAIN challenges : n \in DOMAIN challenges' /\ challenges'[n] = challenges[n]
    /\ \A t \in DOMAIN grants : t \in DOMAIN grants' /\ grants'[t] = grants[t]
    /\ now' \in Nat /\ now' >= now

(* A step of c keeps the types and does not touch the others. *)
LEMMA MovesEffect ==
    ASSUME ServerTypeOK, NEW c \in Conns, Moves(c), rivals' \in [Conns -> SUBSET Conns]
    PROVE  ServerTypeOK' /\ \A d \in Conns : d # c => Same(d)
  <1>1. ServerTypeOK'
    BY ZenonT(30) DEF ServerTypeOK, Moves
  <1>2. ASSUME NEW d \in Conns, d # c PROVE Same(d)
    BY <1>2 DEF ServerTypeOK, Moves, Same
  <1> QED BY <1>1, <1>2, Zenon

(* The state of a handler survives the steps of others. *)
LEMMA OthersKeep ==
    ASSUME ServerTypeOK, AuthTypeOK, NEW d \in Conns, HandlerState(d), Same(d), Grows
    PROVE  HandlerState(d)'
  <1>1. OwnChallenge(d)'
    BY Zenon DEF HandlerState, OwnChallenge, Same, Grows
  <1>2. OwnSession(d)'
    BY Zenon DEF HandlerState, OwnSession, Same, Grows
  <1>3. OwnConn(d)'
    BY Zenon DEF HandlerState, OwnConn, Same, Served
  <1>4. pc'[d] = "dispatch" => ValidateCapability(d, msg[d].capability)'
    <2>1. pc[d] = "dispatch" => PeerCapabilities(d)' = PeerCapabilities(d)
      BY Zenon DEF HandlerState, OwnSession, Same, Grows, PeerCapabilities, Granted, Serving
    <2> QED BY <2>1, Zenon DEF HandlerState, OwnActions, Same, ValidateCapability
  <1>5. ASSUME pc'[d] = "reply"
        PROVE  Entitled(peer[d], Required[msg[d].type])' /\ audit'[d] = <<Audited(msg'[d]), "allowed">>
    <2>1. Entitled(peer[d], Required[msg[d].type]) /\ audit[d] = <<Audited(msg[d]), "allowed">>
      BY <1>5, Zenon DEF HandlerState, OwnActions, Same
    <2>2. msg'[d] = msg[d] /\ audit'[d] = audit[d] /\ peer'[d] = peer[d]
      BY Zenon DEF Same
    <2>3. Entitled(peer[d], Required[msg[d].type])'
      BY <2>1, <2>2, Zenon DEF Entitled, Grows
    <2> QED BY <2>1, <2>2, <2>3, Zenon
  <1>6. ASSUME d \in late'
        PROVE  /\ pc'[d] \in {"check", "done"} \cup Unwinding
               /\ peer'[d] # NoToken /\ IsExpired(peer[d])'
    <2>1. /\ pc[d] \in {"check", "done"} \cup Unwinding
          /\ peer[d] # NoToken /\ IsExpired(peer[d]) /\ peer[d] \in DOMAIN grants
      BY <1>6, Zenon DEF HandlerState, OwnActions, OwnSession, Same
    <2>2. grants[peer[d]] \in PeerIdentity
      BY <2>1 DEF AuthTypeOK
    <2>3. now \in Nat /\ grants[peer[d]].ttl \in Nat /\ grants[peer[d]].created \in Nat
      BY <2>2, Zenon DEF AuthTypeOK, PeerIdentity
    <2>4. peer'[d] = peer[d] /\ grants'[peer[d]] = grants[peer[d]] /\ now' \in Nat /\ now' >= now
      BY <2>1, Zenon DEF Same, Grows
    <2>5. IsExpired(peer[d])'
      BY <2>1, <2>3, <2>4 DEF IsExpired
    <2> QED BY <2>1, <2>5, Zenon DEF Same
  <1>7. OwnActions(d)'
    BY <1>4, <1>5, <1>6, Zenon DEF OwnActions
  <1> QED BY <1>1, <1>2, <1>3, <1>7, Zenon DEF HandlerState

(* What is left to show of a step of c. *)
LEMMA StepOf ==
    ASSUME SInv, NEW c \in Conns, Moves(c), rivals' \in [Conns -> SUBSET Conns],
           AuthTypeOK', Grows, HandlerState(c)', Pairs', Slots'
    PROVE  SInv'
  <1>1. ServerTypeOK /\ AuthTypeOK /\ \A d \in Conns : HandlerState(d)
    BY Zenon DEF SInv
  <1>2. ServerTypeOK' /\ \A d \in Conns : d # c => Same(d)
    BY <1>1, MovesEffect, Zenon
  <1>3. \A d \in Conns : HandlerState(d)'
    <2>1. ASSUME NEW d \in Conns, d # c PROVE HandlerState(d)'
      BY <1>1, <1>2, <2>1, OthersKeep, Zenon
    <2> QED BY <2>1, Zenon
  <1> QED BY <1>2, <1>3, Zenon DEF SInv

(* The count of slots changes with the set of handlers only. *)
LEMMA SlotsKeep ==
    ASSUME Slots, UNCHANGED sem, \A d \in Conns : Served(d)' <=> Served(d)
    PROVE  Slots'
  <1>1. {d \in Conns : Served(d)}' = {d \in Conns : Served(d)}
    OBVIOUS
  <1> QED BY <1>1, Zenon DEF Slots

(* A handler that leaves the handshake disturbs no pair. *)
LEMMA PairsKeep ==
    ASSUME Pairs, UNCHANGED <<rivals, pendingChallenges>>, Grows,
           \A d \in Conns : OwnSession(d),
           \A d \in Conns : challenge'[d] \in {challenge[d], NoNonce},
           \A d \in Conns : peer'[d] = NoToken
                             \/ (peer'[d] = peer[d] /\ challenge'[d] = challenge[d]),
           \A d \in Conns : Contending(d)' =>
                Contending(d) /\ service'[d] = service[d] /\ challenge'[d] = challenge[d]
    PROVE  Pairs'
  <1>1. ChallengesOwn'
    BY Zenon DEF Pairs, ChallengesOwn
  <1>2. RivalsKnown'
    BY Zenon DEF Pairs, RivalsKnown
  <1>3. PendingHeld'
    BY Zenon DEF Pairs, PendingHeld
  <1>4. PendingNewer'
    BY Zenon DEF Pairs, PendingNewer
  <1>5. SessionsOwn'
    BY Zenon DEF Pairs, SessionsOwn
  <1>6. EarnedAlone'
    <2>1. ASSUME NEW d \in Conns, peer'[d] # NoToken, rivals'[d] = {}
          PROVE  grants'[peer'[d]].nonce = challenge'[d]
      <3>1. peer'[d] = peer[d] /\ challenge'[d] = challenge[d] /\ rivals[d] = {}
        BY <2>1, Zenon
      <3>2. grants[peer[d]].nonce = challenge[d] /\ peer[d] \in DOMAIN grants
        BY <2>1, <3>1, Zenon DEF Pairs, EarnedAlone, OwnSession
      <3> QED BY <3>1, <3>2, Zenon DEF Grows
    <2> QED BY <2>1, Zenon DEF EarnedAlone
  <1> QED BY <1>1, <1>2, <1>3, <1>4, <1>5, <1>6, Zenon DEF Pairs

(* The authenticator at rest. *)
LEMMA AuthAtRest ==
    ASSUME AuthTypeOK, UNCHANGED authVars
    PROVE  AuthTypeOK' /\ Grows /\ UNCHANGED <<grants, challenges, now, pendingChallenges>>
  <1>1. AuthTypeOK'
    BY Zenon DEF AuthTypeOK, authVars
  <1>2. now \in Nat
    BY Zenon DEF AuthTypeOK
  <1> QED BY <1>1, <1>2 DEF Grows, authVars

(* Most steps of a handler: the authenticator, the slots and the rivals    *)
(* stay, and no handshake begins to contend.                               *)
LEMMA QuietStep ==
    ASSUME SInv, NEW c \in Conns, Moves(c), UNCHANGED <<authVars, sem, rivals>>,
           Served(c)' <=> Served(c),
           Contending(c)' => Contending(c) /\ service'[c] = service[c],
           challenge'[c] = challenge[c], peer'[c] = peer[c],
           HandlerState(c)'
    PROVE  SInv'
  <1>1. /\ ServerTypeOK /\ AuthTypeOK /\ Pairs /\ Slots /\ \A d \in Conns : OwnSession(d)
        /\ rivals \in [Conns -> SUBSET Conns] /\ rivals' = rivals /\ sem' = sem
    BY Zenon DEF SInv, ServerTypeOK, HandlerState
  <1>2. \A d \in Conns : d # c => Same(d)
    BY <1>1, MovesEffect, Zenon
  <1>3. AuthTypeOK' /\ Grows /\ pendingChallenges' = pendingChallenges
    BY <1>1, AuthAtRest, Zenon
  <1>4. \A d \in Conns : Served(d)' <=> Served(d)
    BY <1>2, Zenon DEF Served, Same
  <1>5. /\ \A d \in Conns : challenge'[d] = challenge[d] /\ peer'[d] = peer[d]
        /\ \A d \in Conns : Contending(d)' =>
             Contending(d) /\ service'[d] = service[d] /\ challenge'[d] = challenge[d]
    BY <1>2, Zenon DEF Contending, Same
  <1>6. Pairs'
    BY <1>1, <1>3, <1>5, PairsKeep, Zenon
  <1>7. Slots'
    BY <1>1, <1>4, SlotsKeep, Zenon
  <1> QED BY <1>1, <1>3, <1>6, <1>7, StepOf, Zenon

(* A function is itself with one value put back. *)
LEMMA PutBack ==
    ASSUME ServerTypeOK, NEW c \in Conns
    PROVE  /\ pc = [pc EXCEPT ![c] = pc[c]] /\ open = [open EXCEPT ![c] = open[c]]
           /\ timer = [timer EXCEPT ![c] = timer[c]]
           /\ service = [service EXCEPT ![c] = service[c]]
           /\ challenge = [challenge EXCEPT ![c] = challenge[c]]
           /\ answer = [answer EXCEPT ![c] = answer[c]]
           /\ peer = [peer EXCEPT ![c] = peer[c]] /\ msg = [msg EXCEPT ![c] = msg[c]]
           /\ audit = [audit EXCEPT ![c] = audit[c]]
  BY Zenon DEF ServerTypeOK

(* What c has before a step. *)
LEMMA Values ==
    ASSUME ServerTypeOK, NEW c \in Conns
    PROVE  /\ pc[c] \in PCs /\ open[c] \in BOOLEAN
           /\ timer[c] \in {"off", "waiting", "fired", "exited"}
           /\ service[c] \in Known \cup {Unknown} /\ challenge[c] \in Nonces \cup {NoNonce}
           /\ answer[c] \in Responses \cup {NoNonce} /\ peer[c] \in Nat
           /\ msg[c] \in Messages /\ audit[c] \in AuditEntry
           /\ late \subseteq Conns /\ up \in BOOLEAN
  BY Zenon DEF ServerTypeOK

(* The state of c before a step, in one place. *)
LEMMA Before ==
    ASSUME SInv, NEW c \in Conns
    PROVE  ServerTypeOK /\ HandlerState(c) /\ AuthTypeOK
  BY Zenon DEF SInv

(* A step of c after which the handler holds what it held, at a label of   *)
(* the same kind or past it.                                               *)
Onward(c) ==
    /\ UNCHANGED <<authVars, sem, rivals, late>>
    /\ service'[c] = service[c] /\ challenge'[c] = challenge[c] /\ peer'[c] = peer[c]
    /\ peer[c] # NoToken => answer'[c] = answer[c]
    /\ pc'[c] \notin Early \/ pc'[c] = pc[c]
    /\ pc'[c] \in Asked => pc[c] \in Asked
    /\ pc'[c] \in Granted => pc[c] \in Granted
    /\ Served(c)' <=> Served(c)
    /\ open'[c] => open[c]
    /\ pc'[c] = "releasing" => ~open'[c]
    /\ c \in late => pc'[c] \in {"check", "done"} \cup Unwinding
    /\ pc'[c] = "dispatch" => ValidateCapability(c, msg'[c].capability)
    /\ pc'[c] = "reply" =>
        /\ Entitled(peer[c], Required[msg'[c].type])
        /\ audit'[c] = <<Audited(msg'[c]), "allowed">>

(* A step that moves the handler on and changes nothing it holds. *)
LEMMA OnwardInv ==
    ASSUME SInv, NEW c \in Conns, Moves(c), Onward(c)
    PROVE  SInv'
  <1>1. ServerTypeOK /\ HandlerState(c) /\ AuthTypeOK
    BY Before, Zenon DEF SInv
  <1>2. UNCHANGED <<grants, challenges, now>>
    BY <1>1, AuthAtRest, Zenon DEF Onward
  <1>3. OwnChallenge(c)'
    BY <1>1, <1>2, Zenon DEF HandlerState, OwnChallenge, Onward
  <1>4. OwnSession(c)'
    BY <1>1, <1>2, Zenon DEF HandlerState, OwnSession, Onward
  <1>5. OwnConn(c)'
    BY <1>1, Zenon DEF HandlerState, OwnConn, Onward
  <1>6. \A t, a : Entitled(t, a)' <=> Entitled(t, a)
    BY <1>2, Zenon DEF Entitled
  <1>7. OwnActions(c)'
    <2>1. pc'[c] = "dispatch" => ValidateCapability(c, msg[c].capability)'
      BY <1>2, Zenon DEF Onward, ValidateCapability, PeerCapabilities
    <2>2. pc'[c] = "reply" =>
            /\ Entitled(peer[c], Required[msg[c].type])'
            /\ audit'[c] = <<Audited(msg'[c]), "allowed">>
      BY <1>6, Zenon DEF Onward
    <2>3. c \in late' => /\ pc'[c] \in {"check", "done"} \cup Unwinding
                        /\ peer'[c] # NoToken /\ IsExpired(peer[c])'
      BY <1>1, <1>2, Zenon DEF HandlerState, OwnActions, Onward, IsExpired
    <2> QED BY <2>1, <2>2, <2>3, Zenon DEF OwnActions
  <1>8. HandlerState(c)'
    BY <1>3, <1>4, <1>5, <1>7, Zenon DEF HandlerState
  <1>9. Contending(c)' => Contending(c)
    BY Zenon DEF Onward, Contending, Asked
  <1> QED BY <1>8, <1>9, QuietStep, Zenon DEF Onward

(* The timer goroutine may close the connection under the handler. *)
LEMMA TimerInv ==
    ASSUME SInv, NEW c \in Conns, TimerStep(c)
    PROVE  SInv'
  <1>1. ServerTypeOK /\ HandlerState(c)
    BY Before, Zenon
  <1>2. /\ UNCHANGED <<authVars, up, sem, pc, service, challenge, answer, peer, msg,
                       audit, late, rivals>>
        /\ \/ timer' = [timer EXCEPT ![c] = "fired"] /\ UNCHANGED open
           \/ timer' = [timer EXCEPT ![c] = "exited"] /\ UNCHANGED open
           \/ /\ timer' = [timer EXCEPT ![c] = "exited"]
              /\ open' = [open EXCEPT ![c] = FALSE]
    BY Zenon DEF TimerStep, TimerFires, TimerCloses, TimerExits
  <1>3. /\ timer' = [timer EXCEPT ![c] = timer'[c]] /\ timer'[c] \in {"fired", "exited"}
    BY <1>1, <1>2, Zenon DEF ServerTypeOK
  <1>4. /\ open' = [open EXCEPT ![c] = open'[c]] /\ open'[c] \in BOOLEAN
        /\ open'[c] => open[c]
    BY <1>1, <1>2, Zenon DEF ServerTypeOK
  <1>5. Moves(c)
    BY <1>1, <1>2, <1>3, <1>4, PutBack, Values, ZenonT(30) DEF Moves
  <1>6. Onward(c)
    BY <1>1, <1>2, <1>4, Zenon DEF Onward, HandlerState, OwnChallenge, OwnActions, OwnConn, Served
  <1> QED BY <1>5, <1>6, OnwardInv, Zenon

(* A handler that goes to another label, and the variables it may set. *)
LEMMA GotoMoves ==
    ASSUME ServerTypeOK, NEW c \in Conns, NEW l \in PCs, Goto(c, l),
           open' = open \/ open' = [open EXCEPT ![c] = FALSE],
           msg' = msg \/ msg' = [msg EXCEPT ![c] = NoMsg],
           audit' = audit \/ \E e \in AuditEntry : audit' = [audit EXCEPT ![c] = e],
           answer' = answer \/ \E a \in Responses : answer' = [answer EXCEPT ![c] = a],
           UNCHANGED <<up, timer, service, challenge, peer, late>>
    PROVE  /\ Moves(c) /\ pc'[c] = l
           /\ service'[c] = service[c] /\ challenge'[c] = challenge[c] /\ peer'[c] = peer[c]
  <1>1. pc' = [pc EXCEPT ![c] = pc'[c]] /\ pc'[c] \in PCs /\ pc'[c] = l
    BY ZenonT(30) DEF Goto, ServerTypeOK
  <1>2. open' = [open EXCEPT ![c] = open'[c]] /\ open'[c] \in BOOLEAN
    BY Zenon DEF ServerTypeOK
  <1>3. msg' = [msg EXCEPT ![c] = msg'[c]] /\ msg'[c] \in Messages
    <2>1. NoMsg \in Messages
      BY Zenon DEF NoMsg, Messages, MsgTypes
    <2> QED BY <2>1, Zenon DEF ServerTypeOK
  <1>4. audit' = [audit EXCEPT ![c] = audit'[c]] /\ audit'[c] \in AuditEntry
    BY ZenonT(30) DEF ServerTypeOK
  <1>5. answer' = [answer EXCEPT ![c] = answer'[c]] /\ answer'[c] \in Responses \cup {NoNonce}
    BY DEF ServerTypeOK
  <1>6. Moves(c)
    BY <1>1, <1>2, <1>3, <1>4, <1>5, PutBack, Values, ZenonT(30) DEF Moves
  <1> QED BY <1>1, <1>6, Zenon

(* The labels of the handler, by kind. *)
LEMMA Labels ==
    /\ PCs = {"idle", "rejected", "done", "recvAuth", "create", "sendChallenge",
              "recvResponse", "verify", "sendDenied", "verified", "sendOk", "loop", "check",
              "dispatch", "reply", "replyError", "closing", "releasing"}
    /\ Granted = {"verified", "sendOk", "loop", "check", "dispatch", "reply", "replyError"}
    /\ \A c : Served(c) <=> pc[c] \in PCs \ {"idle", "rejected", "done"}
  BY Zenon DEF PCs, Granted, Served, Handshaking, Serving, Unwinding

(* Receive fails, at any of the three places where the handler waits. *)
LEMMA ReceiveFailsInv ==
    ASSUME SInv, NEW c \in Conns, ReceiveFails(c) \/ RecvUndecodable(c)
    PROVE  SInv'
  <1>1. ServerTypeOK /\ HandlerState(c)
    BY Before, Zenon
  <1>2. /\ answer' = answer \/ \E a \in Responses : answer' = [answer EXCEPT ![c] = a]
        /\ answer' = answer \/ pc[c] = "recvResponse"
        /\ pc[c] \in Receiving /\ Goto(c, "closing")
        /\ UNCHANGED <<authVars, up, sem, open, timer, service, challenge, peer, msg, audit,
                       late, rivals>>
    BY Zenon DEF ReceiveFails, RecvUndecodable, Receiving, Responses
  <1>3. "closing" \in PCs
    BY Labels, Zenon
  <1>4. /\ Moves(c) /\ pc'[c] = "closing"
        /\ service'[c] = service[c] /\ challenge'[c] = challenge[c] /\ peer'[c] = peer[c]
    BY <1>1, <1>2, <1>3, GotoMoves, ZenonT(30)
  <1>5. peer[c] # NoToken => answer'[c] = answer[c]
    BY <1>1, <1>2, Zenon DEF HandlerState, OwnSession, Asked
  <1>6. Onward(c)
    BY <1>2, <1>4, <1>5, Zenon DEF Onward, Receiving, Served, Handshaking, Serving, Unwinding, Early,
       Asked, Granted
  <1> QED BY <1>4, <1>6, OnwardInv, Zenon

(* A send returns, with or without an error. *)
LEMMA SendInv ==
    ASSUME SInv, NEW c \in Conns, SendSucceeds(c) \/ SendFails(c)
    PROVE  SInv'
  <1>1. ServerTypeOK /\ HandlerState(c)
    BY Before, Zenon
  <1>2. /\ pc[c] \in Sending /\ msg' = [msg EXCEPT ![c] = NoMsg]
        /\ UNCHANGED <<authVars, up, sem, open, timer, service, challenge, answer, peer, audit,
                       late, rivals>>
    BY Zenon DEF SendSucceeds, SendFails
  <1>3. PICK l \in {"recvResponse", "closing", "loop"} :
            /\ Goto(c, l)
            /\ l = "recvResponse" => pc[c] = "sendChallenge"
            /\ l = "loop" => pc[c] \in {"sendOk", "reply", "replyError"}
    <2>1. CASE SendSucceeds(c)
      BY <2>1, Zenon DEF SendSucceeds, Sending
    <2>2. CASE SendFails(c)
      BY <2>2, Zenon DEF SendFails, Sending
    <2> QED BY <2>1, <2>2, Zenon
  <1>4. l \in PCs
    BY Labels, Zenon
  <1>5. /\ Moves(c) /\ pc'[c] = l
        /\ service'[c] = service[c] /\ challenge'[c] = challenge[c] /\ peer'[c] = peer[c]
    BY <1>1, <1>2, <1>3, <1>4, GotoMoves, ZenonT(30)
  <1>6. c \notin late
    BY <1>1, <1>2, Zenon DEF HandlerState, OwnActions, Sending, Unwinding
  <1>7. Onward(c)
    BY <1>2, <1>3, <1>5, <1>6, Zenon DEF Onward, Sending, Served, Handshaking, Serving, Unwinding,
       Early, Asked, Granted
  <1> QED BY <1>5, <1>7, OnwardInv, Zenon

(* The deferred Close, and a connection that finds no slot. *)
LEMMA CloseInv ==
    ASSUME SInv, NEW c \in Conns, CloseConn(c) \/ RejectConn(c)
    PROVE  SInv'
  <1>1. ServerTypeOK /\ HandlerState(c)
    BY Before, Zenon
  <1>2. ASSUME CloseConn(c) PROVE SInv'
    <2>1. /\ Moves(c) /\ pc'[c] = "releasing"
          /\ service'[c] = service[c] /\ challenge'[c] = challenge[c] /\ peer'[c] = peer[c]
      BY <1>1, <1>2, Labels, GotoMoves, ZenonT(30) DEF CloseConn
    <2>2. ~open'[c]
      BY <1>1, <1>2, Zenon DEF CloseConn, ServerTypeOK
    <2>3. Onward(c)
      BY <1>2, <2>1, <2>2, Zenon DEF Onward, CloseConn, Served, Handshaking, Serving, Unwinding,
         Early, Asked, Granted
    <2> QED BY <2>1, <2>3, OnwardInv, Zenon
  <1>3. ASSUME RejectConn(c) PROVE SInv'
    <2>1. <<"connect", "denied">> \in AuditEntry
      BY Zenon DEF AuditEntry, Actions
    <2>2. audit' = [audit EXCEPT ![c] = <<"connect", "denied">>]
      BY <1>3, Zenon DEF RejectConn, Log
    <2>3. /\ Moves(c) /\ pc'[c] = "rejected"
          /\ service'[c] = service[c] /\ challenge'[c] = challenge[c] /\ peer'[c] = peer[c]
      BY <1>1, <1>3, <2>1, <2>2, Labels, GotoMoves, ZenonT(30) DEF RejectConn
    <2>4. c \notin late /\ ~open[c]
      BY <1>1, <1>3, <2>2, Zenon DEF ServerTypeOK, HandlerState, OwnActions, OwnConn, RejectConn,
         Served, Handshaking, Serving, Unwinding
    <2>5. Onward(c)
      BY <1>3, <2>3, <2>4, Zenon DEF Onward, RejectConn, Served, Handshaking, Serving, Unwinding,
         Early, Asked, Granted
    <2> QED BY <2>3, <2>5, OnwardInv, Zenon
  <1> QED BY <1>2, <1>3, Zenon

(* What the handler logs is an entry, and the last one. *)
LEMMA Logged ==
    ASSUME ServerTypeOK, NEW c \in Conns, NEW decision \in {"allowed", "denied"},
           NEW a \in Actions \cup {"connect", "authenticate", "session_check", "capability"},
           Log(c, a, decision)
    PROVE  /\ \E e \in AuditEntry : audit' = [audit EXCEPT ![c] = e]
           /\ audit'[c] = <<a, decision>>
  <1>1. <<a, decision>> \in AuditEntry
    BY Zenon DEF AuditEntry, Actions
  <1>2. audit' = [audit EXCEPT ![c] = <<a, decision>>]
    BY Zenon DEF Log
  <1>3. audit'[c] = <<a, decision>>
    BY <1>2, Zenon DEF ServerTypeOK
  <1> QED BY <1>1, <1>2, <1>3, Zenon

(* The authenticator refuses a challenge. *)
LEMMA ChallengeRefusedInv ==
    ASSUME SInv, NEW c \in Conns, ChallengeRefused(c)
    PROVE  SInv'
  <1>1. ServerTypeOK /\ HandlerState(c)
    BY Before, Zenon
  <1>2. /\ pc[c] = "create" /\ Log(c, "authenticate", "denied") /\ Goto(c, "sendDenied")
        /\ UNCHANGED <<authVars, up, sem, open, timer, service, challenge, answer, peer, msg,
                       late, rivals>>
    BY Zenon DEF ChallengeRefused, CreateChallengeFails
  <1>3. \E e \in AuditEntry : audit' = [audit EXCEPT ![c] = e]
    BY <1>1, <1>2, Logged, Zenon
  <1>4. /\ Moves(c) /\ pc'[c] = "sendDenied"
        /\ service'[c] = service[c] /\ challenge'[c] = challenge[c] /\ peer'[c] = peer[c]
    BY <1>1, <1>2, <1>3, Labels, GotoMoves, ZenonT(30)
  <1>5. c \notin late
    BY <1>1, <1>2, Zenon DEF HandlerState, OwnActions, Unwinding
  <1>6. Onward(c)
    BY <1>2, <1>3, <1>4, <1>5, Zenon DEF Onward, Served, Handshaking, Serving, Unwinding, Early, Asked,
       Granted
  <1> QED BY <1>4, <1>6, OnwardInv, Zenon

(* The peer answers a challenge, that of its connection or another, or     *)
(* wrongly.                                                                *)
LEMMA RecvResponseInv ==
    ASSUME SInv, NEW c \in Conns, NEW r \in DOMAIN challenges \cup {BadMac}, RecvResponse(c, r)
    PROVE  SInv'
  <1>1. ServerTypeOK /\ HandlerState(c) /\ AuthTypeOK
    BY Before, Zenon
  <1>2. /\ pc[c] = "recvResponse" /\ answer' = [answer EXCEPT ![c] = r] /\ Goto(c, "verify")
        /\ UNCHANGED <<authVars, up, sem, open, timer, service, challenge, peer, msg, audit,
                       late, rivals>>
    BY Zenon DEF RecvResponse
  <1>3. r \in Responses
    BY <1>1, AuthAssumption DEF AuthTypeOK, Responses, Nonces
  <1>4. /\ Moves(c) /\ pc'[c] = "verify"
        /\ service'[c] = service[c] /\ challenge'[c] = challenge[c] /\ peer'[c] = peer[c]
    BY <1>1, <1>2, <1>3, Labels, GotoMoves, ZenonT(30)
  <1>5. peer[c] = NoToken
    BY <1>1, <1>2, Zenon DEF HandlerState, OwnSession, Asked
  <1>6. c \notin late
    BY <1>1, <1>2, Zenon DEF HandlerState, OwnActions, Unwinding
  <1>7. Onward(c)
    BY <1>2, <1>4, <1>5, <1>6, Zenon DEF Onward, Served, Handshaking, Serving, Unwinding, Early, Asked,
       Granted
  <1> QED BY <1>4, <1>7, OnwardInv, Zenon

(* close(authDone), and the check of the session before a message. *)
LEMMA CompletedInv ==
    ASSUME SInv, NEW c \in Conns, AuthCompleted(c) \/ CheckExpired(c)
    PROVE  SInv'
  <1>1. ServerTypeOK /\ HandlerState(c)
    BY Before, Zenon
  <1>2. ASSUME AuthCompleted(c) PROVE SInv'
    <2>1. /\ pc[c] = "verified" /\ Log(c, "authenticate", "allowed") /\ Goto(c, "sendOk")
          /\ UNCHANGED <<authVars, up, sem, open, timer, service, challenge, answer, peer, msg,
                         late, rivals>>
      BY <1>2, Zenon DEF AuthCompleted
    <2>2. \E e \in AuditEntry : audit' = [audit EXCEPT ![c] = e]
      BY <1>1, <2>1, Logged, Zenon
    <2>3. /\ Moves(c) /\ pc'[c] = "sendOk"
          /\ service'[c] = service[c] /\ challenge'[c] = challenge[c] /\ peer'[c] = peer[c]
      BY <1>1, <2>1, <2>2, Labels, GotoMoves, ZenonT(30)
    <2>4. c \notin late
      BY <1>1, <2>1, Zenon DEF HandlerState, OwnActions, Unwinding
    <2>5. Onward(c)
      BY <2>1, <2>2, <2>3, <2>4, Zenon DEF Onward, Served, Handshaking, Serving, Unwinding, Early,
         Asked, Granted
    <2> QED BY <2>3, <2>5, OnwardInv, Zenon
  <1>3. ASSUME CheckExpired(c) PROVE SInv'
    <2>1. /\ pc[c] = "check" /\ Log(c, "session_check", "denied") /\ Goto(c, "closing")
          /\ UNCHANGED <<authVars, up, sem, open, timer, service, challenge, answer, peer, msg,
                         late, rivals>>
      BY <1>3, Zenon DEF CheckExpired
    <2>2. \E e \in AuditEntry : audit' = [audit EXCEPT ![c] = e]
      BY <1>1, <2>1, Logged, Zenon
    <2>3. /\ Moves(c) /\ pc'[c] = "closing"
          /\ service'[c] = service[c] /\ challenge'[c] = challenge[c] /\ peer'[c] = peer[c]
      BY <1>1, <2>1, <2>2, Labels, GotoMoves, ZenonT(30)
    <2>4. Onward(c)
      BY <2>1, <2>2, <2>3, Zenon DEF Onward, Served, Handshaking, Serving, Unwinding, Early, Asked,
         Granted
    <2> QED BY <2>3, <2>4, OnwardInv, Zenon
  <1> QED BY <1>2, <1>3, Zenon

(* The capability check of the loop: what it lets through, the session     *)
(* holds.                                                                  *)
LEMMA CheckCapabilityInv ==
    ASSUME SInv, NEW c \in Conns, CheckCapability(c)
    PROVE  SInv'
  <1>1. ServerTypeOK /\ HandlerState(c)
    BY Before, Zenon
  <1>2. /\ pc[c] = "check" /\ ~IsExpired(peer[c])
        /\ UNCHANGED <<authVars, up, sem, open, timer, service, challenge, answer, peer, msg,
                       late, rivals>>
    BY Zenon DEF CheckCapability, SessionExpired
  <1>3. c \notin late
    BY <1>1, <1>2, Zenon DEF HandlerState, OwnActions
  <1>4. ASSUME ValidateCapability(c, msg[c].capability), Goto(c, "dispatch"), UNCHANGED audit
        PROVE  SInv'
    <2>1. /\ Moves(c) /\ pc'[c] = "dispatch"
          /\ service'[c] = service[c] /\ challenge'[c] = challenge[c] /\ peer'[c] = peer[c]
      BY <1>1, <1>2, <1>4, Labels, GotoMoves, ZenonT(30)
    <2>2. Onward(c)
      BY <1>2, <1>3, <1>4, <2>1, Zenon DEF Onward, Served, Handshaking, Serving, Unwinding, Early,
         Asked, Granted
    <2> QED BY <2>1, <2>2, OnwardInv, Zenon
  <1>5. ASSUME Log(c, "capability", "denied"), Goto(c, "replyError")
        PROVE  SInv'
    <2>1. \E e \in AuditEntry : audit' = [audit EXCEPT ![c] = e]
      BY <1>1, <1>5, Logged, Zenon
    <2>2. /\ Moves(c) /\ pc'[c] = "replyError"
          /\ service'[c] = service[c] /\ challenge'[c] = challenge[c] /\ peer'[c] = peer[c]
      BY <1>1, <1>2, <1>5, <2>1, Labels, GotoMoves, ZenonT(30)
    <2>3. Onward(c)
      BY <1>2, <1>3, <2>1, <2>2, Zenon DEF Onward, Served, Handshaking, Serving, Unwinding, Early,
         Asked, Granted
    <2> QED BY <2>2, <2>3, OnwardInv, Zenon
  <1> QED BY <1>4, <1>5, Zenon DEF CheckCapability

(* The check of the handler, on a capability the session holds: together   *)
(* they entitle the session to the action.                                 *)
LEMMA DispatchInv ==
    ASSUME SInv, NEW c \in Conns, DispatchChecked(c) \/ DispatchSilent(c)
    PROVE  SInv'
  <1>1. ServerTypeOK /\ HandlerState(c)
    BY Before, Zenon
  <1>2. /\ pc[c] = "dispatch"
        /\ UNCHANGED <<authVars, up, sem, open, timer, service, challenge, answer, peer, late,
                       rivals>>
    BY Zenon DEF DispatchChecked, DispatchSilent
  <1>3. c \notin late
    BY <1>1, <1>2, Zenon DEF HandlerState, OwnActions, Unwinding
  <1>4. ASSUME NEW l \in {"loop", "reply", "replyError"}, Goto(c, l),
               msg' = msg \/ msg' = [msg EXCEPT ![c] = NoMsg],
               audit' = audit \/ \E e \in AuditEntry : audit' = [audit EXCEPT ![c] = e],
               l = "reply" => /\ Entitled(peer[c], Required[msg'[c].type])
                              /\ audit'[c] = <<Audited(msg'[c]), "allowed">>
        PROVE  SInv'
    <2>1. l \in PCs
      BY Labels, Zenon
    <2>2. /\ Moves(c) /\ pc'[c] = l
          /\ service'[c] = service[c] /\ challenge'[c] = challenge[c] /\ peer'[c] = peer[c]
      BY <1>1, <1>2, <1>4, <2>1, GotoMoves, ZenonT(30)
    <2>3. Onward(c)
      BY <1>2, <1>3, <1>4, <2>2, Zenon DEF Onward, Served, Handshaking, Serving, Unwinding, Early,
         Asked, Granted
    <2> QED BY <2>2, <2>3, OnwardInv, Zenon
  <1>5. CASE DispatchSilent(c)
    BY <1>4, <1>5, Zenon DEF DispatchSilent
  <1>6. ASSUME DispatchChecked(c) PROVE SInv'
    <2> DEFINE m == msg[c]
               action == Required[m.type]
    <2>1. Audited(m) \in Actions /\ msg' = msg
      <3>1. m \in Messages /\ m.type \in DOMAIN Required
        BY <1>1, <1>6, Values, Zenon DEF DispatchChecked
      <3>2. m.intent \in Intents \cup {NoIntent}
        BY <3>1, Zenon DEF Messages
      <3>3. action \in Actions /\ m.intent \in Actions
        BY <3>1, <3>2, Zenon DEF Actions
      <3> QED BY <1>6, <3>3, Zenon DEF Audited, DispatchChecked
    <2>2. ASSUME Log(c, Audited(m), "denied"), Goto(c, "replyError") PROVE SInv'
      <3>1. \E e \in AuditEntry : audit' = [audit EXCEPT ![c] = e]
        BY <1>1, <2>1, <2>2, Logged, Zenon
      <3> QED BY <1>4, <2>1, <2>2, <3>1, Zenon
    <2>3. ASSUME Permits(m.capability, action), Log(c, Audited(m), "allowed"), Goto(c, "reply")
          PROVE  SInv'
      <3>1. /\ \E e \in AuditEntry : audit' = [audit EXCEPT ![c] = e]
            /\ audit'[c] = <<Audited(m), "allowed">>
        BY <1>1, <2>1, <2>3, Logged, Zenon
      <3>2. m.capability \in ServiceCaps[grants[peer[c]].service]
        BY <1>1, <1>2, <2>3, ServerAssumption, Zenon DEF HandlerState, OwnActions, ValidateCapability,
           PeerCapabilities, Permits
      <3>3. peer[c] \in DOMAIN grants
        BY <1>1, <1>2, Zenon DEF HandlerState, OwnSession, Granted, Serving
      <3>4. Entitled(peer[c], action)
        BY <2>3, <3>2, <3>3, Zenon DEF Entitled, Permits
      <3> QED BY <1>4, <2>1, <2>3, <3>1, <3>4, ZenonT(30)
    <2>4. ASSUME UNCHANGED audit, Goto(c, "replyError") PROVE SInv'
      BY <1>4, <2>1, <2>4, Zenon
    <2> HIDE DEF m, action
    <2> QED BY <1>6, <2>2, <2>3, <2>4, Zenon DEF DispatchChecked, m, action
  <1> QED BY <1>5, <1>6, Zenon

(* A message arrives; if its session has expired, that is noted. *)
LEMMA RecvMessageInv ==
    ASSUME SInv, NEW c \in Conns, NEW m \in Traffic, RecvMessage(c, m)
    PROVE  SInv'
  <1>1. /\ ServerTypeOK /\ HandlerState(c) /\ AuthTypeOK /\ Pairs /\ Slots
        /\ m \in Messages /\ rivals \in [Conns -> SUBSET Conns]
    BY Before, ServerAssumption, Zenon DEF SInv, ServerTypeOK
  <1>2. /\ pc[c] = "loop" /\ msg' = [msg EXCEPT ![c] = m] /\ Goto(c, "check")
        /\ late' = (IF IsExpired(peer[c]) THEN late \cup {c} ELSE late)
        /\ UNCHANGED <<authVars, up, sem, open, timer, service, challenge, answer, peer, audit,
                       rivals>>
    BY Zenon DEF RecvMessage
  <1>3. pc' = [pc EXCEPT ![c] = pc'[c]] /\ pc'[c] = "check" /\ pc'[c] \in PCs
    BY <1>1, <1>2, Labels, ZenonT(30) DEF Goto, ServerTypeOK
  <1>4. msg' = [msg EXCEPT ![c] = msg'[c]] /\ msg'[c] \in Messages
    BY <1>1, <1>2, ZenonT(30) DEF ServerTypeOK
  <1>5. late \ {c} = late' \ {c} /\ late' \subseteq Conns
    BY <1>1, <1>2, Zenon DEF ServerTypeOK
  <1>6. Moves(c)
    BY <1>1, <1>2, <1>3, <1>4, <1>5, PutBack, Values, ZenonT(30) DEF Moves
  <1>7. UNCHANGED <<grants, challenges, now>>
    BY <1>1, <1>2, AuthAtRest, Zenon
  <1>8. peer[c] # NoToken /\ c \notin late
    BY <1>1, <1>2, Zenon DEF HandlerState, OwnSession, OwnActions, Granted, Serving, Unwinding
  <1>9. OwnChallenge(c)' /\ OwnSession(c)' /\ OwnConn(c)'
    BY <1>1, <1>2, <1>3, <1>7, Zenon DEF HandlerState, OwnChallenge, OwnSession, OwnConn, Served,
       Handshaking, Serving, Unwinding, Early, Asked, Granted
  <1>10. Served(c) /\ Served(c)' /\ ~Contending(c)'
    BY <1>2, <1>3, Zenon DEF Served, Serving, Contending
  <1>11. OwnActions(c)'
    <2>1. c \in late' => IsExpired(peer[c])'
      BY <1>2, <1>7, <1>8, Zenon DEF IsExpired
    <2> QED BY <1>2, <1>3, <1>8, <2>1, Zenon DEF OwnActions
  <1> QED BY <1>2, <1>6, <1>9, <1>10, <1>11, QuietStep, Zenon DEF HandlerState

(* The peer names its service. *)
LEMMA RecvAuthInv ==
    ASSUME SInv, NEW c \in Conns, NEW s \in Known \cup {Unknown}, RecvAuth(c, s)
    PROVE  SInv'
  <1>1. ServerTypeOK /\ HandlerState(c) /\ AuthTypeOK
    BY Before, Zenon DEF SInv
  <1>2. /\ pc[c] = "recvAuth" /\ service' = [service EXCEPT ![c] = s] /\ Goto(c, "create")
        /\ UNCHANGED <<authVars, up, sem, open, timer, challenge, answer, peer, msg, audit,
                       late, rivals>>
    BY Zenon DEF RecvAuth
  <1>3. pc' = [pc EXCEPT ![c] = pc'[c]] /\ pc'[c] = "create" /\ pc'[c] \in PCs
    BY <1>1, <1>2, Labels, ZenonT(30) DEF Goto, ServerTypeOK
  <1>4. service' = [service EXCEPT ![c] = service'[c]] /\ service'[c] \in Known \cup {Unknown}
    BY <1>1, <1>2, ZenonT(30) DEF ServerTypeOK
  <1>5. Moves(c)
    BY <1>1, <1>2, <1>3, <1>4, PutBack, Values, ZenonT(30) DEF Moves
  <1>6. UNCHANGED <<grants, challenges, now>>
    BY <1>1, <1>2, AuthAtRest, Zenon
  <1>7. challenge[c] = NoNonce /\ peer[c] = NoToken /\ c \notin late
    BY <1>1, <1>2, Zenon DEF HandlerState, OwnChallenge, OwnSession, OwnActions, Early, Unwinding
  <1>8. Served(c) /\ Served(c)' /\ ~Contending(c)'
    BY <1>2, <1>3, Zenon DEF Served, Handshaking, Contending
  <1>9. OwnChallenge(c)' /\ OwnSession(c)' /\ OwnConn(c)'
    BY <1>2, <1>3, <1>7, <1>8, Zenon DEF OwnChallenge, OwnSession, OwnConn, Serving, Early, Asked,
       Granted
  <1>10. OwnActions(c)'
    BY <1>2, <1>3, <1>7, Zenon DEF OwnActions
  <1> QED BY <1>2, <1>5, <1>8, <1>9, <1>10, QuietStep, Zenon DEF HandlerState

(* A connection takes a slot. *)
LEMMA AcceptInv ==
    ASSUME SInv, NEW c \in Conns, Accept(c)
    PROVE  SInv'
  <1>1. /\ ServerTypeOK /\ HandlerState(c) /\ AuthTypeOK /\ Pairs /\ Slots
        /\ rivals \in [Conns -> SUBSET Conns] /\ \A d \in Conns : OwnSession(d)
    BY Before, Zenon DEF SInv, ServerTypeOK, HandlerState
  <1>2. /\ pc[c] = "idle" /\ sem < MaxConns /\ sem' = sem + 1 /\ Goto(c, "recvAuth")
        /\ open' = [open EXCEPT ![c] = TRUE] /\ timer' = [timer EXCEPT ![c] = "waiting"]
        /\ UNCHANGED <<authVars, up, service, challenge, answer, peer, msg, audit, late,
                       rivals>>
    BY Zenon DEF Accept
  <1>3. pc' = [pc EXCEPT ![c] = pc'[c]] /\ pc'[c] = "recvAuth" /\ pc'[c] \in PCs
    BY <1>1, <1>2, Labels, ZenonT(30) DEF Goto, ServerTypeOK
  <1>4. /\ open' = [open EXCEPT ![c] = open'[c]] /\ open'[c] \in BOOLEAN
        /\ timer' = [timer EXCEPT ![c] = timer'[c]]
        /\ timer'[c] \in {"off", "waiting", "fired", "exited"}
    BY <1>1, <1>2, Zenon DEF ServerTypeOK
  <1>5. Moves(c)
    BY <1>1, <1>2, <1>3, <1>4, PutBack, Values, ZenonT(30) DEF Moves
  <1>6. \A d \in Conns : d # c => Same(d)
    BY <1>1, <1>2, <1>5, MovesEffect, Zenon
  <1>7. AuthTypeOK' /\ Grows /\ UNCHANGED <<pendingChallenges, grants, challenges>>
    BY <1>1, <1>2, AuthAtRest, Zenon
  <1>8. challenge[c] = NoNonce /\ peer[c] = NoToken /\ c \notin late
    BY <1>1, <1>2, Zenon DEF HandlerState, OwnChallenge, OwnSession, OwnActions, Early, Unwinding
  <1>9. HandlerState(c)'
    <2>1. Served(c)'
      BY <1>3, Zenon DEF Served, Handshaking
    <2>2. OwnChallenge(c)' /\ OwnSession(c)' /\ OwnConn(c)'
      BY <1>2, <1>3, <1>8, <2>1, Zenon DEF OwnChallenge, OwnSession, OwnConn, Serving, Early, Asked,
         Granted
    <2>3. OwnActions(c)'
      BY <1>2, <1>3, <1>8, Zenon DEF OwnActions
    <2> QED BY <2>2, <2>3, Zenon DEF HandlerState
  <1>10. Pairs'
    <2>1. \A d \in Conns : Contending(d)' => Contending(d)
      BY <1>3, <1>6, Zenon DEF Contending, Same
    <2> QED BY <1>1, <1>2, <1>7, <2>1, PairsKeep, Zenon
  <1>11. Slots'
    <2> DEFINE S == {d \in Conns : Served(d)}
    <2>1. c \notin S /\ S' = S \cup {c}
      BY <1>2, <1>3, <1>6, Zenon DEF Served, Same, Handshaking, Serving, Unwinding
    <2>2. IsFiniteSet(S)
      BY ServerAssumption, FS_Subset, Zenon
    <2>3. Cardinality(S') = Cardinality(S) + 1
      BY <2>1, <2>2, FS_AddElement, Zenon
    <2> QED BY <1>1, <1>2, <2>3, ServerAssumption DEF Slots
  <1> QED BY <1>1, <1>2, <1>5, <1>7, <1>9, <1>10, <1>11, StepOf, Zenon

(* The handler returns and its slot is free. *)
LEMMA ReleaseInv ==
    ASSUME SInv, NEW c \in Conns, ReleaseSlot(c)
    PROVE  SInv'
  <1>1. /\ ServerTypeOK /\ HandlerState(c) /\ AuthTypeOK /\ Pairs /\ Slots
        /\ rivals \in [Conns -> SUBSET Conns] /\ \A d \in Conns : OwnSession(d)
    BY Before, Zenon DEF SInv, ServerTypeOK, HandlerState
  <1>2. /\ pc[c] = "releasing" /\ Goto(c, "done") /\ sem' = sem - 1 /\ late' = late \ {c}
        /\ service' = [service EXCEPT ![c] = NoService]
        /\ challenge' = [challenge EXCEPT ![c] = NoNonce]
        /\ answer' = [answer EXCEPT ![c] = NoNonce]
        /\ peer' = [peer EXCEPT ![c] = NoToken] /\ msg' = [msg EXCEPT ![c] = NoMsg]
        /\ UNCHANGED <<authVars, up, open, timer, audit, rivals>>
    BY Zenon DEF ReleaseSlot, Forget
  <1>3. pc' = [pc EXCEPT ![c] = pc'[c]] /\ pc'[c] = "done" /\ pc'[c] \in PCs
    BY <1>1, <1>2, Labels, ZenonT(30) DEF Goto, ServerTypeOK
  <1>4. /\ service' = [service EXCEPT ![c] = service'[c]]
        /\ service'[c] \in Known \cup {Unknown}
        /\ answer' = [answer EXCEPT ![c] = answer'[c]]
        /\ answer'[c] \in Responses \cup {NoNonce}
    BY <1>1, <1>2, Zenon DEF ServerTypeOK, NoService
  <1>5. /\ challenge' = [challenge EXCEPT ![c] = challenge'[c]]
        /\ challenge'[c] \in Nonces \cup {NoNonce} /\ challenge'[c] = NoNonce
        /\ peer' = [peer EXCEPT ![c] = peer'[c]] /\ peer'[c] \in Nat /\ peer'[c] = NoToken
    BY <1>1, <1>2, Zenon DEF ServerTypeOK, NoToken
  <1>6. msg' = [msg EXCEPT ![c] = msg'[c]] /\ msg'[c] \in Messages
    <2>1. NoMsg \in Messages
      BY Zenon DEF NoMsg, Messages, MsgTypes
    <2> QED BY <1>1, <1>2, <2>1, Zenon DEF ServerTypeOK
  <1>7. late \ {c} = late' \ {c} /\ late' \subseteq Conns /\ c \notin late'
    BY <1>1, <1>2, Zenon DEF ServerTypeOK
  <1>8. Moves(c)
    BY <1>1, <1>2, <1>3, <1>4, <1>5, <1>6, <1>7, PutBack, Values, ZenonT(30) DEF Moves
  <1>9. \A d \in Conns : d # c => Same(d)
    BY <1>1, <1>2, <1>8, MovesEffect, Zenon
  <1>10. AuthTypeOK' /\ Grows /\ UNCHANGED <<pendingChallenges, grants, challenges>>
    BY <1>1, <1>2, AuthAtRest, Zenon
  <1>11. HandlerState(c)'
    <2>1. ~open'[c] /\ ~Served(c)'
      BY <1>1, <1>2, <1>3, Zenon DEF HandlerState, OwnConn, Served, Handshaking, Serving, Unwinding
    <2>2. OwnChallenge(c)' /\ OwnSession(c)' /\ OwnConn(c)'
      BY <1>3, <1>5, <2>1, Zenon DEF OwnChallenge, OwnSession, OwnConn, Serving, Early, Asked, Granted
    <2>3. OwnActions(c)'
      BY <1>3, <1>7, <2>1, Zenon DEF OwnActions
    <2> QED BY <2>2, <2>3, Zenon DEF HandlerState
  <1>12. Pairs'
    <2>1. /\ \A d \in Conns : challenge'[d] \in {challenge[d], NoNonce}
          /\ \A d \in Conns : peer'[d] = NoToken
                               \/ (peer'[d] = peer[d] /\ challenge'[d] = challenge[d])
          /\ \A d \in Conns : Contending(d)' =>
               Contending(d) /\ service'[d] = service[d] /\ challenge'[d] = challenge[d]
      BY <1>3, <1>5, <1>9, Zenon DEF Contending, Same
    <2> QED BY <1>1, <1>2, <1>10, <2>1, PairsKeep, Zenon
  <1>13. Slots'
    <2> DEFINE S == {d \in Conns : Served(d)}
    <2>1. c \in S /\ S' = S \ {c}
      BY <1>2, <1>3, <1>9, Zenon DEF Served, Same, Handshaking, Serving, Unwinding
    <2>2. IsFiniteSet(S)
      BY ServerAssumption, FS_Subset, Zenon
    <2>3. Cardinality(S') = Cardinality(S) - 1
      BY <2>1, <2>2, FS_RemoveElement, Zenon
    <2>4. Cardinality(S') \in Nat
      BY <2>1, <2>2, FS_RemoveElement, FS_CardinalityType, Zenon
    <2> QED BY <1>1, <1>2, <2>3, <2>4, ServerAssumption DEF Slots
  <1> QED BY <1>1, <1>2, <1>8, <1>10, <1>11, <1>12, <1>13, StepOf, Zenon

(* A challenge is drawn: it is nobody else's, and the handshakes it        *)
(* overtakes are its rivals.                                               *)
LEMMA ChallengeCreatedInv ==
    ASSUME SInv, NEW c \in Conns, ChallengeCreated(c)
    PROVE  SInv'
  <1> DEFINE contenders == {d \in Conns : Contending(d) /\ service[d] = service[c]}
  <1>1. /\ ServerTypeOK /\ HandlerState(c) /\ AuthTypeOK /\ Pairs /\ Slots
        /\ \A d \in Conns : HandlerState(d)
    BY Before, Zenon DEF SInv
  <1>2. PICK n \in Nonces : /\ CreateChallenge(service[c], n)
                          /\ challenge' = [challenge EXCEPT ![c] = n]
    BY Zenon DEF ChallengeCreated
  <1>3. /\ pc[c] = "create" /\ Goto(c, "sendChallenge")
        /\ rivals' = [d \in Conns |-> IF d = c THEN contenders
                                      ELSE IF d \in contenders THEN rivals[d] \cup {c}
                                      ELSE rivals[d]]
        /\ UNCHANGED <<up, sem, open, timer, service, answer, peer, msg, audit, late>>
    BY Zenon DEF ChallengeCreated
  <1>4. /\ service[c] \in Known /\ n = Len(challenges) + 1
        /\ challenges' = Append(challenges, service[c])
        /\ pendingChallenges' = [pendingChallenges EXCEPT ![service[c]] = n]
        /\ UNCHANGED <<grants, now>>
    BY <1>2, Zenon DEF CreateChallenge, StoreChallenge
  <1>5. /\ n \notin DOMAIN challenges /\ n \in DOMAIN challenges' /\ challenges'[n] = service[c]
        /\ \A i \in DOMAIN challenges : i \in DOMAIN challenges'
                                        /\ challenges'[i] = challenges[i]
    BY <1>1, <1>4 DEF AuthTypeOK
  <1>6. AuthTypeOK' /\ Grows
    <2>1. AuthTypeOK'
      BY <1>1, <1>2, <1>4, AuthAssumption DEF CreateChallenge, AuthTypeOK, Nonces
    <2> QED BY <1>1, <1>4, <1>5, <2>1 DEF Grows, AuthTypeOK
  <1>7. pc' = [pc EXCEPT ![c] = pc'[c]] /\ pc'[c] = "sendChallenge" /\ pc'[c] \in PCs
    BY <1>1, <1>3, Labels, ZenonT(30) DEF Goto, ServerTypeOK
  <1>8. /\ challenge' = [challenge EXCEPT ![c] = challenge'[c]]
        /\ challenge'[c] \in Nonces \cup {NoNonce} /\ challenge'[c] = n
    BY <1>1, <1>2, ZenonT(30) DEF ServerTypeOK
  <1>9. Moves(c)
    BY <1>1, <1>3, <1>7, <1>8, PutBack, Values, ZenonT(30) DEF Moves
  <1>10. rivals' \in [Conns -> SUBSET Conns]
    BY <1>1, <1>3, Zenon DEF ServerTypeOK
  <1>11. \A d \in Conns : d # c => Same(d)
    BY <1>1, <1>9, <1>10, MovesEffect, ZenonT(30)
  <1>12. n # NoNonce /\ peer[c] = NoToken /\ c \notin late
    BY <1>1, <1>3 DEF HandlerState, OwnSession, OwnActions, Early, Unwinding, Nonces, NoNonce
  <1>13. HandlerState(c)'
    <2>1. Served(c) /\ Served(c)'
      BY <1>3, <1>7, Zenon DEF Served, Handshaking
    <2>2. OwnChallenge(c)' /\ OwnSession(c)' /\ OwnConn(c)'
      BY <1>3, <1>5, <1>7, <1>8, <1>12, <2>1, Zenon DEF OwnChallenge, OwnSession, OwnConn, Serving,
         Early, Asked, Granted
    <2>3. OwnActions(c)'
      BY <1>3, <1>7, <1>12, Zenon DEF OwnActions
    <2> QED BY <2>2, <2>3, Zenon DEF HandlerState
  <1>14. ChallengesOwn'
    <2>1. \A d \in Conns : challenge[d] # NoNonce => challenge[d] \in DOMAIN challenges
      BY <1>1, Zenon DEF HandlerState, OwnChallenge
    <2>2. \A d \in Conns : d # c => challenge'[d] = challenge[d]
      BY <1>11, Zenon DEF Same
    <2>3. \A d \in Conns : d # c => challenge'[d] # n
      BY <1>5, <1>12, <2>1, <2>2, Zenon
    <2> QED BY <1>1, <1>8, <1>11, <2>3 DEF Pairs, ChallengesOwn, Same
  <1>15. /\ ~Contending(c)
         /\ \A d \in Conns : d # c => (Contending(d)' <=> Contending(d)) /\ service'[d] = service[d]
         /\ service'[c] = service[c]
    BY <1>3, <1>11, Zenon DEF Contending, Same
  <1>16. RivalsKnown'
    BY <1>1, <1>3, <1>15, Zenon DEF Pairs, RivalsKnown
  <1>17. PendingHeld'
    <2>1. pendingChallenges'[service[c]] = n
      BY <1>1, <1>4, Zenon DEF AuthTypeOK
    <2>2. ASSUME NEW d \in Conns, d # c, Contending(d)', rivals'[d] = {}
          PROVE  pendingChallenges'[service'[d]] = challenge'[d]
      <3>1. d \notin contenders /\ rivals[d] = {}
        BY <1>3, <2>2, Zenon
      <3>2. Contending(d) /\ service[d] # service[c] /\ challenge'[d] = challenge[d]
        BY <1>11, <1>15, <2>2, <3>1, Zenon DEF Same
      <3>3. pendingChallenges[service[d]] = challenge[d]
        BY <1>1, <3>1, <3>2, Zenon DEF Pairs, PendingHeld
      <3>4. service[d] \in Known
        BY <1>1, <3>2 DEF HandlerState, OwnChallenge, Contending, Asked, AuthTypeOK
      <3> QED BY <1>1, <1>4, <1>15, <2>2, <3>2, <3>3, <3>4, Zenon DEF AuthTypeOK
    <2> QED BY <1>8, <1>15, <2>1, <2>2, Zenon DEF PendingHeld
  <1>18. PendingNewer'
    <2>1. pendingChallenges'[service[c]] = n
      BY <1>1, <1>4, Zenon DEF AuthTypeOK
    <2>2. ASSUME NEW d \in Conns, d # c, Contending(d)',
                 pendingChallenges'[service'[d]] # NoNonce
          PROVE  pendingChallenges'[service'[d]] >= challenge'[d]
      <3>1. Contending(d) /\ challenge'[d] = challenge[d] /\ service'[d] = service[d]
        BY <1>11, <1>15, <2>2, Zenon DEF Same
      <3>2. challenge[d] \in DOMAIN challenges
        BY <1>1, <3>1, Zenon DEF HandlerState, OwnChallenge, Contending, Asked
      <3>3. CASE service[d] = service[c]
        <4>1. n >= challenge[d]
          BY <1>1, <1>4, <3>2 DEF AuthTypeOK
        <4> QED BY <2>1, <3>1, <3>3, <4>1, Zenon
      <3>4. CASE service[d] # service[c]
        <4>1. service[d] \in Known
          BY <1>1, <3>1 DEF HandlerState, OwnChallenge, Contending, Asked, AuthTypeOK
        <4>2. pendingChallenges'[service[d]] = pendingChallenges[service[d]]
          BY <1>1, <1>4, <3>4, <4>1, Zenon DEF AuthTypeOK
        <4> QED BY <1>1, <2>2, <3>1, <4>2, Zenon DEF Pairs, PendingNewer
      <3> QED BY <3>3, <3>4, Zenon
    <2>3. n >= n
      BY <1>2 DEF Nonces
    <2> QED BY <1>8, <1>15, <2>1, <2>2, <2>3, Zenon DEF PendingNewer
  <1>19. SessionsOwn' /\ EarnedAlone'
    <2>1. peer' = peer /\ peer[c] = NoToken
      BY <1>3, <1>12, Zenon
    <2>2. SessionsOwn'
      BY <1>1, <2>1, Zenon DEF Pairs, SessionsOwn
    <2>3. ASSUME NEW d \in Conns, peer'[d] # NoToken, rivals'[d] = {}
          PROVE  grants'[peer'[d]].nonce = challenge'[d]
      <3>1. d # c /\ challenge'[d] = challenge[d]
        BY <1>11, <2>1, <2>3, Zenon DEF Same
      <3>2. d \notin contenders
        BY <1>1, <2>1, <2>3, Zenon DEF HandlerState, OwnSession, Contending, Asked
      <3>3. rivals[d] = {}
        BY <1>3, <2>3, <3>1, <3>2, Zenon
      <3> QED BY <1>1, <1>4, <2>1, <2>3, <3>1, <3>3, Zenon DEF Pairs, EarnedAlone
    <2> QED BY <2>2, <2>3, Zenon DEF EarnedAlone
  <1>20. Slots'
    <2>1. \A d \in Conns : Served(d)' <=> Served(d)
      BY <1>3, <1>7, <1>11, Zenon DEF Served, Same, Handshaking
    <2> QED BY <1>1, <1>3, <2>1, SlotsKeep, Zenon
  <1> QED BY <1>6, <1>9, <1>10, <1>13, <1>14, <1>16, <1>17, <1>18, <1>19, <1>20, StepOf, Zenon
          DEF Pairs

(* The deletion of a pending challenge keeps the types. *)
LEMMA ConsumeType ==
    ASSUME AuthTypeOK, NEW s \in Known, NEW r, pendingChallenges[s] # NoNonce, Consume(s, r)
    PROVE  /\ pendingChallenges' \in [Known -> Nonces \cup {NoNonce}]
           /\ tried' \in [Nonces -> Nat]
  BY DEF AuthTypeOK, Consume

(* A handler that leaves the handshake by VerifyResponse takes the pending *)
(* challenge of its service with it, which was nobody's but its rivals'.   *)
LEMMA VerifiedPairs ==
    ASSUME SInv, NEW c \in Conns, pc[c] = "verify", pc'[c] \notin Asked,
           \A d \in Conns : d # c => Same(d), challenge'[c] = challenge[c], UNCHANGED rivals,
           \A s \in Known : s # service[c] => pendingChallenges'[s] = pendingChallenges[s],
           service[c] \in Known => pendingChallenges'[service[c]] = NoNonce
                                  \/ UNCHANGED pendingChallenges,
           SessionsOwn', EarnedAlone'
    PROVE  Pairs'
  <1>1. Pairs /\ AuthTypeOK /\ \A d \in Conns : HandlerState(d)
    BY Before, Zenon DEF SInv
  <1>2. /\ Contending(c) /\ ~Contending(c)'
        /\ \A d \in Conns : d # c =>
            (Contending(d)' <=> Contending(d)) /\ service'[d] = service[d]
            /\ challenge'[d] = challenge[d]
    BY Zenon DEF Contending, Asked, Same
  <1>3. ChallengesOwn'
    BY <1>1, <1>2 DEF Pairs, ChallengesOwn
  <1>4. RivalsKnown'
    BY <1>1, <1>2, Zenon DEF Pairs, RivalsKnown
  <1>5. PendingHeld'
    <2>1. ASSUME NEW d \in Conns, Contending(d)', rivals'[d] = {}
          PROVE  pendingChallenges'[service'[d]] = challenge'[d]
      <3>1. d # c /\ Contending(d) /\ rivals[d] = {}
        BY <1>2, <2>1, Zenon
      <3>2. service[d] # service[c]
        BY <1>1, <1>2, <3>1, Zenon DEF Pairs, RivalsKnown
      <3>3. service[d] \in Known
        BY <1>1, <3>1 DEF HandlerState, OwnChallenge, Contending, Asked, AuthTypeOK
      <3> QED BY <1>1, <1>2, <3>1, <3>2, <3>3 DEF Pairs, PendingHeld
    <2> QED BY <2>1, Zenon DEF PendingHeld
  <1>6. PendingNewer'
    <2>1. ASSUME NEW d \in Conns, Contending(d)', pendingChallenges'[service'[d]] # NoNonce
          PROVE  pendingChallenges'[service'[d]] >= challenge'[d]
      <3>1. d # c /\ Contending(d) /\ service'[d] = service[d] /\ challenge'[d] = challenge[d]
        BY <1>2, <2>1, Zenon
      <3>2. service[d] \in Known
        BY <1>1, <3>1 DEF HandlerState, OwnChallenge, Contending, Asked, AuthTypeOK
      <3>3. pendingChallenges'[service[d]] = pendingChallenges[service[d]]
        BY <2>1, <3>1, <3>2, Zenon
      <3> QED BY <1>1, <2>1, <3>1, <3>3, Zenon DEF Pairs, PendingNewer
    <2> QED BY <2>1, Zenon DEF PendingNewer
  <1> QED BY <1>3, <1>4, <1>5, <1>6, Zenon DEF Pairs

(* VerifyResponse returns an identity: the response was to the challenge   *)
(* that pends for the service, this connection's or one sent later.        *)
LEMMA ResponseAcceptedInv ==
    ASSUME SInv, NEW c \in Conns, ResponseAccepted(c)
    PROVE  SInv'
  <1> DEFINE s == service[c]
             t == Len(grants) + 1
             id == [service |-> s, created |-> now, ttl |-> sessionTTL,
                    nonce |-> pendingChallenges[s]]
  <1>1. /\ ServerTypeOK /\ HandlerState(c) /\ AuthTypeOK /\ Slots /\ Pairs
        /\ rivals \in [Conns -> SUBSET Conns] /\ \A d \in Conns : OwnSession(d)
    BY Before, Zenon DEF SInv, ServerTypeOK, HandlerState
  <1>2. /\ pc[c] = "verify" /\ VerifyResponse(s, answer[c])
        /\ peer' = [peer EXCEPT ![c] = Len(grants')] /\ Goto(c, "verified")
        /\ UNCHANGED <<up, sem, open, timer, service, challenge, answer, msg, audit, late,
                       rivals>>
    BY Zenon DEF ResponseAccepted
  <1>3. /\ s \in Known /\ pendingChallenges[s] # NoNonce /\ answer[c] = pendingChallenges[s]
        /\ grants' = Append(grants, id)
        /\ pendingChallenges' = [pendingChallenges EXCEPT ![s] = NoNonce]
        /\ UNCHANGED <<now, challenges>>
    BY <1>2, Zenon DEF VerifyResponse, HasPending, Answers, Consume, NewSession
  <1>4. /\ challenge[c] # NoNonce /\ pendingChallenges[s] >= challenge[c]
        /\ rivals[c] = {} => pendingChallenges[s] = challenge[c]
    BY <1>1, <1>2, <1>3, Zenon DEF HandlerState, OwnChallenge, Asked, Contending, Pairs, PendingNewer,
       PendingHeld
  <1>5. /\ id \in PeerIdentity /\ id.nonce = pendingChallenges[s] /\ id.service = s
    BY <1>1, <1>3, AuthAssumption, Zenon DEF AuthTypeOK, PeerIdentity
  <1>6. /\ Len(grants') = t /\ t \in DOMAIN grants' /\ grants'[t] = id /\ t \in Nat /\ t # NoToken
        /\ t \notin DOMAIN grants
        /\ \A u \in DOMAIN grants : u \in DOMAIN grants' /\ grants'[u] = grants[u]
    <2> HIDE DEF id
    <2>1. grants \in Seq(PeerIdentity)
      BY <1>1, Zenon DEF AuthTypeOK
    <2> QED BY <1>3, <1>5, <2>1 DEF NoToken
  <1>7. AuthTypeOK' /\ Grows
    <2>1. grants' \in Seq(PeerIdentity) /\ activeSessions' \subseteq DOMAIN grants'
      <3>1. grants \in Seq(PeerIdentity) /\ activeSessions \subseteq DOMAIN grants
        BY <1>1, Zenon DEF AuthTypeOK
      <3>2. activeSessions' = activeSessions \cup {Len(grants) + 1}
        BY <1>2, Zenon DEF VerifyResponse, NewSession
      <3> QED BY <1>3, <1>5, <3>1, <3>2
    <2>2. AuthTypeOK'
      BY <1>1, <1>2, <1>3, <2>1, ConsumeType, Zenon DEF VerifyResponse, AuthTypeOK
    <2> QED BY <1>1, <1>3, <1>6, <2>2 DEF Grows, AuthTypeOK
  <1>8. pc' = [pc EXCEPT ![c] = pc'[c]] /\ pc'[c] = "verified" /\ pc'[c] \in PCs
    BY <1>1, <1>2, Labels, ZenonT(30) DEF Goto, ServerTypeOK
  <1>9. peer' = [peer EXCEPT ![c] = peer'[c]] /\ peer'[c] \in Nat /\ peer'[c] = t
    BY <1>1, <1>2, <1>6, ZenonT(30) DEF ServerTypeOK
  <1> HIDE DEF t, id
  <1>10. Moves(c)
    BY <1>1, <1>2, <1>8, <1>9, PutBack, Values, ZenonT(30) DEF Moves
  <1>11. \A d \in Conns : d # c => Same(d)
    BY <1>1, <1>2, <1>10, MovesEffect, Zenon
  <1>12. HandlerState(c)'
    <2>1. Served(c) /\ Served(c)' /\ c \notin late /\ peer[c] = NoToken
      BY <1>1, <1>2, <1>8, Zenon DEF Served, Handshaking, HandlerState, OwnActions, OwnSession, Asked,
         Unwinding
    <2>2. OwnSession(c)' /\ OwnConn(c)'
      BY <1>2, <1>3, <1>4, <1>5, <1>6, <1>8, <1>9, <2>1, ZenonT(30) DEF OwnSession, OwnConn, Serving, Early,
         Asked, Granted
    <2>3. OwnChallenge(c)'
      BY <1>1, <1>2, <1>3, <1>4, <1>8, Zenon DEF HandlerState, OwnChallenge, Early, Asked
    <2>4. OwnActions(c)'
      BY <1>2, <1>8, <2>1, Zenon DEF OwnActions
    <2> QED BY <2>2, <2>3, <2>4, Zenon DEF HandlerState
  <1>13. Pairs'
    <2>1. \A u \in Known : u # s => pendingChallenges'[u] = pendingChallenges[u]
      BY <1>1, <1>3, Zenon DEF AuthTypeOK
    <2>2. pc'[c] \notin Asked /\ challenge'[c] = challenge[c]
      BY <1>2, <1>8, Zenon DEF Asked
    <2>3. pendingChallenges'[s] = NoNonce
      BY <1>1, <1>3, Zenon DEF AuthTypeOK
    <2>4. \A d \in Conns : d # c =>
            /\ peer'[d] = peer[d] /\ challenge'[d] = challenge[d] /\ peer[d] # t
            /\ peer[d] # NoToken => grants'[peer[d]] = grants[peer[d]]
      BY <1>1, <1>6, <1>11, Zenon DEF Same, OwnSession
    <2>5. SessionsOwn'
      <3>1. ASSUME NEW d \in Conns, NEW e \in Conns, peer'[d] # NoToken, peer'[d] = peer'[e], d # e
            PROVE  FALSE
        <4>1. CASE d = c
          BY <1>9, <2>4, <3>1, <4>1, Zenon
        <4>2. CASE e = c
          BY <1>9, <2>4, <3>1, <4>2, Zenon
        <4>3. CASE d # c /\ e # c
          BY <1>1, <2>4, <3>1, <4>3, ZenonT(30) DEF Pairs, SessionsOwn
        <4> QED BY <4>1, <4>2, <4>3, Zenon
      <3> QED BY <3>1, Zenon DEF SessionsOwn
    <2>6. EarnedAlone'
      <3>1. ASSUME NEW d \in Conns, peer'[d] # NoToken, rivals'[d] = {}
            PROVE  grants'[peer'[d]].nonce = challenge'[d]
        <4>1. CASE d = c
          BY <1>2, <1>4, <1>5, <1>6, <1>9, <3>1, <4>1, Zenon
        <4>2. CASE d # c
          <5>1. grants[peer[d]].nonce = challenge[d]
            BY <1>1, <1>2, <2>4, <3>1, <4>2, Zenon DEF Pairs, EarnedAlone
          <5> QED BY <2>4, <3>1, <4>2, <5>1, Zenon
        <4> QED BY <4>1, <4>2, Zenon
      <3> QED BY <3>1, Zenon DEF EarnedAlone
    <2> QED BY <1>2, <1>11, <2>1, <2>2, <2>3, <2>5, <2>6, VerifiedPairs, Zenon
  <1>14. Slots'
    <2>1. \A d \in Conns : Served(d)' <=> Served(d)
      BY <1>2, <1>8, <1>11, Zenon DEF Served, Same, Handshaking
    <2> QED BY <1>1, <1>2, <2>1, SlotsKeep, Zenon
  <1> QED BY <1>1, <1>2, <1>7, <1>10, <1>12, <1>13, <1>14, StepOf, Zenon

(* VerifyResponse returns an error. *)
LEMMA ResponseRefusedInv ==
    ASSUME SInv, NEW c \in Conns, ResponseRefused(c)
    PROVE  SInv'
  <1>1. /\ ServerTypeOK /\ HandlerState(c) /\ AuthTypeOK /\ Slots /\ Pairs
        /\ rivals \in [Conns -> SUBSET Conns] /\ \A d \in Conns : OwnSession(d)
    BY Before, Zenon DEF SInv, ServerTypeOK, HandlerState
  <1>2. /\ pc[c] = "verify" /\ VerifyResponseFails(service[c], answer[c])
        /\ Log(c, "authenticate", "denied") /\ Goto(c, "sendDenied")
        /\ UNCHANGED <<up, sem, open, timer, service, challenge, answer, peer, msg, late,
                       rivals>>
    BY Zenon DEF ResponseRefused
  <1>3. /\ UNCHANGED <<grants, challenges, now>>
        /\ \A u \in Known : u # service[c] => pendingChallenges'[u] = pendingChallenges[u]
        /\ service[c] \in Known => pendingChallenges'[service[c]] = NoNonce
                                  \/ UNCHANGED pendingChallenges
    BY <1>1, <1>2, Zenon DEF VerifyResponseFails, Consume, authVars, AuthTypeOK
  <1>4. AuthTypeOK' /\ Grows
    <2>1. AuthTypeOK'
      BY <1>1, <1>2, ConsumeType, Zenon DEF VerifyResponseFails, HasPending, authVars, AuthTypeOK
    <2> QED BY <1>1, <1>3, <2>1 DEF Grows, AuthTypeOK
  <1>5. \E e \in AuditEntry : audit' = [audit EXCEPT ![c] = e]
    BY <1>1, <1>2, Logged, Zenon
  <1>6. /\ Moves(c) /\ pc'[c] = "sendDenied"
        /\ service'[c] = service[c] /\ challenge'[c] = challenge[c] /\ peer'[c] = peer[c]
    BY <1>1, <1>2, <1>5, Labels, GotoMoves, ZenonT(30)
  <1>7. \A d \in Conns : d # c => Same(d)
    BY <1>1, <1>2, <1>6, MovesEffect, Zenon
  <1>8. HandlerState(c)'
    <2>1. Served(c) /\ Served(c)' /\ c \notin late
      BY <1>1, <1>2, <1>6, Zenon DEF Served, Handshaking, HandlerState, OwnActions, Unwinding
    <2>2. OwnChallenge(c)' /\ OwnSession(c)' /\ OwnConn(c)'
      BY <1>1, <1>2, <1>3, <1>6, <2>1, Zenon DEF HandlerState, OwnChallenge, OwnSession, OwnConn,
         Serving, Early, Asked, Granted
    <2>3. OwnActions(c)'
      BY <1>2, <1>5, <1>6, <2>1, Zenon DEF OwnActions
    <2> QED BY <2>2, <2>3, Zenon DEF HandlerState
  <1>9. Pairs'
    <2>1. pc'[c] \notin Asked
      BY <1>6, Zenon DEF Asked
    <2>2. SessionsOwn' /\ EarnedAlone'
      BY <1>1, <1>2, <1>3, Zenon DEF Pairs, SessionsOwn, EarnedAlone
    <2> QED BY <1>2, <1>3, <1>6, <1>7, <2>1, <2>2, VerifiedPairs, Zenon
  <1>10. Slots'
    <2>1. \A d \in Conns : Served(d)' <=> Served(d)
      BY <1>2, <1>6, <1>7, Zenon DEF Served, Same, Handshaking
    <2> QED BY <1>1, <1>2, <2>1, SlotsKeep, Zenon
  <1> QED BY <1>1, <1>2, <1>4, <1>6, <1>8, <1>9, <1>10, StepOf, Zenon

(* The process ends. *)
LEMMA ExitInv ==
    ASSUME SInv, Exit
    PROVE  SInv'
  <1>1. /\ ServerTypeOK /\ AuthTypeOK /\ Pairs /\ Slots /\ \A c \in Conns : HandlerState(c)
    BY Zenon DEF SInv
  <1>2. /\ up' = FALSE /\ sem' = 0 /\ pc' = [c \in Conns |-> "done"]
        /\ open' = [c \in Conns |-> FALSE] /\ timer' = [c \in Conns |-> "exited"]
        /\ UNCHANGED <<authVars, service, challenge, answer, peer, msg, audit, late, rivals>>
    BY Zenon DEF Exit
  <1>3. "done" \in PCs
    BY Labels, Zenon
  <1>4. ServerTypeOK'
    BY <1>1, <1>2, <1>3, Zenon DEF ServerTypeOK
  <1>5. AuthTypeOK' /\ UNCHANGED <<grants, challenges, now, pendingChallenges>>
    BY <1>1, <1>2, AuthAtRest, Zenon
  <1>6. \A c \in Conns : pc'[c] = "done" /\ ~open'[c] /\ ~Served(c)' /\ ~Contending(c)'
    BY <1>2, Zenon DEF Served, Handshaking, Serving, Unwinding, Contending
  <1>7. ASSUME NEW c \in Conns PROVE HandlerState(c)'
    <2>1. OwnChallenge(c)' /\ OwnSession(c)' /\ OwnConn(c)'
      BY <1>1, <1>2, <1>5, <1>6, Zenon DEF HandlerState, OwnChallenge, OwnSession, OwnConn, Serving,
         Early, Asked, Granted
    <2>2. OwnActions(c)'
      BY <1>1, <1>2, <1>5, <1>6, Zenon DEF HandlerState, OwnActions, IsExpired
    <2> QED BY <2>1, <2>2, Zenon DEF HandlerState
  <1>8. Pairs'
    <2>1. Grows /\ \A c \in Conns : OwnSession(c)
      BY <1>1, <1>5 DEF Grows, AuthTypeOK, HandlerState
    <2> QED BY <1>1, <1>2, <1>5, <1>6, <2>1, PairsKeep, Zenon
  <1>9. Slots'
    <2>1. {c \in Conns : Served(c)}' = {}
      BY <1>6, Zenon
    <2> QED BY <1>2, <2>1, ServerAssumption, FS_EmptySet DEF Slots
  <1> QED BY <1>4, <1>5, <1>7, <1>8, <1>9, Zenon DEF SInv

(* Time passes, and the cleanup goroutine runs. *)
LEMMA BackgroundInv ==
    ASSUME SInv, CleanupLoop \/ Time \/ UNCHANGED vars
    PROVE  SInv'
  <1>1. /\ ServerTypeOK /\ AuthTypeOK /\ Pairs /\ Slots
        /\ \A c \in Conns : HandlerState(c)
    BY Zenon DEF SInv
  <1>2. UNCHANGED <<up, sem, pc, open, timer, service, challenge, answer, peer, msg, audit,
                    late, rivals>>
    BY Zenon DEF CleanupLoop, Time, vars, connVars
  <1>3. /\ UNCHANGED <<pendingChallenges, grants, challenges>>
        /\ now' \in Nat /\ now' >= now
    BY <1>1 DEF CleanupLoop, CleanupExpired, Time, Tick, vars, authVars, AuthTypeOK
  <1>4. AuthTypeOK'
    BY <1>1 DEF CleanupLoop, CleanupExpired, Time, Tick, vars, authVars, AuthTypeOK
  <1>5. Grows
    BY <1>3, Zenon DEF Grows
  <1>6. \A c \in Conns : Same(c) /\ (Served(c)' <=> Served(c)) /\ (Contending(c)' => Contending(c))
    BY <1>2, Zenon DEF Same, Served, Contending
  <1>7. \A c \in Conns : HandlerState(c)'
    BY <1>1, <1>5, <1>6, OthersKeep, Zenon
  <1>8. ServerTypeOK'
    BY <1>1, <1>2, Zenon DEF ServerTypeOK
  <1>9. Pairs'
    BY <1>1, <1>2, <1>3, <1>5, <1>6, PairsKeep, Zenon DEF HandlerState
  <1>10. Slots'
    BY <1>1, <1>2, <1>6, SlotsKeep, Zenon
  <1> QED BY <1>4, <1>7, <1>8, <1>9, <1>10, Zenon DEF SInv

(* The server starts without connections. *)
LEMMA ServerInitInv ==
    ASSUME Init
    PROVE  SInv
  <1>1. AuthTypeOK
    BY AuthAssumption DEF Init, AuthInit, NewAuthenticator, AuthTypeOK
  <1>2. ServerTypeOK
    <2>1. NoMsg \in Messages /\ NoEntry \in AuditEntry /\ "idle" \in PCs
      BY Labels, Zenon DEF NoMsg, Messages, MsgTypes, AuditEntry
    <2> QED BY <2>1, Zenon DEF Init, ServerTypeOK, NoService, NoToken
  <1>3. ASSUME NEW c \in Conns
        PROVE  /\ pc[c] = "idle" /\ ~open[c] /\ challenge[c] = NoNonce /\ peer[c] = NoToken
               /\ c \notin late /\ ~Served(c) /\ ~Contending(c)
    BY Zenon DEF Init, Served, Handshaking, Serving, Unwinding, Contending
  <1>4. ASSUME NEW c \in Conns PROVE HandlerState(c)
    BY <1>3, Zenon DEF HandlerState, OwnChallenge, OwnSession, OwnActions, OwnConn, Serving, Early,
       Asked, Granted
  <1>5. Pairs
    BY <1>3, Zenon DEF Pairs, ChallengesOwn, RivalsKnown, PendingHeld, PendingNewer, SessionsOwn,
       EarnedAlone
  <1>6. Slots
    <2>1. {c \in Conns : Served(c)} = {}
      BY <1>3, Zenon
    <2> QED BY <2>1, ServerAssumption, FS_EmptySet, SMTT(30) DEF Slots, Init
  <1> QED BY <1>1, <1>2, <1>4, <1>5, <1>6, Zenon DEF SInv

(* Every step of the server keeps the invariant. *)
LEMMA ServerStepInv ==
    ASSUME SInv, [Next]_vars
    PROVE  SInv'
  <1>1. ASSUME NEW c \in Conns, Local(c) PROVE SInv'
    BY <1>1, ChallengeCreatedInv, ChallengeRefusedInv, ResponseAcceptedInv, ResponseRefusedInv,
       CompletedInv, CheckCapabilityInv, DispatchInv, CloseInv, ReleaseInv, Zenon DEF Local
  <1>2. ASSUME NEW c \in Conns, PeerStep(c) PROVE SInv'
    BY <1>2, RecvAuthInv, RecvResponseInv, ReceiveFailsInv, RecvMessageInv, Zenon DEF PeerStep
  <1>3. ASSUME NEW c \in Conns,
               \/ Accept(c) \/ RejectConn(c) \/ TimerStep(c)
               \/ ReceiveFails(c) \/ SendSucceeds(c) \/ SendFails(c)
        PROVE  SInv'
    BY <1>3, AcceptInv, CloseInv, TimerInv, ReceiveFailsInv, SendInv, Zenon
  <1> QED BY <1>1, <1>2, <1>3, BackgroundInv, ExitInv, Zenon DEF Next

(* The invariant holds of every behaviour of the server. *)
THEOREM ServerInductive == Spec => []SInv
  BY ServerInitInv, ServerStepInv, PTL DEF Spec

(* Every variable of the server keeps its type; in particular, connSem     *)
(* never holds more tokens than it has room for, or fewer than none.       *)
THEOREM ServerTypeCorrect == Spec => []TypeOK
  <1>1. SInv => TypeOK
    BY Zenon DEF SInv, ServerTypeOK, Slots, TypeOK
  <1> QED BY <1>1, ServerInductive, PTL

(* For any number of connections and slots: the tokens in connSem are the  *)
(* handlers that run, and an open connection has one.                      *)
THEOREM SlotsAreHandlers == Spec => []SlotsMatchHandlers
  <1>1. SInv => SlotsMatchHandlers
    BY Zenon DEF SInv, Slots, HandlerState, OwnConn, SlotsMatchHandlers
  <1> QED BY <1>1, ServerInductive, PTL

(* However handshakes for the same service interleave, and whichever       *)
(* challenges the peers answer: the session that a handler serves is for   *)
(* its service, no other handler has it, and it was earned by answering a  *)
(* challenge no older than the handler's own, and that very one if nobody  *)
(* else was in a handshake for the service meanwhile.                      *)
THEOREM SessionsAreFresh == Spec => []SessionFresh
  <1>1. ASSUME SInv, NEW c \in Conns, pc[c] \in Granted
        PROVE  /\ peer[c] \in DOMAIN grants
               /\ grants[peer[c]].service = service[c]
               /\ grants[peer[c]].nonce >= challenge[c]
               /\ rivals[c] = {} => grants[peer[c]].nonce = challenge[c]
               /\ \A d \in Conns : peer[d] = peer[c] => d = c
    <2>1. OwnSession(c) /\ SessionsOwn /\ EarnedAlone
      BY <1>1, Zenon DEF SInv, HandlerState, Pairs
    <2>2. peer[c] # NoToken
      BY <1>1, <2>1, Zenon DEF OwnSession
    <2> QED BY <2>1, <2>2, Zenon DEF OwnSession, SessionsOwn, EarnedAlone
  <1>2. SInv => SessionFresh
    BY <1>1, Zenon DEF SessionFresh, Granted
  <1> QED BY <1>2, ServerInductive, PTL

(* A request is acknowledged only if the service of the session holds a    *)
(* capability that permits what its handler checks for the message's type, *)
(* and the log then says that what the message asks for was allowed.       *)
THEOREM ActionsAreAuthorised == Spec => []ActionsAuthorised
  <1>1. ASSUME SInv, NEW c \in Conns, pc[c] = "reply"
        PROVE  /\ Entitled(peer[c], Required[msg[c].type])
               /\ audit[c] = <<Audited(msg[c]), "allowed">>
    BY <1>1, Zenon DEF SInv, HandlerState, OwnActions
  <1>2. SInv => ActionsAuthorised
    BY <1>1, Zenon DEF Entitled, Permits, ActionsAuthorised
  <1> QED BY <1>2, ServerInductive, PTL

(* A message that came after its session expired is not dispatched. *)
THEOREM LateIsNeverDispatched == Spec => []LateNeverDispatched
  <1>1. SInv => LateNeverDispatched
    BY Zenon DEF SInv, ServerTypeOK, HandlerState, OwnActions, LateNeverDispatched, Unwinding
  <1> QED BY <1>1, ServerInductive, PTL

(* A right answer finds its challenge gone only if another handshake for   *)
(* the same service was under way.                                         *)
THEOREM RefusalsHaveRivals == Spec => []RefusalNeedsRival
  <1>1. SInv => RefusalNeedsRival
    BY Zenon DEF SInv, Pairs, PendingHeld, Contending, RefusalNeedsRival
  <1> QED BY <1>1, ServerInductive, PTL

(* One step of the server is at most one call of the authenticator. *)
LEMMA ServerStepIsAuthStep ==
    ASSUME SInv, [Next]_vars
    PROVE  [AuthNext]_authVars
  <1>1. ASSUME NEW c \in Conns, ChallengeCreated(c) \/ ChallengeRefused(c) PROVE AuthNext
    <2>1. service[c] \in Known \cup {Unknown}
      BY Zenon DEF SInv, ServerTypeOK
    <2> QED BY <1>1, <2>1, Zenon DEF ChallengeCreated, ChallengeRefused, AuthNext
  <1>2. ASSUME NEW c \in Conns, ResponseAccepted(c) \/ ResponseRefused(c) PROVE AuthNext
    <2>1. service[c] \in Known \cup {Unknown} /\ answer[c] \in Responses \cup {NoNonce}
      BY Zenon DEF SInv, ServerTypeOK
    <2>2. VerifyResponse(service[c], answer[c]) => answer[c] # NoNonce
      BY Zenon DEF VerifyResponse, HasPending, Answers
    <2>3. VerifyResponseFails(service[c], NoNonce) => VerifyResponseFails(service[c], BadMac)
      <3>1. BadMac \notin Nonces \cup {NoNonce}
        BY DEF BadMac, Nonces, NoNonce
      <3>2. HasPending(service[c]) => pendingChallenges[service[c]] \in Nonces \cup {NoNonce}
        BY Zenon DEF HasPending, SInv, AuthTypeOK
      <3>3. HasPending(service[c]) => ~Answers(service[c], BadMac)
        BY <3>1, <3>2, Zenon DEF Answers
      <3> QED BY <3>3, Zenon DEF VerifyResponseFails, Consume
    <2>4. BadMac \in Responses
      BY Zenon DEF Responses
    <2>5. \E r \in Responses : VerifyResponse(service[c], r) \/ VerifyResponseFails(service[c], r)
      BY <1>2, <2>1, <2>2, <2>3, <2>4, Zenon DEF ResponseAccepted, ResponseRefused
    <2> QED BY <2>1, <2>5, Zenon DEF AuthNext
  <1>3. ASSUME NEW c \in Conns, Local(c) PROVE [AuthNext]_authVars
    BY <1>1, <1>2, <1>3, Zenon DEF Local, AuthCompleted, CheckExpired, CheckCapability,
       DispatchChecked, DispatchSilent, CloseConn, ReleaseSlot
  <1>4. ASSUME NEW c \in Conns,
               \/ Accept(c) \/ RejectConn(c) \/ TimerStep(c) \/ PeerStep(c)
               \/ ReceiveFails(c) \/ SendSucceeds(c) \/ SendFails(c)
        PROVE  UNCHANGED authVars
    BY <1>4, Zenon DEF Accept, RejectConn, TimerStep, TimerFires, TimerCloses, TimerExits, PeerStep,
       RecvAuth, RecvResponse, RecvUndecodable, RecvMessage, ReceiveFails, SendSucceeds, SendFails
  <1>5. ASSUME CleanupLoop \/ Time PROVE AuthNext
    BY <1>5, Zenon DEF CleanupLoop, Time, AuthNext
  <1>6. ASSUME Exit \/ UNCHANGED vars PROVE UNCHANGED authVars
    BY <1>6, Zenon DEF Exit, vars
  <1> QED BY <1>3, <1>4, <1>5, <1>6, Zenon DEF Next

(* The server touches the authenticator only through its operations, one   *)
(* at a time: whatever AuthenticatorProofs shows of every use of the       *)
(* authenticator holds of the one that the handlers share.                 *)
THEOREM ServerUsesAuthenticator == Spec => AuthSpec
  <1>1. Init => AuthInit
    BY Zenon DEF Init
  <1> QED BY <1>1, ServerInductive, ServerStepIsAuthStep, PTL DEF Spec, AuthSpec
-----------------------------------------------------------------------------
(* The messages in a stream. *)
Held(q) == {q[i] : i \in DOMAIN q}

(* The messages of each direction. *)
ToClient ==
    ({"challenge"} \X Nonces) \cup ({"authResponse"} \X {"denied", "ok"})
    \cup ({"ack"} \X {"ok", "error"})
ToServer ==
    {AuthRequest(ClientService), Plain(Intent), Plain(Heartbeat)}
    \cup {AuthAnswer(n) : n \in Nonces}

(* Challenges, responses to them, and the news that one was accepted. *)
Asks(m) == m[1] = "challenge"
Answering(m) == m[1] = "authResponse"
TellsOk(m) == m = <<"authResponse", "ok">>

(* What is on its way on connection c, in either direction, and what the   *)
(* client has learnt, agrees with what the handler of c holds, as long as  *)
(* it runs.                                                                *)
StreamState(c) ==
    /\ service[c] \in {ClientService, NoService}
    /\ pc[c] # "done" =>
        /\ answer[c] \in {challenge[c], NoNonce}
        /\ \A m \in Held(s2c[c]) : Asks(m) => m[2] = challenge[c]
        /\ \A m \in Held(c2s[c]) : Answering(m) => m[2] = challenge[c]
        /\ result[c] = "ok" => peer[c] # NoToken
        /\ \A m \in Held(s2c[c]) : TellsOk(m) => peer[c] # NoToken

(* The types of the streams and of the clients' variables. *)
StreamTypeOK ==
    /\ s2c \in [Conns -> Seq(ToClient)]
    /\ c2s \in [Conns -> Seq(ToServer)]
    /\ cpc \in [Conns -> CPCs]
    /\ result \in [Conns -> {"none", "denied", "ok"}]

(* The inductive invariant of server and clients together. *)
SysInv == SInv /\ StreamTypeOK /\ \A c \in Conns : StreamState(c)
-----------------------------------------------------------------------------
(* What a send and a receive do to the messages in a stream. *)
LEMMA HeldAppend ==
    ASSUME NEW S, NEW q \in Seq(S), NEW m \in S
    PROVE  Append(q, m) \in Seq(S) /\ Held(Append(q, m)) = Held(q) \cup {m}
  <1>1. /\ Append(q, m) \in Seq(S) /\ Len(q) \in Nat
        /\ DOMAIN q = 1 .. Len(q) /\ DOMAIN Append(q, m) = 1 .. Len(q) + 1
        /\ \A i \in 1 .. Len(q) : Append(q, m)[i] = q[i]
        /\ Append(q, m)[Len(q) + 1] = m
    OBVIOUS
  <1>2. \A i : i \in 1 .. Len(q) + 1 <=> i \in 1 .. Len(q) \/ i = Len(q) + 1
    BY <1>1
  <1> QED BY <1>1, <1>2, Zenon DEF Held

(* What a receive leaves. *)
LEMMA HeldTail ==
    ASSUME NEW S, NEW q \in Seq(S), q # <<>>
    PROVE  /\ Tail(q) \in Seq(S) /\ Held(Tail(q)) \subseteq Held(q)
           /\ Head(q) \in S /\ Head(q) \in Held(q)
  BY DEF Held

(* An empty stream holds nothing. *)
LEMMA HeldNone == Held(<<>>) = {}
  BY DEF Held
-----------------------------------------------------------------------------
(* Until the handler of c ends it keeps its challenge and its session, and *)
(* it takes no answer but one to that challenge.                           *)
Keeps(c) ==
    pc'[c] # "done" =>
        /\ pc[c] # "done"
        /\ challenge[c] # NoNonce => challenge'[c] = challenge[c]
        /\ peer[c] # NoToken => peer'[c] # NoToken
        /\ answer'[c] \in {answer[c], challenge'[c]}

(* A step that moves a handler and touches no challenge and no session. *)
LEMMA IdleKeeps ==
    ASSUME SInv, NEW c \in Conns, NEW d \in Conns,
           UNCHANGED <<challenge, peer>>, pc' = pc \/ (pc[c] # "done" /\ \E l : Goto(c, l)),
           answer' = answer \/ answer' = [answer EXCEPT ![c] = challenge[c]]
    PROVE  Keeps(d)
  <1>1. pc \in [Conns -> PCs] /\ answer \in [Conns -> Responses \cup {NoNonce}]
    BY Zenon DEF SInv, ServerTypeOK
  <1>2. pc'[d] # "done" => pc[d] # "done"
    BY <1>1, Zenon DEF Goto
  <1>3. answer'[d] \in {answer[d], challenge'[d]}
    BY <1>1, Zenon
  <1> QED BY <1>2, <1>3, Zenon DEF Keeps

(* None of the server's own steps takes a challenge or a session from a    *)
(* handler that goes on, or gives it a service.                            *)
LEMMA LocalKeeps ==
    ASSUME SInv, NEW c \in Conns, Local(c), NEW d \in Conns
    PROVE  Keeps(d) /\ service'[d] \in {service[d], NoService}
  <1>1. /\ pc \in [Conns -> PCs] /\ challenge \in [Conns -> Nonces \cup {NoNonce}]
        /\ peer \in [Conns -> Nat] /\ service \in [Conns -> Known \cup {Unknown}]
        /\ answer \in [Conns -> Responses \cup {NoNonce}] /\ HandlerState(c)
    BY Zenon DEF SInv, ServerTypeOK
  <1>2. CASE ChallengeCreated(c)
    <2>1. PICK n \in Nonces : challenge' = [challenge EXCEPT ![c] = n]
      BY <1>2, Zenon DEF ChallengeCreated
    <2>2. /\ pc[c] = "create" /\ pc' = [pc EXCEPT ![c] = "sendChallenge"]
          /\ UNCHANGED <<peer, service, answer>>
      BY <1>2, Zenon DEF ChallengeCreated, Goto
    <2>3. challenge[c] = NoNonce
      BY <1>1, <2>2, Zenon DEF HandlerState, OwnChallenge, Early
    <2> QED BY <1>1, <2>1, <2>2, <2>3, Zenon DEF Keeps
  <1>3. CASE ResponseAccepted(c)
    <2>1. /\ pc[c] = "verify" /\ pc' = [pc EXCEPT ![c] = "verified"]
          /\ peer' = [peer EXCEPT ![c] = peer'[c]] /\ UNCHANGED <<challenge, service, answer>>
      BY <1>1, <1>3, Zenon DEF ResponseAccepted, Goto
    <2>2. peer[c] = NoToken
      BY <1>1, <2>1, Zenon DEF HandlerState, OwnSession, Asked
    <2> QED BY <1>1, <2>1, <2>2, Zenon DEF Keeps
  <1>4. CASE ReleaseSlot(c)
    <2>1. /\ pc' = [pc EXCEPT ![c] = "done"]
          /\ peer' = [peer EXCEPT ![c] = NoToken] /\ challenge' = [challenge EXCEPT ![c] = NoNonce]
          /\ service' = [service EXCEPT ![c] = NoService]
          /\ answer' = [answer EXCEPT ![c] = NoNonce]
      BY <1>4, Zenon DEF ReleaseSlot, Goto, Forget
    <2> QED BY <1>1, <2>1, Zenon DEF Keeps
  <1>5. CASE ChallengeRefused(c) \/ ResponseRefused(c) \/ AuthCompleted(c) \/ CheckExpired(c)
             \/ CloseConn(c)
    <2>1. UNCHANGED <<challenge, peer, service, answer>> /\ pc[c] # "done" /\ \E l : Goto(c, l)
      BY <1>5, Zenon DEF ChallengeRefused, ResponseRefused, AuthCompleted, CheckExpired, CloseConn
    <2> QED BY <2>1, IdleKeeps, Zenon
  <1>6. CASE CheckCapability(c) \/ DispatchChecked(c) \/ DispatchSilent(c)
    <2>1. UNCHANGED <<challenge, peer, service, answer>> /\ pc[c] # "done" /\ \E l : Goto(c, l)
      BY <1>6, Zenon DEF CheckCapability, DispatchChecked, DispatchSilent
    <2> QED BY <2>1, IdleKeeps, Zenon
  <1> QED BY <1>2, <1>3, <1>4, <1>5, <1>6, Zenon DEF Local

(* Messages that are part of no handshake. *)
LEMMA PlainKeeps ==
    ASSUME SInv, NEW c \in Conns, NEW d \in Conns,
           \/ Accept(c) \/ RejectConn(c) \/ TimerStep(c)
           \/ ReceiveFails(c) \/ SendSucceeds(c) \/ SendFails(c)
    PROVE  Keeps(d) /\ service'[d] = service[d]
  <1>1. CASE Accept(c) \/ RejectConn(c) \/ ReceiveFails(c) \/ SendSucceeds(c) \/ SendFails(c)
    <2>1. UNCHANGED <<challenge, peer, service, answer>> /\ pc[c] # "done" /\ \E l : Goto(c, l)
      BY <1>1, Zenon DEF Accept, RejectConn, ReceiveFails, SendSucceeds, SendFails, Receiving, Sending
    <2> QED BY <2>1, IdleKeeps, Zenon
  <1>2. CASE TimerStep(c)
    <2>1. UNCHANGED <<challenge, peer, service, pc, answer>>
      BY <1>2, Zenon DEF TimerStep, TimerFires, TimerCloses, TimerExits
    <2> QED BY <2>1, IdleKeeps, Zenon
  <1> QED BY <1>1, <1>2, Zenon

(* Steps of the background goroutines. *)
LEMMA BackgroundKeeps ==
    ASSUME SInv, CleanupLoop \/ Time \/ Exit \/ UNCHANGED vars, NEW d \in Conns
    PROVE  Keeps(d) /\ service'[d] = service[d]
  <1>1. CASE Exit
    <2>1. pc'[d] = "done" /\ service' = service
      BY <1>1, Zenon DEF Exit
    <2> QED BY <2>1, Zenon DEF Keeps
  <1>2. CASE CleanupLoop \/ Time \/ UNCHANGED vars
    <2>1. UNCHANGED <<challenge, peer, service, pc, answer>>
      BY <1>2, Zenon DEF CleanupLoop, Time, vars, connVars
    <2> QED BY <2>1, IdleKeeps, Zenon
  <1> QED BY <1>1, <1>2, Zenon
-----------------------------------------------------------------------------
(* What the first part of a message says of the second. *)
LEMMA ToServerSays ==
    ASSUME NEW m \in ToServer
    PROVE  /\ m[1] = "auth" => m[2] = ClientService
           /\ m[1] = "authResponse" => m[2] \in Nonces
           /\ m[1] = "message" => m[2] \in {Intent, Heartbeat}
  <1>1. CASE m = <<"auth", ClientService>>
    BY <1>1
  <1>2. CASE m = <<"message", Intent>> \/ m = <<"message", Heartbeat>>
    <2> HIDE DEF Intent, Heartbeat
    <2> QED BY <1>2
  <1>3. CASE \E n \in Nonces : m = <<"authResponse", n>>
    BY <1>3
  <1> QED BY <1>1, <1>2, <1>3, Zenon DEF ToServer, AuthRequest, AuthAnswer, Plain

(* What a message to the client says. *)
LEMMA ToClientSays ==
    ASSUME NEW m \in ToClient
    PROVE  /\ m[1] = "challenge" => m[2] \in Nonces
           /\ m[1] = "authResponse" => m[2] \in {"denied", "ok"}
           /\ m[1] = "authResponse" /\ m[2] = "ok" => TellsOk(m)
  BY DEF ToClient, TellsOk

(* A server step that leaves the streams keeps what was known of them. *)
LEMMA StreamKept ==
    ASSUME SInv, StreamTypeOK, NEW d \in Conns, StreamState(d), Keeps(d),
           service'[d] \in {service[d], ClientService, NoService},
           Held(s2c'[d]) \subseteq Held(s2c[d]), Held(c2s'[d]) \subseteq Held(c2s[d]),
           result'[d] = result[d]
    PROVE  StreamState(d)'
  <1>1. NoNonce \notin Nonces
    BY AuthAssumption DEF Nonces, NoNonce
  <1>2. ASSUME NEW m \in Held(s2c[d]), Asks(m) PROVE m[2] \in Nonces
    BY <1>2 DEF StreamTypeOK, ToClient, Held, Asks
  <1>3. ASSUME NEW m \in Held(c2s[d]), Answering(m) PROVE m[2] \in Nonces
    <2>1. m \in ToServer
      BY DEF StreamTypeOK, Held
    <2> QED BY <1>3, <2>1, ToServerSays, Zenon DEF Answering
  <1>4. service'[d] \in {ClientService, NoService}
    BY Zenon DEF StreamState
  <1>5. ASSUME pc'[d] # "done"
        PROVE  /\ \A m \in Held(s2c'[d]) : Asks(m) => m[2] = challenge'[d]
               /\ \A m \in Held(c2s'[d]) : Answering(m) => m[2] = challenge'[d]
               /\ result'[d] = "ok" => peer'[d] # NoToken
               /\ answer'[d] \in {challenge'[d], NoNonce}
               /\ \A m \in Held(s2c'[d]) : TellsOk(m) => peer'[d] # NoToken
    BY <1>1, <1>2, <1>3, <1>5, Zenon DEF Keeps, StreamState
  <1> QED BY <1>4, <1>5, Zenon DEF StreamState

(* A step of the server that leaves the streams alone. *)
LEMMA QuietSysStep ==
    ASSUME SysInv, [Next]_vars, UNCHANGED clientVars,
           \A d \in Conns : Keeps(d) /\ service'[d] \in {service[d], ClientService, NoService}
    PROVE  SysInv'
  <1>1. SInv /\ StreamTypeOK /\ \A d \in Conns : StreamState(d)
    BY Zenon DEF SysInv
  <1>2. UNCHANGED <<cpc, c2s, s2c, result>>
    BY Zenon DEF clientVars
  <1>3. SInv'
    BY <1>1, ServerStepInv, Zenon
  <1>4. StreamTypeOK'
    BY <1>1, <1>2, Zenon DEF StreamTypeOK
  <1>5. ASSUME NEW d \in Conns PROVE StreamState(d)'
    BY <1>1, <1>2, <1>5, StreamKept, Zenon
  <1> QED BY <1>3, <1>4, <1>5, Zenon DEF SysInv

(* The client's steps leave the server alone. *)
LEMMA ClientQuiet ==
    ASSUME NEW c \in Conns, ClientStep(c) \/ ClientKilled(c)
    PROVE  UNCHANGED vars
  BY Zenon DEF ClientStep, ClientKilled, Dial, ClientChallenged, ClientResult, ClientSend,
     ClientAcked, ClientFails

(* The client sends what the server expects, and answers the challenge it  *)
(* was sent on its own connection.                                         *)
LEMMA ClientInv ==
    ASSUME SysInv, NEW c \in Conns, ClientStep(c) \/ ClientKilled(c)
    PROVE  SysInv'
  <1>1. SInv /\ StreamTypeOK /\ \A d \in Conns : StreamState(d)
    BY Zenon DEF SysInv
  <1>2. UNCHANGED vars
    BY ClientQuiet, Zenon
  <1>3. SInv' /\ \A d \in Conns : Keeps(d) /\ service'[d] = service[d]
    BY <1>1, <1>2, BackgroundInv, BackgroundKeeps, Zenon
  <1>4. /\ s2c \in [Conns -> Seq(ToClient)] /\ c2s \in [Conns -> Seq(ToServer)]
        /\ cpc \in [Conns -> CPCs] /\ result \in [Conns -> {"none", "denied", "ok"}]
    BY <1>1, Zenon DEF StreamTypeOK
  <1>5. cpc' \in [Conns -> CPCs]
    BY <1>4, Zenon DEF ClientStep, ClientKilled, Dial, ClientChallenged, ClientResult, ClientSend,
       ClientAcked, ClientFails, ClientGoto, CPCs, Waiting, Exited
  <1>6. UNCHANGED <<pc, challenge, peer, service, answer>>
    BY <1>2, Zenon DEF vars, connVars
  <1>7. CASE Dial(c)
    <2>1. /\ UNCHANGED <<s2c, result>>
          /\ c2s' = c2s \/ c2s' = [c2s EXCEPT ![c] = <<AuthRequest(ClientService)>>]
      BY <1>7, Zenon DEF Dial
    <2>2. /\ <<AuthRequest(ClientService)>> \in Seq(ToServer)
          /\ Held(<<AuthRequest(ClientService)>>) = {AuthRequest(ClientService)}
      BY DEF ToServer, Held
    <2>3. ~Answering(AuthRequest(ClientService))
      BY DEF Answering, AuthRequest
    <2>4. StreamTypeOK'
      BY <1>4, <1>5, <2>1, <2>2, Zenon DEF StreamTypeOK
    <2>5. ASSUME NEW d \in Conns PROVE StreamState(d)'
      BY <1>1, <1>4, <1>6, <2>1, <2>2, <2>3, Zenon DEF StreamState
    <2> QED BY <1>3, <2>4, <2>5, Zenon DEF SysInv
  <1>8. CASE ClientChallenged(c)
    <2> DEFINE m == Head(s2c[c])
    <2>1. /\ s2c[c] # <<>> /\ s2c' = [s2c EXCEPT ![c] = Tail(@)]
          /\ result' = result
          /\ \/ c2s' = c2s
             \/ Asks(m) /\ c2s' = [c2s EXCEPT ![c] = Append(@, AuthAnswer(m[2]))]
      BY <1>8, Zenon DEF ClientChallenged, Asks
    <2>2. /\ Tail(s2c[c]) \in Seq(ToClient) /\ Held(Tail(s2c[c])) \subseteq Held(s2c[c])
          /\ m \in ToClient /\ m \in Held(s2c[c])
      BY <1>4, <2>1, HeldTail, Zenon
    <2> HIDE DEF m
    <2>3. ASSUME Asks(m)
          PROVE  /\ AuthAnswer(m[2]) \in ToServer
                 /\ Append(c2s[c], AuthAnswer(m[2])) \in Seq(ToServer)
                 /\ Held(Append(c2s[c], AuthAnswer(m[2]))) = Held(c2s[c]) \cup {AuthAnswer(m[2])}
      <3>1. AuthAnswer(m[2]) \in ToServer
        BY <2>2, <2>3, ToClientSays, Zenon DEF ToServer, Asks
      <3>2. c2s[c] \in Seq(ToServer)
        BY <1>4, Zenon
      <3> QED BY <3>1, <3>2, HeldAppend
    <2>4. StreamTypeOK'
      BY <1>4, <1>5, <2>1, <2>2, <2>3, Zenon DEF StreamTypeOK
    <2>5. AuthAnswer(m[2])[2] = m[2]
      BY DEF AuthAnswer
    <2>6. StreamState(c)'
      <3>1. /\ s2c'[c] = Tail(s2c[c]) /\ result'[c] = result[c]
            /\ c2s'[c] = c2s[c] \/ (Asks(m) /\ c2s'[c] = Append(c2s[c], AuthAnswer(m[2])))
        BY <1>4, <2>1, Zenon
      <3>2. StreamState(c)
        BY <1>1, Zenon
      <3> QED BY <1>6, <2>2, <2>3, <2>5, <3>1, <3>2, Zenon DEF StreamState
    <2>7. ASSUME NEW d \in Conns, d # c PROVE StreamState(d)'
      <3>1. s2c'[d] = s2c[d] /\ c2s'[d] = c2s[d] /\ result'[d] = result[d]
        BY <1>4, <2>1, <2>7, Zenon
      <3> QED BY <1>1, <1>6, <3>1, Zenon DEF StreamState
    <2> QED BY <1>3, <2>4, <2>6, <2>7, Zenon DEF SysInv
  <1>9. CASE ClientResult(c)
    <2> DEFINE m == Head(s2c[c])
    <2>1. /\ s2c[c] # <<>> /\ s2c' = [s2c EXCEPT ![c] = Tail(@)]
          /\ c2s' = c2s
          /\ \/ result' = result
             \/ m[1] = "authResponse" /\ result' = [result EXCEPT ![c] = m[2]]
      BY <1>9, Zenon DEF ClientResult
    <2>2. /\ Tail(s2c[c]) \in Seq(ToClient) /\ Held(Tail(s2c[c])) \subseteq Held(s2c[c])
          /\ m \in ToClient /\ m \in Held(s2c[c])
      BY <1>4, <2>1, HeldTail, Zenon
    <2> HIDE DEF m
    <2>3. m[1] = "authResponse" => m[2] \in {"denied", "ok"} /\ (m[2] = "ok" => TellsOk(m))
      BY <2>2, ToClientSays, Zenon
    <2>4. StreamTypeOK'
      BY <1>4, <1>5, <2>1, <2>2, <2>3, Zenon DEF StreamTypeOK
    <2>6. StreamState(c)'
      <3>1. /\ s2c'[c] = Tail(s2c[c]) /\ c2s'[c] = c2s[c]
            /\ result'[c] = result[c] \/ (m[1] = "authResponse" /\ result'[c] = m[2])
        BY <1>4, <2>1, Zenon
      <3>2. StreamState(c)
        BY <1>1, Zenon
      <3>3. pc[c] # "done" /\ result'[c] = "ok" => peer[c] # NoToken
        BY <2>2, <2>3, <3>1, <3>2, Zenon DEF StreamState
      <3> QED BY <1>6, <2>2, <3>1, <3>2, <3>3, Zenon DEF StreamState
    <2>7. ASSUME NEW d \in Conns, d # c PROVE StreamState(d)'
      <3>1. s2c'[d] = s2c[d] /\ c2s'[d] = c2s[d] /\ result'[d] = result[d]
        BY <1>4, <2>1, <2>7, Zenon
      <3> QED BY <1>1, <1>6, <3>1, Zenon DEF StreamState
    <2> QED BY <1>3, <2>4, <2>6, <2>7, Zenon DEF SysInv
  <1>10. CASE ClientSend(c)
    <2>1. PICK m \in {Plain(Intent), Plain(Heartbeat)} : c2s' = [c2s EXCEPT ![c] = Append(@, m)]
      BY <1>10, Zenon DEF ClientSend
    <2>2. UNCHANGED <<s2c, result>>
      BY <1>10, Zenon DEF ClientSend
    <2>3. m \in ToServer /\ ~Answering(m)
      BY <2>1 DEF ToServer, Answering, Plain
    <2>4. /\ Append(c2s[c], m) \in Seq(ToServer)
          /\ Held(Append(c2s[c], m)) = Held(c2s[c]) \cup {m}
      <3>1. c2s[c] \in Seq(ToServer)
        BY <1>4, Zenon
      <3> QED BY <2>3, <3>1, HeldAppend
    <2>5. StreamTypeOK'
      BY <1>4, <1>5, <2>1, <2>2, <2>4, Zenon DEF StreamTypeOK
    <2>6. ASSUME NEW d \in Conns PROVE StreamState(d)'
      <3>1. c2s'[d] = c2s[d] \/ Held(c2s'[d]) = Held(c2s[d]) \cup {m}
        BY <1>4, <2>1, <2>4, Zenon
      <3> QED BY <1>1, <1>6, <2>2, <2>3, <3>1, Zenon DEF StreamState
    <2> QED BY <1>3, <2>5, <2>6, Zenon DEF SysInv
  <1>11. CASE ClientAcked(c)
    <2>1. /\ s2c[c] # <<>> /\ s2c' = [s2c EXCEPT ![c] = Tail(@)] /\ UNCHANGED <<c2s, result>>
      BY <1>11, Zenon DEF ClientAcked
    <2>2. Tail(s2c[c]) \in Seq(ToClient) /\ Held(Tail(s2c[c])) \subseteq Held(s2c[c])
      BY <1>4, <2>1, HeldTail, Zenon
    <2>3. StreamTypeOK'
      BY <1>4, <1>5, <2>1, <2>2, Zenon DEF StreamTypeOK
    <2>4. ASSUME NEW d \in Conns PROVE StreamState(d)'
      <3>1. Held(s2c'[d]) \subseteq Held(s2c[d])
        BY <1>4, <2>1, <2>2, Zenon
      <3> QED BY <1>1, <1>3, <2>1, <3>1, StreamKept, Zenon
    <2> QED BY <1>3, <2>3, <2>4, Zenon DEF SysInv
  <1>12. CASE ClientFails(c) \/ ClientKilled(c)
    <2>1. UNCHANGED <<c2s, s2c, result>>
      BY <1>12, Zenon DEF ClientFails, ClientKilled
    <2>2. StreamTypeOK'
      BY <1>4, <1>5, <2>1, Zenon DEF StreamTypeOK
    <2>3. ASSUME NEW d \in Conns PROVE StreamState(d)'
      BY <1>1, <1>3, <2>1, StreamKept, Zenon
    <2> QED BY <1>3, <2>2, <2>3, Zenon DEF SysInv
  <1> QED BY <1>7, <1>8, <1>9, <1>10, <1>11, <1>12, Zenon DEF ClientStep

(* What the handler sends is what it holds. *)
LEMMA RepliesInv ==
    ASSUME SysInv, NEW c \in Conns, ServerReplies(c)
    PROVE  SysInv'
  <1>1. SInv /\ StreamTypeOK /\ \A d \in Conns : StreamState(d)
    BY Zenon DEF SysInv
  <1>2. SInv' /\ \A d \in Conns : Keeps(d) /\ service'[d] = service[d]
    BY <1>1, PlainKeeps, ServerStepInv, Zenon DEF ServerReplies, Next
  <1>3. /\ s2c \in [Conns -> Seq(ToClient)] /\ c2s \in [Conns -> Seq(ToServer)]
        /\ cpc \in [Conns -> CPCs] /\ result \in [Conns -> {"none", "denied", "ok"}]
        /\ HandlerState(c) /\ challenge[c] \in Nonces \cup {NoNonce} /\ s2c[c] \in Seq(ToClient)
    BY <1>1, Zenon DEF StreamTypeOK, SInv, ServerTypeOK
  <1>4. /\ s2c' = [s2c EXCEPT ![c] = Append(@, Outgoing(c))] /\ UNCHANGED <<cpc, c2s, result>>
        /\ UNCHANGED <<challenge, peer, answer>> /\ pc[c] \in Sending
    BY Zenon DEF ServerReplies, SendSucceeds
  <1>5. /\ Outgoing(c) \in ToClient
        /\ Asks(Outgoing(c)) => Outgoing(c)[2] = challenge[c]
        /\ TellsOk(Outgoing(c)) => peer[c] # NoToken
    <2>1. CASE pc[c] = "sendChallenge"
      <3>1. Outgoing(c) = <<"challenge", challenge[c]>>
        BY <2>1, Zenon DEF Outgoing
      <3>2. challenge[c] \in Nonces
        BY <1>3, <2>1, Zenon DEF HandlerState, OwnChallenge, Asked
      <3> QED BY <3>1, <3>2 DEF ToClient, TellsOk
    <2>2. CASE pc[c] = "sendOk"
      <3>1. Outgoing(c) = <<"authResponse", "ok">>
        BY <2>2, Zenon DEF Outgoing
      <3>2. peer[c] # NoToken
        BY <1>3, <2>2, Zenon DEF HandlerState, OwnSession, Granted, Serving
      <3> QED BY <3>1, <3>2 DEF ToClient, Asks
    <2>3. CASE pc[c] \in {"sendDenied", "reply", "replyError"}
      <3>1. Outgoing(c) \in {<<"authResponse", "denied">>, <<"ack", "ok">>, <<"ack", "error">>}
        BY <2>3, Zenon DEF Outgoing
      <3> QED BY <3>1 DEF ToClient, Asks, TellsOk
    <2> QED BY <1>4, <2>1, <2>2, <2>3, Zenon DEF Sending
  <1>6. /\ Append(s2c[c], Outgoing(c)) \in Seq(ToClient)
        /\ Held(Append(s2c[c], Outgoing(c))) = Held(s2c[c]) \cup {Outgoing(c)}
    BY <1>3, <1>5, HeldAppend
  <1>7. StreamTypeOK'
    BY <1>3, <1>4, <1>6, Zenon DEF StreamTypeOK
  <1>8. StreamState(c)'
    <2>1. s2c'[c] = Append(s2c[c], Outgoing(c)) /\ StreamState(c) /\ Keeps(c)
          /\ service'[c] = service[c]
      BY <1>1, <1>2, <1>3, <1>4, Zenon
    <2> QED BY <1>4, <1>5, <1>6, <2>1, Zenon DEF StreamState, Keeps
  <1>9. ASSUME NEW d \in Conns, d # c PROVE StreamState(d)'
    <2>1. s2c'[d] = s2c[d] /\ c2s'[d] = c2s[d] /\ result'[d] = result[d]
      BY <1>3, <1>4, <1>9, Zenon
    <2> QED BY <1>1, <1>2, <2>1, StreamKept, Zenon
  <1> QED BY <1>2, <1>7, <1>8, <1>9, Zenon DEF SysInv

(* What the handler takes from the stream is something a peer may send. *)
LEMMA TakesPeerStep ==
    ASSUME SysInv, NEW c \in Conns, ServerTakes(c)
    PROVE  /\ PeerStep(c) \/ ReceiveFails(c)
           /\ \A d \in Conns : Keeps(d) /\ service'[d] \in {service[d], ClientService}
  <1>1. SInv /\ StreamTypeOK /\ \A d \in Conns : StreamState(d)
    BY Zenon DEF SysInv
  <1> DEFINE m == Head(c2s[c])
  <1>2. m \in ToServer /\ m \in Held(c2s[c])
    <2>1. c2s[c] \in Seq(ToServer) /\ c2s[c] # <<>>
      BY <1>1, Zenon DEF StreamTypeOK, ServerTakes
    <2> QED BY <2>1, HeldTail, Zenon
  <1>3. \/ pc[c] = "recvAuth" /\ m[1] = "auth" /\ RecvAuth(c, m[2])
        \/ pc[c] = "recvResponse" /\ m[1] = "authResponse" /\ RecvResponse(c, m[2])
        \/ pc[c] = "loop" /\ m[1] = "message" /\ RecvMessage(c, m[2])
        \/ ReceiveFails(c)
    <2>1. Takes(c)
      BY Zenon DEF ServerTakes
    <2> QED BY <2>1, Zenon DEF Takes
  <1> HIDE DEF m
  <1>4. service \in [Conns -> Known \cup {Unknown}]
    BY <1>1, Zenon DEF SInv, ServerTypeOK
  <1>5. CASE pc[c] = "recvAuth" /\ m[1] = "auth" /\ RecvAuth(c, m[2])
    <2>1. m[2] = ClientService /\ m[2] \in Known \cup {Unknown}
      BY <1>2, <1>5, ToServerSays, SystemAssumption, Zenon
    <2>2. /\ UNCHANGED <<challenge, peer, answer>> /\ pc[c] # "done" /\ \E l : Goto(c, l)
          /\ service' = [service EXCEPT ![c] = m[2]]
      BY <1>5, Zenon DEF RecvAuth
    <2> QED BY <1>1, <1>4, <1>5, <2>1, <2>2, IdleKeeps, Zenon DEF PeerStep
  <1>6. CASE pc[c] = "recvResponse" /\ m[1] = "authResponse" /\ RecvResponse(c, m[2])
    <2>1. m[2] = challenge[c]
      BY <1>1, <1>2, <1>6, Zenon DEF StreamState, Answering
    <2>2. /\ UNCHANGED <<challenge, peer, service>> /\ pc[c] # "done" /\ \E l : Goto(c, l)
          /\ answer' = [answer EXCEPT ![c] = challenge[c]]
      BY <1>6, <2>1, Zenon DEF RecvResponse
    <2>3. challenge[c] \in DOMAIN challenges
      BY <1>1, <1>6, Zenon DEF SInv, HandlerState, OwnChallenge, Asked
    <2> QED BY <1>1, <1>6, <2>1, <2>2, <2>3, IdleKeeps, Zenon DEF PeerStep
  <1>7. CASE pc[c] = "loop" /\ m[1] = "message" /\ RecvMessage(c, m[2])
    <2>1. m[2] \in Traffic
      BY <1>2, <1>7, ToServerSays, SystemAssumption, Zenon
    <2>2. UNCHANGED <<challenge, peer, service, answer>> /\ pc[c] # "done" /\ \E l : Goto(c, l)
      BY <1>7, Zenon DEF RecvMessage
    <2> QED BY <1>1, <1>7, <2>1, <2>2, IdleKeeps, Zenon DEF PeerStep
  <1> QED BY <1>1, <1>3, <1>5, <1>6, <1>7, PlainKeeps, Zenon

(* Steps in which the client takes a message. *)
LEMMA TakesInv ==
    ASSUME SysInv, NEW c \in Conns, ServerTakes(c)
    PROVE  SysInv'
  <1>1. SInv /\ StreamTypeOK /\ \A d \in Conns : StreamState(d)
    BY Zenon DEF SysInv
  <1>2. SInv'
    BY <1>1, TakesPeerStep, ServerStepInv, Zenon DEF Next
  <1>3. /\ s2c \in [Conns -> Seq(ToClient)] /\ c2s \in [Conns -> Seq(ToServer)]
        /\ cpc \in [Conns -> CPCs] /\ result \in [Conns -> {"none", "denied", "ok"}]
        /\ c2s[c] \in Seq(ToServer)
    BY <1>1, Zenon DEF StreamTypeOK
  <1>4. /\ c2s' = [c2s EXCEPT ![c] = Tail(@)] /\ c2s[c] # <<>> /\ UNCHANGED <<cpc, s2c, result>>
    BY Zenon DEF ServerTakes
  <1>5. Tail(c2s[c]) \in Seq(ToServer) /\ Held(Tail(c2s[c])) \subseteq Held(c2s[c])
    BY <1>3, <1>4, HeldTail, Zenon
  <1>6. StreamTypeOK'
    BY <1>3, <1>4, <1>5, Zenon DEF StreamTypeOK
  <1>7. ASSUME NEW d \in Conns PROVE StreamState(d)'
    <2>1. Held(c2s'[d]) \subseteq Held(c2s[d]) /\ s2c'[d] = s2c[d] /\ result'[d] = result[d]
      BY <1>3, <1>4, <1>5, Zenon
    <2> QED BY <1>1, <2>1, TakesPeerStep, StreamKept, Zenon
  <1> QED BY <1>2, <1>6, <1>7, Zenon DEF SysInv
-----------------------------------------------------------------------------
(* At the start nothing is on its way. *)
LEMMA SysInitInv ==
    ASSUME SysInit
    PROVE  SysInv
  <1>1. SInv
    BY ServerInitInv, Zenon DEF SysInit
  <1>2. StreamTypeOK
    BY DEF SysInit, StreamTypeOK, CPCs
  <1>3. ASSUME NEW c \in Conns PROVE StreamState(c)
    <2>1. /\ s2c[c] = <<>> /\ c2s[c] = <<>> /\ result[c] = "none" /\ service[c] = NoService
          /\ answer[c] = NoNonce
      BY DEF SysInit, Init
    <2> QED BY <2>1, HeldNone DEF StreamState
  <1> QED BY <1>1, <1>2, <1>3, Zenon DEF SysInv

(* Every step of the composition is a step of the server or leaves it as   *)
(* it is, and keeps the invariant.                                         *)
LEMMA SysStepInv ==
    ASSUME SysInv, [SysNext]_sysVars
    PROVE  SysInv' /\ [Next]_vars
  <1>1. SInv /\ \A d \in Conns : StreamState(d)
    BY Zenon DEF SysInv
  <1>2. ASSUME NEW c \in Conns, ClientStep(c) \/ ClientKilled(c)
        PROVE  SysInv' /\ [Next]_vars
    BY <1>2, ClientInv, ClientQuiet, Zenon
  <1>3. ASSUME NEW c \in Conns, ServerReplies(c) PROVE SysInv' /\ [Next]_vars
    BY <1>3, RepliesInv, Zenon DEF ServerReplies, Next
  <1>4. ASSUME NEW c \in Conns, ServerTakes(c) PROVE SysInv' /\ [Next]_vars
    BY <1>4, TakesInv, TakesPeerStep, Zenon DEF Next
  <1>5. ASSUME NEW c \in Conns, ServerAccepts(c) \/ ServerLosesClient(c) \/ ServerLocal(c)
        PROVE  SysInv' /\ [Next]_vars
    <2>1. UNCHANGED clientVars
      BY <1>5, Zenon DEF ServerAccepts, ServerLosesClient, ServerLocal
    <2>2. \/ Accept(c) \/ RejectConn(c) \/ TimerStep(c) \/ Local(c)
          \/ ReceiveFails(c) \/ SendFails(c)
      BY <1>5, Zenon DEF ServerAccepts, ServerLosesClient, ServerLocal
    <2>3. [Next]_vars
      BY <2>2, Zenon DEF Next
    <2>4. \A d \in Conns : Keeps(d) /\ service'[d] \in {service[d], NoService}
      BY <1>1, <2>2, LocalKeeps, PlainKeeps, Zenon
    <2> QED BY <2>1, <2>3, <2>4, QuietSysStep, Zenon
  <1>6. ASSUME Background \/ UNCHANGED sysVars PROVE SysInv' /\ [Next]_vars
    <2>1. UNCHANGED clientVars /\ (CleanupLoop \/ Time \/ Exit \/ UNCHANGED vars)
      BY <1>6, Zenon DEF Background, sysVars
    <2>2. [Next]_vars
      BY <2>1, Zenon DEF Next
    <2> QED BY <1>1, <2>1, <2>2, BackgroundKeeps, QuietSysStep, Zenon
  <1> QED BY <1>2, <1>3, <1>4, <1>5, <1>6, SystemAssumption, Zenon DEF SysNext, ServerStep

(* The invariant of the composition. *)
THEOREM SystemInductive == SysSpec => []SysInv
  BY SysInitInv, SysStepInv, PTL DEF SysSpec

(* ServerSpec: with the client program at the other end of every stream,   *)
(* the server is never asked for a step it does not take among arbitrary   *)
(* peers, so every theorem about EipcServer holds of the composition.      *)
THEOREM SystemRunsServer == SysSpec => ServerSpec
  <1>1. SysInit => Init
    BY Zenon DEF SysInit
  <1>2. SysInv /\ [SysNext]_sysVars => [Next]_vars
    BY SysStepInv, Zenon
  <1> QED BY <1>1, <1>2, SystemInductive, PTL DEF SysSpec, Spec, ServerSpec

(* OkMeansEarned: a client that was told "ok" and is still served is served *)
(* for a session it earned with the nonce sent on its own connection.      *)
THEOREM OkIsEarned == SysSpec => []OkMeansEarned
  <1>1. SysInv => OkMeansEarned
    <2> SUFFICES ASSUME SysInv, NEW c \in Conns, result[c] = "ok", Served(c)
                 PROVE  /\ peer[c] \in DOMAIN grants
                        /\ grants[peer[c]].nonce = challenge[c]
                        /\ grants[peer[c]].service = ClientService
      BY Zenon DEF OkMeansEarned
    <2>1. pc[c] # "done"
      BY Zenon DEF Served, Handshaking, Serving, Unwinding
    <2>2. /\ peer[c] # NoToken /\ service[c] \in {ClientService, NoService}
          /\ answer[c] \in {challenge[c], NoNonce}
      BY <2>1, Zenon DEF SysInv, StreamState
    <2>3. /\ peer[c] \in DOMAIN grants
          /\ grants[peer[c]].nonce = answer[c] /\ grants[peer[c]].service = service[c]
          /\ answer[c] >= challenge[c] /\ challenge[c] # NoNonce
      BY <2>2, Zenon DEF SysInv, SInv, HandlerState, OwnSession
    <2>4. grants[peer[c]].service \in Known
      <3>1. grants \in Seq(PeerIdentity)
        BY Zenon DEF SysInv, SInv, AuthTypeOK
      <3>2. grants[peer[c]] \in PeerIdentity
        BY <2>3, <3>1
      <3> QED BY <3>2 DEF PeerIdentity
    <2>5. answer[c] = challenge[c]
      <3>1. challenge[c] \in Nonces
        BY <2>3, Zenon DEF SysInv, SInv, ServerTypeOK
      <3> QED BY <2>2, <2>3, <3>1 DEF Nonces, NoNonce
    <2> QED BY <2>2, <2>3, <2>4, <2>5, AuthAssumption, Zenon DEF NoService
  <1> QED BY <1>1, SystemInductive, PTL
=============================================================================

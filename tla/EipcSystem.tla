------------------------------ MODULE EipcSystem ------------------------------
(***************************************************************************)
(* The server of EipcServer and the program cmd/eipc-client/main.go, one   *)
(* run of it per connection, joined by the two byte streams of a TCP       *)
(* connection (external).  A stream delivers in order.  When a side closes *)
(* with data still unread, the connection is reset and what the other side *)
(* has not read yet may be lost.                                           *)
(***************************************************************************)
EXTENDS EipcServer

CONSTANT Interrupted    \* the connections whose client may be interrupted

(* serviceID is fixed in the client: every run of it claims this service. *)
ClientService == "nia.min"

(* The two messages it sends after the handshake. *)
Intent == [type |-> "intent", capability |-> "ui:control", wellFormed |-> TRUE,
           intent |-> "move_left"]
Heartbeat == [type |-> "heartbeat", capability |-> NoCapability, wellFormed |-> TRUE,
              intent |-> NoIntent]

ASSUME SystemAssumption ==
    /\ Interrupted \subseteq Conns
    /\ ClientService \in Known \cup {Unknown}
    /\ {Intent, Heartbeat} \subseteq Traffic

VARIABLES
    cpc,        \* where the client program is
    c2s, s2c,   \* the messages in the two streams of each connection
    result      \* authRes: what the client learnt of its authentication

clientVars == <<cpc, c2s, s2c, result>>
sysVars == <<vars, clientVars>>

(* The client has exited, by reaching its end or by log.Fatalf. *)
Exited == {"finished", "fatal"}
Waiting == {"awaitChallenge", "awaitResult", "awaitAck"}
CPCs == {"dial"} \cup Waiting \cup {"sendIntent", "sendHeartbeat"} \cup Exited

(* What travels to the server: an auth request, a response, a message. *)
AuthRequest(s) == <<"auth", s>>
AuthAnswer(r) == <<"authResponse", r>>
Plain(m) == <<"message", m>>

SysInit ==
    /\ Init
    /\ cpc = [c \in Conns |-> "dial"]
    /\ c2s = [c \in Conns |-> <<>>]
    /\ s2c = [c \in Conns |-> <<>>]
    /\ result = [c \in Conns |-> "none"]

(* The server has closed its side of c. *)
ServerGone(c) == ~up \/ pc[c] = "rejected" \/ (pc[c] # "idle" /\ ~open[c])

ClientGone(c) == cpc[c] \in Exited

ClientGoto(c, label) == cpc' = [cpc EXCEPT ![c] = label]
-----------------------------------------------------------------------------
(* Mutation of Outgoing: the nonce is read again from the shared table. *)
Outgoing_rereads_table(c) ==
    CASE pc[c] = "sendChallenge" -> <<"challenge", pendingChallenges[service[c]]>>
      [] pc[c] = "sendDenied" -> <<"authResponse", "denied">>
      [] pc[c] = "sendOk" -> <<"authResponse", "ok">>
      [] pc[c] = "reply" -> <<"ack", "ok">>
      [] pc[c] = "replyError" -> <<"ack", "error">>

(* The message the handler of c sends from where it is. *)
Outgoing(c) ==
    CASE pc[c] = "sendChallenge" -> <<"challenge", challenge[c]>>
      [] pc[c] = "sendDenied" -> <<"authResponse", "denied">>
      [] pc[c] = "sendOk" -> <<"authResponse", "ok">>
      [] pc[c] = "reply" -> <<"ack", "ok">>
      [] pc[c] = "replyError" -> <<"ack", "error">>
-----------------------------------------------------------------------------
(* The client. *)
Dial(c) ==
    /\ cpc[c] = "dial"
    /\ IF up
       THEN /\ ClientGoto(c, "awaitChallenge")
            /\ c2s' = [c2s EXCEPT ![c] = <<AuthRequest(ClientService)>>]
       ELSE ClientGoto(c, "fatal") /\ UNCHANGED c2s
    /\ UNCHANGED <<vars, s2c, result>>

(* Only a message of type TypeChallenge will do. *)
ClientChallenged(c) ==
    /\ cpc[c] = "awaitChallenge"
    /\ s2c[c] # <<>>
    /\ s2c' = [s2c EXCEPT ![c] = Tail(@)]
    /\ IF Head(s2c[c])[1] = "challenge"
       THEN /\ ClientGoto(c, "awaitResult")
            /\ c2s' = [c2s EXCEPT ![c] = Append(@, AuthAnswer(Head(s2c[c])[2]))]
       ELSE ClientGoto(c, "fatal") /\ UNCHANGED c2s
    /\ UNCHANGED <<vars, result>>

(* authRes.Status is read from the payload and not looked at. *)
ClientResult(c) ==
    /\ cpc[c] = "awaitResult"
    /\ s2c[c] # <<>>
    /\ s2c' = [s2c EXCEPT ![c] = Tail(@)]
    /\ IF Head(s2c[c])[1] = "authResponse"
       THEN /\ ClientGoto(c, "sendIntent")
            /\ result' = [result EXCEPT ![c] = Head(s2c[c])[2]]
       ELSE ClientGoto(c, "fatal") /\ UNCHANGED result
    /\ UNCHANGED <<vars, c2s>>

ClientSend(c) ==
    /\ \/ /\ cpc[c] = "sendIntent"
          /\ c2s' = [c2s EXCEPT ![c] = Append(@, Plain(Intent))]
          /\ ClientGoto(c, "awaitAck")
       \/ /\ cpc[c] = "sendHeartbeat"
          /\ c2s' = [c2s EXCEPT ![c] = Append(@, Plain(Heartbeat))]
          /\ ClientGoto(c, "finished")
    /\ UNCHANGED <<vars, s2c, result>>

(* ack.Status is printed and not looked at. *)
ClientAcked(c) ==
    /\ cpc[c] = "awaitAck"
    /\ s2c[c] # <<>>
    /\ s2c' = [s2c EXCEPT ![c] = Tail(@)]
    /\ ClientGoto(c, "sendHeartbeat")
    /\ UNCHANGED <<vars, c2s, result>>

(* Receive or Send fails: log.Fatalf. *)
ClientFails(c) ==
    /\ cpc[c] \in Waiting \cup {"sendIntent", "sendHeartbeat"}
    /\ ServerGone(c)
    /\ s2c[c] = <<>> \/ c2s[c] # <<>> \/ cpc[c] \notin Waiting
    /\ ClientGoto(c, "fatal")
    /\ UNCHANGED <<vars, c2s, s2c, result>>

(* The client program is interrupted. *)
ClientKilled(c) ==
    /\ cpc[c] \notin Exited
    /\ ClientGoto(c, "fatal")
    /\ UNCHANGED <<vars, c2s, s2c, result>>

ClientStep(c) ==
    \/ Dial(c) \/ ClientChallenged(c) \/ ClientResult(c)
    \/ ClientSend(c) \/ ClientAcked(c) \/ ClientFails(c)
-----------------------------------------------------------------------------
(* The server's steps, with the streams they read and write. *)
ServerReplies(c) ==
    /\ SendSucceeds(c)
    /\ s2c' = [s2c EXCEPT ![c] = Append(@, Outgoing(c))]
    /\ UNCHANGED <<cpc, c2s, result>>

(* The next message from the client, in the place where the handler waits. *)
Takes(c) ==
    LET m == Head(c2s[c])
    IN  CASE pc[c] = "recvAuth" /\ m[1] = "auth" -> RecvAuth(c, m[2])
          [] pc[c] = "recvResponse" /\ m[1] = "authResponse" -> RecvResponse(c, m[2])
          [] pc[c] = "loop" /\ m[1] = "message" -> RecvMessage(c, m[2])
          [] OTHER -> ReceiveFails(c)

ServerTakes(c) ==
    /\ pc[c] \in Receiving
    /\ open[c]
    /\ c2s[c] # <<>>
    /\ Takes(c)
    /\ c2s' = [c2s EXCEPT ![c] = Tail(@)]
    /\ UNCHANGED <<cpc, s2c, result>>

(* The stream ends, is reset, or was closed by the timer. *)
ServerLosesClient(c) ==
    /\ \/ ~open[c] /\ (ReceiveFails(c) \/ SendFails(c))
       \/ ClientGone(c) /\ (c2s[c] = <<>> \/ s2c[c] # <<>>) /\ ReceiveFails(c)
       \/ ClientGone(c) /\ SendFails(c)
    /\ UNCHANGED clientVars

ServerAccepts(c) ==
    /\ c2s[c] # <<>>
    /\ Accept(c) \/ RejectConn(c)
    /\ UNCHANGED clientVars

ServerLocal(c) == (Local(c) \/ TimerStep(c)) /\ UNCHANGED clientVars

ServerStep(c) ==
    \/ ServerAccepts(c) \/ ServerTakes(c) \/ ServerReplies(c)
    \/ ServerLosesClient(c) \/ ServerLocal(c)

Background == (CleanupLoop \/ Time \/ Exit) /\ UNCHANGED clientVars

SysNext ==
    \/ \E c \in Conns : ClientStep(c) \/ ServerStep(c)
    \/ \E c \in Interrupted : ClientKilled(c)
    \/ Background

SysSpec == SysInit /\ [][SysNext]_sysVars

(* Both programs run, and the few messages of a run of the client fit in   *)
(* the socket buffers, so a Send on an open connection returns.            *)
SysFairSpec ==
    SysSpec /\ \A c \in Conns : WF_sysVars(ClientStep(c)) /\ WF_sysVars(ServerStep(c))
-----------------------------------------------------------------------------
(* The composition takes only steps the server takes among arbitrary peers, *)
(* so what holds of EipcServer holds here.                                 *)
ServerSpec == Spec

(* Client and server never wait for each other: every client runs to its   *)
(* end or fails, whatever the server refuses.                              *)
ClientsTerminate == \A c \in Conns : <>(cpc[c] \in Exited)

(* A client that has been told "ok" is served for a session it earned on   *)
(* its own connection, with the nonce that was sent on it, whatever other  *)
(* clients for the same service did meanwhile.                             *)
OkMeansEarned ==
    \A c \in Conns : result[c] = "ok" /\ Served(c) =>
        /\ peer[c] \in DOMAIN grants
        /\ grants[peer[c]].nonce = challenge[c]
        /\ grants[peer[c]].service = ClientService
=============================================================================

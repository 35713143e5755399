------------------------------- MODULE EasySdk -------------------------------
(***************************************************************************)
(* sdk/c: the easy API of the C SDK, with the client, server and transport *)
(* layers it calls: eipc_easy.c, eipc_client.c, eipc_server.c,             *)
(* eipc_transport.c.  One server handle, and client handles that each      *)
(* connect once.  A call is one step, except that a receive blocks until a *)
(* frame or the end of the stream is there.                                *)
(*                                                                         *)
(* A frame is its sequence number: a receive for one type consumes a frame *)
(* of another type, or one that is refused, all the same.  A send can fail *)
(* before anything is written (the payload does not fit) or in send(),     *)
(* once the peer has closed its socket.  The counters of h->stats, which   *)
(* nothing reads back, are left out.                                       *)
(***************************************************************************)
EXTENDS Naturals, Sequences

CONSTANTS
    Clients,        \* client handles; a client also names its connection
    MaxAccepts,     \* bound on the calls of eipc_easy_accept
    MaxSeq          \* bound on the sequence numbers that are sent

Invalid == "EIPC_INVALID_SOCKET"

ASSUME SdkAssumption == Invalid \notin Clients /\ MaxSeq \in Nat /\ MaxAccepts \in Nat

VARIABLES
    client,         \* each client handle: "none", "connected", "closed"
    waiting,        \* the clients that are in a receive
    cseq,           \* client->sequence
    listening, hasClient, sock, sseq,       \* the server handle
    srvSock,        \* the server's end of each connection
    up, down,       \* frames on their way to the server, to the client
    accepts,        \* the number of calls of eipc_easy_accept
    replaced        \* history: sockets that a later accept overwrote

clientVars == <<client, waiting, cseq>>
handleVars == <<listening, hasClient, sock, sseq>>
serverVars == <<handleVars, accepts, replaced>>
netVars == <<srvSock, up, down>>
vars == <<clientVars, serverVars, netVars>>

TypeOK ==
    /\ client \in [Clients -> {"none", "connected", "closed"}]
    /\ waiting \subseteq Clients
    /\ cseq \in [Clients -> Nat] /\ sseq \in Nat
    /\ listening \in BOOLEAN /\ hasClient \in BOOLEAN
    /\ sock \in Clients \cup {Invalid}
    /\ srvSock \in [Clients -> {"none", "queued", "open", "closed"}]
    /\ up \in [Clients -> Seq(Nat)] /\ down \in [Clients -> Seq(Nat)]
    /\ accepts \in Nat /\ replaced \subseteq Clients

(* After eipc_easy_listen has succeeded. *)
Init ==
    /\ client = [c \in Clients |-> "none"]
    /\ waiting = {}
    /\ cseq = [c \in Clients |-> 0]
    /\ listening = TRUE /\ hasClient = FALSE /\ sock = Invalid /\ sseq = 0
    /\ srvSock = [c \in Clients |-> "none"]
    /\ up = [c \in Clients |-> <<>>] /\ down = [c \in Clients |-> <<>>]
    /\ accepts = 0 /\ replaced = {}
-----------------------------------------------------------------------------
(* Mutations of the definitions below, one per property. *)
NextSeq_reused == UNCHANGED sseq
CloseConn_forgotten == srvSock' = [c \in Clients |-> IF srvSock[c] = "queued" THEN "closed" ELSE srvSock[c]]
-----------------------------------------------------------------------------
(* eipc_easy_connect: the kernel completes the connection while the server *)
(* listens; otherwise the handle is freed again.                           *)
Connect(c) ==
    /\ client[c] = "none"
    /\ \/ /\ listening
          /\ client' = [client EXCEPT ![c] = "connected"]
          /\ srvSock' = [srvSock EXCEPT ![c] = "queued"]
       \/ /\ ~listening
          /\ client' = [client EXCEPT ![c] = "closed"]
          /\ UNCHANGED srvSock
    /\ UNCHANGED <<waiting, cseq, serverVars, up, down>>

Ready(c) == client[c] = "connected" /\ c \notin waiting

(* eipc_easy_send_intent, _tool_request, _chat, _complete.  The sequence   *)
(* number is drawn before the payload is built.                            *)
ClientSend(c) ==
    /\ Ready(c) /\ cseq[c] < MaxSeq
    /\ cseq' = [cseq EXCEPT ![c] = @ + 1]
    /\ \/ up' = [up EXCEPT ![c] = Append(@, cseq'[c])]
       \/ UNCHANGED up
    /\ UNCHANGED <<client, waiting, serverVars, srvSock, down>>

(* eipc_easy_receive and eipc_easy_recv_ack are called. *)
ClientReceive(c) ==
    /\ Ready(c)
    /\ waiting' = waiting \cup {c}
    /\ UNCHANGED <<client, cseq, serverVars, netVars>>

(* ... and return with a frame. *)
ClientReturns(c) ==
    /\ c \in waiting /\ down[c] # <<>>
    /\ down' = [down EXCEPT ![c] = Tail(@)]
    /\ waiting' = waiting \ {c}
    /\ UNCHANGED <<client, cseq, serverVars, srvSock, up>>

(* ... or with EIPC_ERR_IO at the end of the stream. *)
ClientReceiveFails(c) ==
    /\ c \in waiting /\ down[c] = <<>> /\ srvSock[c] = "closed"
    /\ waiting' = waiting \ {c}
    /\ UNCHANGED <<client, cseq, serverVars, netVars>>

ClientClose(c) ==
    /\ Ready(c)
    /\ client' = [client EXCEPT ![c] = "closed"]
    /\ cseq' = [cseq EXCEPT ![c] = 0]
    /\ UNCHANGED <<waiting, serverVars, netVars>>
-----------------------------------------------------------------------------
(* eipc_easy_accept clears h->conn, whatever it held, and accepts. *)
Overwrite == replaced' = IF sock = Invalid THEN replaced ELSE replaced \cup {sock}

Accept(c) ==
    /\ listening /\ accepts < MaxAccepts
    /\ srvSock[c] = "queued"
    /\ Overwrite
    /\ sock' = c /\ sseq' = 0 /\ hasClient' = TRUE
    /\ srvSock' = [srvSock EXCEPT ![c] = "open"]
    /\ accepts' = accepts + 1
    /\ UNCHANGED <<clientVars, listening, up, down>>

(* accept() fails: h->conn is cleared all the same, has_client is kept. *)
AcceptFails ==
    /\ listening /\ accepts < MaxAccepts
    /\ Overwrite
    /\ sock' = Invalid /\ sseq' = 0
    /\ accepts' = accepts + 1
    /\ UNCHANGED <<clientVars, listening, hasClient, netVars>>

(* eipc_easy_recv_intent and eipc_easy_recv_chat.  A frame with a wrong    *)
(* MAC, a header that does not parse or a payload too large is refused     *)
(* before the counter moves.                                               *)
ServerReceive ==
    /\ hasClient /\ sock # Invalid /\ up[sock] # <<>>
    /\ up' = [up EXCEPT ![sock] = Tail(@)]
    /\ sseq' = sseq + 1 \/ UNCHANGED sseq
    /\ UNCHANGED <<clientVars, listening, hasClient, sock, accepts, replaced, srvSock, down>>

NextSeq == sseq' = sseq + 1

(* eipc_easy_send_ack and eipc_easy_send_chat_response.  send() to a peer  *)
(* that has closed may succeed, and fails with no socket.                  *)
ServerSend ==
    /\ hasClient /\ sseq < MaxSeq
    /\ NextSeq
    /\ \/ sock # Invalid /\ down' = [down EXCEPT ![sock] = Append(@, sseq')]
       \/ UNCHANGED down
    /\ UNCHANGED <<clientVars, listening, hasClient, sock, accepts, replaced, srvSock, up>>

(* The sockets eipc_easy_close_server closes: the connection it holds, and *)
(* the listener, with which the kernel drops what nobody accepted.         *)
CloseSockets ==
    srvSock' = [c \in Clients |-> IF c = sock \/ srvSock[c] = "queued" THEN "closed" ELSE srvSock[c]]

CloseServer ==
    /\ listening
    /\ CloseSockets
    /\ listening' = FALSE /\ hasClient' = FALSE /\ sock' = Invalid
    /\ UNCHANGED <<clientVars, sseq, accepts, replaced, up, down>>

ClientStep(c) ==
    \/ Connect(c) \/ ClientSend(c) \/ ClientReceive(c)
    \/ ClientReturns(c) \/ ClientReceiveFails(c) \/ ClientClose(c)

ServerStep ==
    \/ \E c \in Clients : Accept(c)
    \/ AcceptFails \/ ServerReceive \/ ServerSend \/ CloseServer

Next == ServerStep \/ \E c \in Clients : ClientStep(c)

Spec == Init /\ [][Next]_vars

(* A blocked receive returns when the kernel has a frame for it or the end *)
(* of the stream.                                                          *)
FairSpec ==
    /\ Spec
    /\ \A c \in Clients : WF_vars(ClientReturns(c) \/ ClientReceiveFails(c))
-----------------------------------------------------------------------------
Increasing(frames) ==
    \A i, j \in DOMAIN frames : i < j => frames[i] < frames[j]

(* On every connection, in both directions, the frames on their way carry  *)
(* increasing sequence numbers above all that were sent before, so a peer  *)
(* with a replay tracker takes every one; the server's counter also counts *)
(* what it receives, and a new connection starts again at 1.               *)
SequencesIncrease ==
    /\ \A c \in Clients : Increasing(up[c]) /\ Increasing(down[c])
    /\ sock # Invalid => \A i \in DOMAIN down[sock] : down[sock][i] <= sseq

(* The server handle loses an open socket only when accept is called again *)
(* while it holds one.                                                     *)
OpenSocketsHeld == \A c \in Clients : srvSock[c] = "open" => c = sock \/ c \in replaced

(* Closing the server ends every receive of every client, also of those    *)
(* that were never accepted, except on a socket a later accept overwrote.  *)
ReceivesEnd ==
    \A c \in Clients :
        (c \in waiting /\ ~listening /\ c \notin replaced) ~> (c \notin waiting)
=============================================================================

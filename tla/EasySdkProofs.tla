---------------------------- MODULE EasySdkProofs ----------------------------
(***************************************************************************)
(* EasySdk, for every number of clients, of accepts and of frames.         *)
(***************************************************************************)
EXTENDS EasySdk, SequenceTheorems, TLAPS

(* What SequencesIncrease needs to be inductive: a counter that will be    *)
(* used again is at least every number sent with it, a connection that has *)
(* not been accepted has been sent nothing, the socket of the handle has   *)
(* been accepted, and nothing is accepted before its client connects.      *)
CountersLead ==
    /\ \A c \in Clients : client[c] # "closed" => \A i \in DOMAIN up[c] : up[c][i] <= cseq[c]
    /\ \A c \in Clients : srvSock[c] \in {"none", "queued"} => down[c] = <<>>
    /\ sock # Invalid => srvSock[sock] \in {"open", "closed"}
    /\ \A c \in Clients : client[c] = "none" => srvSock[c] = "none"

SeqInv == TypeOK /\ SequencesIncrease /\ CountersLead

(* The items of a sequence of numbers are numbers. *)
LEMMA InSeq == \A s \in Seq(Nat) : \A i \in DOMAIN s : s[i] \in Nat
BY ElementOfSeq, LenProperties

(* A number above all others may be appended, as a send does. *)
LEMMA IncreasingAppend ==
  ASSUME NEW s \in Seq(Nat), NEW n \in Nat, Increasing(s),
         \A i \in DOMAIN s : s[i] <= n
  PROVE  /\ Append(s, n + 1) \in Seq(Nat)
         /\ Increasing(Append(s, n + 1))
         /\ \A i \in DOMAIN Append(s, n + 1) : Append(s, n + 1)[i] <= n + 1
<1> DEFINE t == Append(s, n + 1)
<1>1. /\ t \in Seq(Nat) /\ Len(t) = Len(s) + 1 /\ Len(s) \in Nat
      /\ DOMAIN t = 1 .. (Len(s) + 1) /\ DOMAIN s = 1 .. Len(s)
      /\ \A i \in 1 .. Len(s) : t[i] = s[i] /\ s[i] \in Nat
      /\ t[Len(s) + 1] = n + 1
  BY AppendProperties, LenProperties, ElementOfSeq
<1> HIDE DEF t
<1>2. \A i \in DOMAIN t : i \in 1 .. Len(s) \/ i = Len(s) + 1
  BY <1>1
<1>3. ASSUME NEW i \in DOMAIN t PROVE t[i] <= n + 1
  <2>1. CASE i \in 1 .. Len(s)
    <3>1. t[i] \in Nat /\ t[i] <= n
      BY <1>1, <2>1
    <3> QED BY <3>1
  <2>2. CASE i = Len(s) + 1
    BY <1>1, <2>2
  <2> QED BY <1>2, <2>1, <2>2
<1>4. Increasing(t)
  <2> SUFFICES ASSUME NEW i \in DOMAIN t, NEW j \in DOMAIN t, i < j
               PROVE  t[i] < t[j]
    BY DEF Increasing
  <2>1. i \in 1 .. Len(s)
    BY <1>1
  <2>2. CASE j \in 1 .. Len(s)
    BY <1>1, <2>1, <2>2 DEF Increasing
  <2>3. CASE j = Len(s) + 1
    BY <1>1, <2>1, <2>3
  <2> QED BY <1>2, <2>2, <2>3
<1> QED BY <1>1, <1>3, <1>4 DEF t

(* The head may be taken, as a receive does. *)
LEMMA IncreasingTail ==
  ASSUME NEW s \in Seq(Nat), s # <<>>, Increasing(s)
  PROVE  /\ Tail(s) \in Seq(Nat)
         /\ Increasing(Tail(s))
         /\ \A i \in DOMAIN Tail(s) : \E j \in DOMAIN s : Tail(s)[i] = s[j]
<1> DEFINE t == Tail(s)
<1>1. /\ t \in Seq(Nat) /\ Len(t) = Len(s) - 1 /\ Len(s) \in Nat /\ Len(s) > 0
      /\ DOMAIN t = 1 .. (Len(s) - 1) /\ DOMAIN s = 1 .. Len(s)
      /\ \A i \in 1 .. (Len(s) - 1) : t[i] = s[i + 1]
  BY HeadTailProperties, LenProperties, EmptySeq
<1> HIDE DEF t
<1>2. ASSUME NEW i \in DOMAIN t PROVE i + 1 \in DOMAIN s /\ t[i] = s[i + 1]
  <2>1. i \in 1 .. (Len(s) - 1)
    BY <1>1
  <2>2. i + 1 \in 1 .. Len(s)
    BY <1>1, <2>1, SMTT(30)
  <2> QED BY <1>1, <2>1, <2>2, Zenon
<1>3. Increasing(t)
  <2> SUFFICES ASSUME NEW i \in DOMAIN t, NEW j \in DOMAIN t, i < j
               PROVE  t[i] < t[j]
    BY DEF Increasing
  <2>1. i \in Int /\ j \in Int /\ i + 1 < j + 1
    BY <1>1
  <2> QED BY <1>2, <2>1 DEF Increasing
<1> QED BY <1>1, <1>2, <1>3 DEF t
-----------------------------------------------------------------------------
(* Every call of the easy API preserves the types. *)
LEMMA TypeStep == TypeOK /\ [Next]_vars => TypeOK'
<1> SUFFICES ASSUME TypeOK, [Next]_vars PROVE TypeOK'
  OBVIOUS
<1> USE SdkAssumption DEF TypeOK
<1>1. ASSUME NEW c \in Clients, Connect(c) PROVE TypeOK'
  BY <1>1, Zenon DEF Connect, serverVars, handleVars
<1>2. ASSUME NEW c \in Clients, ClientSend(c) PROVE TypeOK'
  <2>1. cseq' \in [Clients -> Nat]
    BY <1>2 DEF ClientSend
  <2>2. Append(up[c], cseq'[c]) \in Seq(Nat)
    BY <2>1, AppendProperties
  <2>3. up' \in [Clients -> Seq(Nat)]
    BY <1>2, <2>2, Zenon DEF ClientSend
  <2> QED BY <1>2, <2>1, <2>3 DEF ClientSend, serverVars, handleVars
<1>3. ASSUME NEW c \in Clients, ClientReceive(c) PROVE TypeOK'
  BY <1>3 DEF ClientReceive, serverVars, handleVars, netVars
<1>4. ASSUME NEW c \in Clients, ClientReturns(c) PROVE TypeOK'
  <2>1. Tail(down[c]) \in Seq(Nat)
    BY <1>4, HeadTailProperties DEF ClientReturns
  <2> QED BY <1>4, <2>1 DEF ClientReturns, serverVars, handleVars
<1>5. ASSUME NEW c \in Clients, ClientReceiveFails(c) PROVE TypeOK'
  BY <1>5 DEF ClientReceiveFails, serverVars, handleVars, netVars
<1>6. ASSUME NEW c \in Clients, ClientClose(c) PROVE TypeOK'
  BY <1>6 DEF ClientClose, serverVars, handleVars, netVars
<1>7. ASSUME NEW c \in Clients, Accept(c) PROVE TypeOK'
  BY <1>7 DEF Accept, Overwrite, clientVars
<1>8. CASE AcceptFails
  BY <1>8 DEF AcceptFails, Overwrite, clientVars, netVars
<1>9. CASE ServerReceive
  <2>1. sock \in Clients /\ Tail(up[sock]) \in Seq(Nat)
    BY <1>9, HeadTailProperties DEF ServerReceive
  <2> QED BY <1>9, <2>1 DEF ServerReceive, clientVars
<1>10. CASE ServerSend
  <2>1. sseq' \in Nat
    BY <1>10 DEF ServerSend, NextSeq
  <2>2. sock # Invalid => Append(down[sock], sseq') \in Seq(Nat)
    BY <2>1, AppendProperties
  <2>3. down' \in [Clients -> Seq(Nat)]
    BY <1>10, <2>2, Zenon DEF ServerSend
  <2> QED BY <1>10, <2>1, <2>3 DEF ServerSend, clientVars
<1>11. CASE CloseServer
  BY <1>11, Zenon DEF CloseServer, CloseSockets, clientVars
<1>12. CASE UNCHANGED vars
  BY <1>12 DEF vars, clientVars, serverVars, handleVars, netVars
<1> QED
  BY <1>1, <1>2, <1>3, <1>4, <1>5, <1>6, <1>7, <1>8, <1>9, <1>10, <1>11, <1>12, Zenon
  DEF Next, ServerStep, ClientStep

(* The state after eipc_easy_listen is well typed. *)
LEMMA SdkInitType == Init => TypeOK
<1> DEFINE empty == <<>>
<1>1. empty \in Seq(Nat)
  BY EmptySeq
<1>2. Init => up = [c \in Clients |-> empty] /\ down = [c \in Clients |-> empty]
  BY DEF Init
<1> HIDE DEF empty
<1>3. Init => up \in [Clients -> Seq(Nat)] /\ down \in [Clients -> Seq(Nat)]
  BY <1>1, <1>2
<1>4. 0 \in Nat
  OBVIOUS
<1> QED BY <1>3, <1>4, Zenon DEF Init, TypeOK

(* Every handle, counter and stream keeps its type. *)
THEOREM SdkTypeCorrect == Spec => []TypeOK
BY SdkInitType, TypeStep, PTL DEF Spec
-----------------------------------------------------------------------------
(* eipc_easy_accept, eipc_easy_close_server and the failing accept never   *)
(* lose an open socket unless an accept overwrote it.                      *)
THEOREM SdkSocketsHeld == Spec => []OpenSocketsHeld
<1>1. Init => OpenSocketsHeld
  BY DEF Init, OpenSocketsHeld
<1>2. TypeOK /\ OpenSocketsHeld /\ [Next]_vars => OpenSocketsHeld'
  <2> SUFFICES ASSUME TypeOK, OpenSocketsHeld, [Next]_vars PROVE OpenSocketsHeld'
    OBVIOUS
  <2> USE SdkAssumption DEF TypeOK, OpenSocketsHeld
  <2>1. ASSUME NEW c \in Clients, Connect(c) PROVE OpenSocketsHeld'
    BY <2>1 DEF Connect, serverVars, handleVars
  <2>2. ASSUME NEW c \in Clients, Accept(c) PROVE OpenSocketsHeld'
    BY <2>2 DEF Accept, Overwrite
  <2>3. CASE AcceptFails
    BY <2>3 DEF AcceptFails, Overwrite, netVars
  <2>4. CASE CloseServer
    BY <2>4 DEF CloseServer, CloseSockets
  <2>5. ASSUME UNCHANGED <<srvSock, sock, replaced>> PROVE OpenSocketsHeld'
    BY <2>5
  <2> QED
    BY <2>1, <2>2, <2>3, <2>4, <2>5
    DEF Next, ServerStep, ClientStep, ClientSend, ClientReceive, ClientReturns,
        ClientReceiveFails, ClientClose, ServerReceive, ServerSend,
        vars, clientVars, serverVars, handleVars, netVars
<1> QED BY <1>1, <1>2, SdkTypeCorrect, PTL DEF Spec
-----------------------------------------------------------------------------
(* Every call preserves the order of the numbers under way. *)
LEMMA SeqStep == SeqInv /\ [Next]_vars => SeqInv'
<1> SUFFICES ASSUME SeqInv, [Next]_vars PROVE SeqInv'
  OBVIOUS
<1>0. TypeOK'
  BY TypeStep DEF SeqInv
<1> DEFINE Rest == SequencesIncrease' /\ CountersLead'
<1> USE SdkAssumption DEF SeqInv, TypeOK, SequencesIncrease, CountersLead
<1>1. ASSUME NEW c \in Clients, Connect(c) PROVE Rest
  <2> USE DEF Connect, serverVars, handleVars
  <2>1. UNCHANGED <<up, down, cseq, sseq, sock>> /\ client[c] = "none"
    BY <1>1
  <2>2. \A d \in Clients : client'[d] # "closed" => client[d] # "closed"
    BY <1>1
  <2>3. \A d \in Clients : srvSock'[d] \in {"none", "queued"} => down[d] = <<>>
    BY <1>1
  <2>4. sock # Invalid => srvSock'[sock] \in {"open", "closed"}
    BY <1>1
  <2>5. \A d \in Clients : client'[d] = "none" => srvSock'[d] = "none"
    BY <1>1
  <2> QED BY <2>1, <2>2, <2>3, <2>4, <2>5
<1>2. ASSUME NEW c \in Clients, ClientSend(c) PROVE Rest
  <2> USE DEF ClientSend, Ready, serverVars, handleVars
  <2>1. client[c] # "closed" /\ cseq[c] \in Nat /\ cseq'[c] = cseq[c] + 1
    BY <1>2
  <2>2. \A d \in Clients \ {c} : up'[d] = up[d] /\ cseq'[d] = cseq[d]
    BY <1>2
  <2>3. up'[c] = up[c] \/ up'[c] = Append(up[c], cseq[c] + 1)
    BY <1>2, <2>1
  <2>4. Increasing(up'[c]) /\ \A i \in DOMAIN up'[c] : up'[c][i] <= cseq'[c]
    <3>1. CASE up'[c] = Append(up[c], cseq[c] + 1)
      <4>1. up[c] \in Seq(Nat) /\ Increasing(up[c]) /\ \A i \in DOMAIN up[c] : up[c][i] <= cseq[c]
        BY <2>1
      <4> QED BY <2>1, <3>1, <4>1, IncreasingAppend, SMTT(30)
    <3>2. CASE up'[c] = up[c]
      <4>1. \A i \in DOMAIN up[c] : up[c][i] \in Nat /\ up[c][i] <= cseq[c]
        BY <2>1, InSeq
      <4> QED BY <2>1, <3>2, <4>1, SMTT(30)
    <3> QED BY <2>3, <3>1, <3>2
  <2> QED BY <1>2, <2>2, <2>4, Zenon
<1>4. ASSUME NEW c \in Clients, ClientReturns(c) PROVE Rest
  <2> USE DEF ClientReturns, serverVars, handleVars
  <2>1. /\ down[c] \in Seq(Nat) /\ down[c] # <<>> /\ Increasing(down[c])
        /\ down'[c] = Tail(down[c])
        /\ \A d \in Clients \ {c} : down'[d] = down[d]
    BY <1>4
  <2>2. /\ Increasing(down'[c])
        /\ \A i \in DOMAIN down'[c] : \E j \in DOMAIN down[c] : down'[c][i] = down[c][j]
    BY <2>1, IncreasingTail, SMTT(30)
  <2>3. srvSock'[c] \notin {"none", "queued"}
    BY <1>4
  <2>4. UNCHANGED <<client, cseq, sock, sseq, srvSock, up>>
    BY <1>4
  <2>5. SequencesIncrease'
    <3>1. \A d \in Clients : Increasing(up'[d]) /\ Increasing(down'[d])
      BY <2>1, <2>2, <2>4, Zenon
    <3>2. ASSUME sock # Invalid PROVE \A i \in DOMAIN down'[sock] : down'[sock][i] <= sseq
      <4>1. CASE sock = c
        BY <2>2, <3>2, <4>1
      <4>2. CASE sock # c
        BY <2>1, <3>2, <4>2
      <4> QED BY <4>1, <4>2
    <3> QED BY <2>4, <3>1, <3>2
  <2>6. CountersLead'
    BY <2>1, <2>3, <2>4
  <2> QED BY <2>5, <2>6
<1>6. ASSUME NEW c \in Clients, ClientClose(c) PROVE Rest
  BY <1>6 DEF ClientClose, serverVars, handleVars, netVars
<1>7. ASSUME NEW c \in Clients, Accept(c) PROVE Rest
  BY <1>7, SMTT(30) DEF Accept, Overwrite, clientVars
<1>8. ASSUME AcceptFails PROVE Rest
  BY <1>8 DEF AcceptFails, Overwrite, clientVars, netVars
<1>9. ASSUME ServerReceive PROVE Rest
  <2> USE DEF ServerReceive, clientVars
  <2>1. /\ sock \in Clients /\ up[sock] \in Seq(Nat) /\ up[sock] # <<>> /\ Increasing(up[sock])
        /\ up'[sock] = Tail(up[sock])
        /\ \A d \in Clients \ {sock} : up'[d] = up[d]
    BY <1>9
  <2>2. /\ Increasing(up'[sock])
        /\ \A i \in DOMAIN up'[sock] : \E j \in DOMAIN up[sock] : up'[sock][i] = up[sock][j]
    BY <2>1, IncreasingTail, SMTT(30)
  <2>3. \A i \in DOMAIN down[sock] : down[sock][i] <= sseq'
    <3>1. \A i \in DOMAIN down[sock] : down[sock][i] <= sseq
      BY <1>9
    <3>2. \A i \in DOMAIN down[sock] : down[sock][i] \in Nat
      BY <2>1, InSeq
    <3>3. sseq \in Nat /\ (sseq' = sseq + 1 \/ sseq' = sseq)
      BY <1>9
    <3> HIDE DEF SeqInv, ServerReceive
    <3> QED BY <3>1, <3>2, <3>3
  <2>4. UNCHANGED <<client, cseq, sock, srvSock, down>>
    BY <1>9
  <2>5. SequencesIncrease'
    BY <2>1, <2>2, <2>3, <2>4, Zenon
  <2>6. CountersLead'
    <3>1. ASSUME NEW d \in Clients, client[d] # "closed"
          PROVE  \A i \in DOMAIN up'[d] : up'[d][i] <= cseq[d]
      <4>1. CASE d = sock
        BY <2>2, <3>1, <4>1
      <4>2. CASE d # sock
        BY <2>1, <3>1, <4>2
      <4> QED BY <4>1, <4>2
    <3> QED BY <2>4, <3>1
  <2> QED BY <2>5, <2>6
<1>10. ASSUME ServerSend PROVE Rest
  <2> USE DEF ServerSend, NextSeq, clientVars
  <2>1. CASE UNCHANGED down
    <3>1. sock # Invalid => \A i \in DOMAIN down[sock] : down[sock][i] \in Nat /\ down[sock][i] <= sseq + 1
      BY InSeq
    <3> QED BY <1>10, <2>1, <3>1
  <2>2. CASE sock # Invalid /\ down' = [down EXCEPT ![sock] = Append(@, sseq')]
    <3>1. /\ sock \in Clients /\ down[sock] \in Seq(Nat) /\ Increasing(down[sock])
          /\ \A i \in DOMAIN down[sock] : down[sock][i] <= sseq
          /\ down'[sock] = Append(down[sock], sseq + 1)
          /\ \A d \in Clients \ {sock} : down'[d] = down[d]
      BY <1>10, <2>2
    <3>2. Increasing(down'[sock]) /\ \A i \in DOMAIN down'[sock] : down'[sock][i] <= sseq + 1
      BY <3>1, IncreasingAppend, SMTT(30)
    <3> QED BY <1>10, <2>2, <3>1, <3>2
  <2> QED BY <1>10, <2>1, <2>2
<1>11. ASSUME CloseServer PROVE Rest
  BY <1>11 DEF CloseServer, CloseSockets, clientVars
<1>12. ASSUME UNCHANGED <<client, cseq, sock, sseq, srvSock, up, down>> PROVE Rest
  BY <1>12, Zenon
<1>13. Rest
  BY <1>1, <1>2, <1>4, <1>6, <1>7, <1>8, <1>9, <1>10, <1>11, <1>12, Zenon
  DEF Next, ServerStep, ClientStep, ClientReceive, ClientReceiveFails,
      vars, clientVars, serverVars, handleVars, netVars
<1> QED BY <1>0, <1>13

(* In both directions of every connection the frames under way carry       *)
(* increasing numbers: the counters of eipc_easy.c are drawn once per send *)
(* and restart only with a new connection.                                 *)
THEOREM SdkSequencesIncrease == Spec => []SequencesIncrease
<1>1. Init => SequencesIncrease /\ CountersLead
  BY DEF Init, SequencesIncrease, CountersLead, Increasing
<1>2. Init => SeqInv
  BY <1>1, SdkInitType DEF SeqInv
<1>3. SeqInv => SequencesIncrease
  BY DEF SeqInv
<1> QED BY <1>2, <1>3, SeqStep, PTL DEF Spec
=============================================================================

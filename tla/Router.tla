-------------------------------- MODULE Router --------------------------------
(***************************************************************************)
(* core/router.go: DispatchBatch handles a batch in order of priority,     *)
(* through container/heap, while other goroutines register handlers.       *)
(* Dispatch looks the handler up under the read lock and calls it after it *)
(* has released it.  The heap is a sequence: the code's pq[i] is pq[i + 1]. *)
(***************************************************************************)
EXTENDS Naturals, Sequences, FiniteSets

CONSTANTS
    MsgTypes,       \* message types
    Priorities,     \* PriorityP0 .. PriorityP3, as numbers
    HandlerFuncs,   \* the handlers that get registered
    MaxBatch        \* bound: the messages of a batch

ASSUME RouterAssumption == Priorities \subseteq Nat /\ MaxBatch \in Nat

VARIABLES
    handlers,       \* r.handlers: type -> handler
    batch,          \* the messages of the call of DispatchBatch under way
    pq,             \* its heap of items: a message and its place in the batch
    inHand,         \* the place of the item popped, and the handler found
    answers,        \* results, in the order of the batch
    handled         \* history: the places in the order they were handled

routerVars == <<handlers, batch, pq, inHand, answers, handled>>

Messages == [type : MsgTypes, priority : Priorities]
NoHandler == "none"
NoItem == [index |-> 0, handler |-> NoHandler]

RouterTypeOK ==
    /\ handlers \in [MsgTypes -> HandlerFuncs \cup {NoHandler}]
    /\ batch \in Seq(Messages)
    /\ pq \in Seq([msg : Messages, index : 1 .. Len(batch)])
    /\ handled \in Seq(1 .. Len(batch))
    /\ Len(answers) = Len(batch)

NewRouter ==
    /\ handlers = [t \in MsgTypes |-> NoHandler]
    /\ batch = <<>> /\ pq = <<>> /\ answers = <<>> /\ handled = <<>>
    /\ inHand = NoItem
-----------------------------------------------------------------------------
(* Mutations of the definitions below. *)
PopLast_first(heap) == [item |-> heap[1], rest |-> Tail(heap)]

(* pq.Less on two items, pq.Swap, and pq.Pop, which takes the last. *)
Less(x, y) == x.msg.priority < y.msg.priority
Swap(heap, i, j) == [heap EXCEPT ![i] = heap[j], ![j] = heap[i]]
PopLast(heap) == [item |-> heap[Len(heap)], rest |-> SubSeq(heap, 1, Len(heap) - 1)]

(* container/heap.  A turn of down: the item in hand changes places with   *)
(* the lesser of its children, among the first n items, if that is Less.   *)
DownTurn(st, n) ==
    LET left == 2 * st.at
        least == IF left + 1 <= n /\ Less(st.heap[left + 1], st.heap[left]) THEN left + 1 ELSE left
    IN  IF left > n \/ ~Less(st.heap[least], st.heap[st.at]) THEN st
        ELSE [heap |-> Swap(st.heap, st.at, least), at |-> least]

(* down moves the i-th item; the loop has ended after n turns. *)
Down(heap, i, n) ==
    LET turn[k \in 0 .. n] ==
            IF k = 0 THEN [heap |-> heap, at |-> i] ELSE DownTurn(turn[k - 1], n)
    IN  turn[n].heap

(* Init does so for the inner items from the last to the first; Pop swaps  *)
(* the first item to the end, repairs, and pops it.                        *)
HeapInit(heap, inner) ==
    LET turn[k \in 0 .. inner] ==
            IF k = 0 THEN heap ELSE Down(turn[k - 1], inner + 1 - k, Len(heap))
    IN  turn[inner]

HeapPop(heap) == PopLast(Down(Swap(heap, 1, Len(heap)), 1, Len(heap) - 1))
-----------------------------------------------------------------------------
Handle(type, handler) ==
    /\ handlers' = [handlers EXCEPT ![type] = handler]
    /\ UNCHANGED <<batch, pq, inHand, answers, handled>>

(* DispatchBatch up to its loop. *)
Submit(messages) ==
    /\ batch = <<>>
    /\ batch' = messages
    /\ pq' = HeapInit([i \in DOMAIN messages |-> [msg |-> messages[i], index |-> i]],
                      Len(messages) \div 2)
    /\ answers' = [i \in DOMAIN messages |-> NoItem]
    /\ UNCHANGED <<handlers, inHand, handled>>

(* Pop, and the lookup of Dispatch. *)
Take ==
    LET popped == HeapPop(pq) IN
    /\ pq # <<>> /\ inHand = NoItem
    /\ pq' = popped.rest
    /\ inHand' = [index |-> popped.item.index, handler |-> handlers[popped.item.msg.type]]
    /\ UNCHANGED <<handlers, batch, answers, handled>>

(* Mutation of Slot: results are kept in the order of handling. *)
Slot_in_order == Len(handled) + 1

(* results[item.index] *)
Slot == inHand.index

(* The handler returns, or there is none and the response is nil. *)
Answer ==
    /\ inHand # NoItem
    /\ answers' = [answers EXCEPT ![Slot] = inHand]
    /\ handled' = Append(handled, inHand.index)
    /\ inHand' = NoItem
    /\ UNCHANGED <<handlers, batch, pq>>

(* DispatchBatch returns the results; the goroutine may call it again. *)
ReturnAnswers ==
    /\ batch # <<>> /\ pq = <<>> /\ inHand = NoItem
    /\ batch' = <<>> /\ answers' = <<>> /\ handled' = <<>>
    /\ UNCHANGED <<handlers, pq, inHand>>

RouterNext ==
    \/ \E t \in MsgTypes, h \in HandlerFuncs : Handle(t, h)
    \/ \E n \in 1 .. MaxBatch : \E messages \in [1 .. n -> Messages] : Submit(messages)
    \/ Take \/ Answer \/ ReturnAnswers

RouterSpec == NewRouter /\ [][RouterNext]_routerVars
-----------------------------------------------------------------------------
(* What DispatchBatch has handled so far, and what it holds, are the most  *)
(* urgent messages of the batch, each once: no message is handled while a  *)
(* more urgent one of the same batch waits, whatever the order of arrival. *)
UrgentFirst ==
    LET order == IF inHand = NoItem THEN handled ELSE Append(handled, inHand.index) IN
    /\ \A i, j \in DOMAIN order :
        i < j => /\ order[i] # order[j]
                 /\ batch[order[i]].priority <= batch[order[j]].priority
    /\ \A i \in DOMAIN order, k \in DOMAIN pq :
        /\ order[i] # pq[k].index
        /\ batch[order[i]].priority <= pq[k].msg.priority
    /\ Len(order) + Len(pq) = Len(batch)

(* When DispatchBatch returns, its i-th result is the answer to the i-th   *)
(* message, although they were handled in another order.                   *)
AnswersInPlace ==
    pq = <<>> /\ inHand = NoItem => \A i \in DOMAIN batch : answers[i].index = i
=============================================================================

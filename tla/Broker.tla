-------------------------------- MODULE Broker --------------------------------
(***************************************************************************)
(* services/broker/broker.go: subscribers, routes, and the goroutines that *)
(* route messages to them.  b.mu guards the two maps; Route and Fanout     *)
(* copy the subscribers they need under the read lock and send after they  *)
(* have released it, one endpoint after the other.                         *)
(***************************************************************************)
EXTENDS Integers, Sequences, FiniteSets, Functions

CONSTANTS
    Services,       \* service ids
    Subs,           \* the subscribers: [service, endpoint, transport, priority]
    Types,          \* message types
    Callers         \* goroutines that call Route and Fanout

NoSub == [service |-> "none"]

ASSUME BrokerAssumption ==
    /\ IsFiniteSet(Services)
    /\ NoSub \notin Subs
    /\ \A s \in Subs :
        /\ s.service \in Services /\ s.priority \in Nat
        /\ s.transport \in {"socket", "shm"}
    /\ \A s, t \in Subs : s.endpoint = t.endpoint => s = t

VARIABLES
    subscribers,    \* b.subscribers
    routes,         \* b.routes
    closed,         \* the subscribers whose endpoint was closed and sends no more
    todo, results,  \* of each caller: the subscribers it has still to send
                    \* to, and those it has sent to with the outcome
    call,           \* of each caller: the call it is in, and its targets
    members,        \* history: who subscribed and has neither been replaced
                    \* by another subscriber of its name nor unsubscribed
    changed         \* history: of each call, who joined or left meanwhile

mapVars == <<subscribers, routes>>
callVars == <<todo, results, call>>
historyVars == <<members, changed>>
vars == <<mapVars, closed, callVars, historyVars>>

Idle == [op |-> "idle"]

TypeOK ==
    /\ subscribers \in [Services -> Subs \cup {NoSub}]
    /\ routes \in [Types -> Seq(Services)]
    /\ closed \subseteq Subs /\ members \subseteq Subs
    /\ \A c \in Callers : Range(todo[c]) \subseteq Subs
    /\ changed \in [Callers -> SUBSET Subs]

NewBroker ==
    /\ subscribers = [s \in Services |-> NoSub]
    /\ routes = [t \in Types |-> <<>>]

Init ==
    /\ NewBroker
    /\ closed = {} /\ members = {} /\ changed = [c \in Callers |-> {}]
    /\ todo = [c \in Callers |-> <<>>]
    /\ results = [c \in Callers |-> <<>>]
    /\ call = [c \in Callers |-> Idle]

(* The history of a step in which some join and some leave. *)
Membership(joining, leaving) ==
    /\ members' = (members \ leaving) \cup joining
    /\ changed' = [c \in Callers |->
            IF call[c] = Idle THEN {} ELSE changed[c] \cup joining \cup leaving]

Named(s) == {sub \in members : sub.service = s}
-----------------------------------------------------------------------------
(* Mutations of the definitions below, one per property. *)
Unsubscribe_keeps_entry(s) ==
    /\ subscribers[s] # NoSub
    /\ closed' = closed \cup {subscribers[s]}
    /\ Membership({}, Named(s))
    /\ UNCHANGED <<mapVars, callVars>>

InsertByPriority_unstable(sub, sorted) ==
    LET n == CHOOSE n \in 0 .. Len(sorted) :
                /\ n = 0 \/ sorted[n].priority < sub.priority
                /\ \A j \in n + 1 .. Len(sorted) : sorted[j].priority >= sub.priority
    IN  SubSeq(sorted, 1, n) \o <<sub>> \o SubSeq(sorted, n + 1, Len(sorted))
-----------------------------------------------------------------------------
(* A subscriber replaces an earlier one with the same id, whose endpoint   *)
(* stays open.                                                             *)
Subscribe(sub) ==
    /\ subscribers' = [subscribers EXCEPT ![sub.service] = sub]
    /\ Membership({sub}, Named(sub.service))
    /\ UNCHANGED <<routes, closed, callVars>>

(* sub.Endpoint.Close().  That of a shared-memory connection does nothing, *)
(* and its Send goes on.                                                   *)
CloseEndpoint(sub) ==
    closed' = IF sub.transport = "shm" THEN closed ELSE closed \cup {sub}

Unsubscribe(s) ==
    /\ subscribers[s] # NoSub
    /\ CloseEndpoint(subscribers[s])
    /\ subscribers' = [subscribers EXCEPT ![s] = NoSub]
    /\ Membership({}, Named(s))
    /\ UNCHANGED <<routes, callVars>>

Added(existing, target) ==
    IF target \in Range(existing) THEN existing ELSE Append(existing, target)

AddRoute(type, target) ==
    /\ routes' = [routes EXCEPT ![type] = Added(@, target)]
    /\ UNCHANGED <<subscribers, closed, callVars, historyVars>>

(* The first occurrence is cut out. *)
Removed(targets, target) ==
    LET first == CHOOSE i \in DOMAIN targets :
                    targets[i] = target /\ \A k \in 1 .. i - 1 : targets[k] # target
    IN  IF target \notin Range(targets) THEN targets
        ELSE SubSeq(targets, 1, first - 1) \o SubSeq(targets, first + 1, Len(targets))

RemoveRoute(type, target) ==
    /\ routes' = [routes EXCEPT ![type] = Removed(@, target)]
    /\ UNCHANGED <<subscribers, closed, callVars, historyVars>>

(* One pass of the insertion sort: sub moves left, past every subscriber   *)
(* of a greater priority number, up to one that has none.                  *)
InsertByPriority(sub, sorted) ==
    LET n == CHOOSE n \in 0 .. Len(sorted) :
                /\ n = 0 \/ sorted[n].priority <= sub.priority
                /\ \A j \in n + 1 .. Len(sorted) : sorted[j].priority > sub.priority
    IN  SubSeq(sorted, 1, n) \o <<sub>> \o SubSeq(sorted, n + 1, Len(sorted))

sortByPriority(subs) ==
    LET sorted[i \in 0 .. Len(subs)] ==
            IF i = 0 THEN <<>> ELSE InsertByPriority(subs[i], sorted[i - 1])
    IN  sorted[Len(subs)]

(* The subscribers of the targets of a type, in the order of the routes. *)
Routed(type) ==
    LET targets == routes[type]
        subs[i \in 0 .. Len(targets)] ==
            IF i = 0 THEN <<>>
            ELSE IF subscribers[targets[i]] = NoSub THEN subs[i - 1]
            ELSE Append(subs[i - 1], subscribers[targets[i]])
    IN  subs[Len(targets)]

Subscribed == {subscribers[s] : s \in Services} \ {NoSub}

Begin(c, op, subs) ==
    /\ call[c] = Idle
    /\ subs # <<>>
    /\ todo' = [todo EXCEPT ![c] = subs]
    /\ call' = [call EXCEPT ![c] = op]
    /\ UNCHANGED <<mapVars, closed, results, historyVars>>

(* Route up to its loop; it returns at once when nobody is to be sent to. *)
Route(c, type) ==
    Begin(c, [op |-> "route", targets |-> Routed(type)], sortByPriority(Routed(type)))

(* Fanout up to its loop, in the order of a Go map. *)
Fanout(c) ==
    \E order \in Bijection(1 .. Cardinality(Subscribed), Subscribed) :
        Begin(c, [op |-> "fanout"], order)

(* One turn of the loop: Send, which may always fail and fails on a closed *)
(* endpoint, and the audit entry of Route.                                 *)
SendNext(c) ==
    /\ todo[c] # <<>>
    /\ \E err \in BOOLEAN :
        /\ Head(todo[c]) \in closed => err
        /\ results' = [results EXCEPT ![c] = Append(@, [sub |-> Head(todo[c]), err |-> err])]
    /\ todo' = [todo EXCEPT ![c] = Tail(@)]
    /\ UNCHANGED <<mapVars, closed, call, historyVars>>

(* The loop ends and the results are returned. *)
Return(c) ==
    /\ call[c] # Idle /\ todo[c] = <<>>
    /\ call' = [call EXCEPT ![c] = Idle]
    /\ results' = [results EXCEPT ![c] = <<>>]
    /\ changed' = [changed EXCEPT ![c] = {}]
    /\ UNCHANGED <<mapVars, closed, todo, members>>

Next ==
    \/ \E sub \in Subs : Subscribe(sub)
    \/ \E s \in Services : Unsubscribe(s)
    \/ \E type \in Types, s \in Services : AddRoute(type, s) \/ RemoveRoute(type, s)
    \/ \E c \in Callers : SendNext(c) \/ Return(c) \/ Fanout(c) \/ \E type \in Types : Route(c, type)

Spec == Init /\ [][Next]_vars
-----------------------------------------------------------------------------
(* All whom the call of c has sent to or will send to. *)
Receivers(done, rest) == {done[i].sub : i \in DOMAIN done} \cup Range(rest)
SendsTo(c) == Receivers(results[c], todo[c])

(* Calls send without the lock, from copies, while subscribers come and    *)
(* go.  One who has left, or was replaced, is sent to only by a call that  *)
(* was under way when that happened, never by one that began later; and    *)
(* Fanout misses nobody who is subscribed for as long as it runs.          *)
CallsFollowMembership ==
    \A c \in Callers : call[c] # Idle =>
        /\ SendsTo(c) \ changed[c] \subseteq members
        /\ call[c].op = "fanout" => members \ changed[c] \subseteq SendsTo(c)

(* Route sends in the order of priority, and in the order of the routes    *)
(* among equals.                                                           *)
RoutedInPriorityOrder ==
    \A c \in Callers : call[c] # Idle /\ call[c].op = "route" =>
        LET order == [i \in DOMAIN results[c] |-> results[c][i].sub] \o todo[c]
            place(x) == CHOOSE k \in DOMAIN call[c].targets : call[c].targets[k] = x
        IN  /\ Range(order) = Range(call[c].targets)
            /\ \A i, j \in DOMAIN order : i < j =>
                  \/ order[i].priority < order[j].priority
                  \/ /\ order[i].priority = order[j].priority
                     /\ place(order[i]) < place(order[j])
=============================================================================

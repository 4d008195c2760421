------------------------------ MODULE EventBus ------------------------------
(***************************************************************************)
(* The event bus (eventbus/bus.go), on one topic: Publish copies the       *)
(* subscriptions and the bridge under the lock and calls the copies        *)
(* without it, while others subscribe, cancel and publish.  What a         *)
(* handler does itself, on the goroutine of its publisher, is done by      *)
(* somebody else here: the bus holds no lock that would tell them apart.   *)
(***************************************************************************)
EXTENDS Naturals, Sequences, FiniteSets, SequencesExt

CONSTANTS
    Publisher,
    Handler,        \* one subscription each
    Bridge,         \* the frontend
    MaxEvents       \* bound: events that are published

VARIABLES
    subs,           \* the subscriptions, oldest first
    bridge,         \* what Publish forwards to: << >> or <<Bridge>>
    used,           \* subscriptions that were made
    publishing,     \* per publisher the event and the handlers it still calls
    events,         \* events so far: the event is its number
    calls,          \* ghost: per event the handlers called so far
    subscribedAt    \* ghost: per event who was subscribed when it was published

busVars == <<subs, bridge, used, publishing, events, calls, subscribedAt>>

NoEvent == [event |-> 0, todo |-> << >>]

BusInit ==
    /\ subs = << >> /\ bridge = << >> /\ used = {} /\ events = 0
    /\ publishing = [p \in Publisher |-> NoEvent]
    /\ calls = << >> /\ subscribedAt = << >>

\* BridgeToFrontend; nil ends it.
BridgeToFrontend(b) ==
    /\ bridge # b /\ bridge' = b
    /\ UNCHANGED <<subs, used, publishing, events, calls, subscribedAt>>

Subscribe(h) ==
    /\ h \notin used
    /\ subs' = Append(subs, h) /\ used' = used \cup {h}
    /\ UNCHANGED <<bridge, publishing, events, calls, subscribedAt>>

\* A second call of the cancel function does nothing.
Cancel(h) ==
    /\ \E i \in DOMAIN subs : subs[i] = h /\ subs' = RemoveAt(subs, i)
    /\ UNCHANGED <<bridge, used, publishing, events, calls, subscribedAt>>

Publish(p) ==
    /\ publishing[p] = NoEvent /\ events < MaxEvents
    /\ events' = events + 1
    /\ publishing' = [publishing EXCEPT ![p] = [event |-> events', todo |-> subs \o bridge]]
    /\ subscribedAt' = Append(subscribedAt, subs \o bridge)
    /\ calls' = Append(calls, << >>)
    /\ UNCHANGED <<subs, bridge, used>>

\* mutant: a handler that was cancelled in between shifts the others
CallShifted(p) ==
    LET e == publishing[p] IN
    /\ e.todo # << >>
    /\ LET next == IF Head(e.todo) \in Range(subs) \cup {Bridge} \/ Len(e.todo) = 1 THEN e.todo ELSE Tail(e.todo) IN
       /\ calls' = [calls EXCEPT ![e.event] = Append(@, Head(next))]
       /\ publishing' = [publishing EXCEPT ![p] = IF Len(next) = 1 THEN NoEvent ELSE [@ EXCEPT !.todo = Tail(next)]]
    /\ UNCHANGED <<subs, bridge, used, events, subscribedAt>>

\* A handler is called; when it panics the next one is called all the same.
Call(p) ==
    LET e == publishing[p] IN
    /\ e.todo # << >>
    /\ calls' = [calls EXCEPT ![e.event] = Append(@, Head(e.todo))]
    /\ publishing' = [publishing EXCEPT ![p] = IF Len(e.todo) = 1 THEN NoEvent ELSE [e EXCEPT !.todo = Tail(e.todo)]]
    /\ UNCHANGED <<subs, bridge, used, events, subscribedAt>>

\* Nobody is subscribed and there is no bridge.
Unheard(p) ==
    /\ publishing[p].event # 0 /\ publishing[p].todo = << >>
    /\ publishing' = [publishing EXCEPT ![p] = NoEvent]
    /\ UNCHANGED <<subs, bridge, used, events, calls, subscribedAt>>

BusNext ==
    \/ \E p \in Publisher : Publish(p) \/ Call(p) \/ Unheard(p)
    \/ \E h \in Handler : Subscribe(h) \/ Cancel(h)
    \/ \E b \in {<< >>, <<Bridge>>} : BridgeToFrontend(b)

BusSpec == BusInit /\ [][BusNext]_busVars

-----------------------------------------------------------------------------
(* Properties                                                              *)

Running(e) == \E p \in Publisher : publishing[p].event = e

\* An event reaches everybody who was subscribed when it was published, once
\* and in the order of the subscriptions, and the frontend after them,
\* whatever is subscribed and cancelled meanwhile; nobody else is called.  A
\* handler may be called after its cancel function has returned, but only for
\* events that were published before.
DeliveredExactly ==
    \A e \in 1 .. events :
        /\ IsPrefix(calls[e], subscribedAt[e])
        /\ ~Running(e) => calls[e] = subscribedAt[e]
=============================================================================

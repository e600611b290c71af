------------------------------- MODULE EventBus -------------------------------
(***************************************************************************)
(* The event bus (app/services/event_bus.py). Agents publish on threads of *)
(* their own; under the lock an event is appended to a bounded history and *)
(* the subscribers of its topic are copied, and after it they are called   *)
(* on the publisher's thread, one after the other, whatever one of them    *)
(* raises. With Kafka configured the event is handed to the producer last. *)
(*                                                                         *)
(* One topic is followed: topics share the history and nothing else.       *)
(***************************************************************************)
EXTENDS Integers, FiniteSets, Sequences, SequencesExt

CONSTANTS
    Publishers, Handlers,
    HistoryLimit,                    \* events kept (200 in the code)
    MaxEvents, MaxHandlerRaises      \* bounds

ASSUME BusAssumption == HistoryLimit \in Nat \ {0} /\ MaxEvents \in Nat /\ MaxHandlerRaises \in Nat

VARIABLES
    events,        \* all events; "after" are those whose publish had returned
    publisher,     \* per thread: the event it publishes, and the step
    subscribers,   \* _subscribers of the topic
    history,       \* _history
    reached,       \* per handler: the events it was called with
    produced,          \* handed to the Kafka producer, in order
    handlerRaises

busVars == <<events, publisher, subscribers, history, reached, produced, handlerRaises>>

Idle == [step |-> "idle", event |-> 0, left |-> <<>>]

BusInit ==
    /\ events = <<>>
    /\ publisher = [t \in Publishers |-> Idle]
    /\ subscribers = <<>>
    /\ history = <<>>
    /\ reached = [h \in Handlers |-> <<>>]
    /\ produced = <<>>
    /\ handlerRaises = 0

Publishing == {publisher[t].event : t \in {u \in Publishers : publisher[u].step # "idle"}}
Returned == (1 .. Len(events)) \ Publishing
Moves(t, step, left) ==
    publisher' = [publisher EXCEPT ![t] = [step |-> step, event |-> @.event, left |-> left]]

(* subscribe, at the import of the module that listens                     *)
Subscribe(h) ==
    /\ h \notin ToSet(subscribers)
    /\ subscribers' = Append(subscribers, h)
    /\ UNCHANGED <<events, publisher, history, reached, produced, handlerRaises>>

(* _make_event stamps it, before the lock.                                 *)
Publish(t) ==
    /\ publisher[t].step = "idle"
    /\ Len(events) < MaxEvents
    /\ events' = Append(events, [after |-> Returned, to |-> ToSet(subscribers)])
    /\ publisher' = [publisher EXCEPT ![t] =
            [step |-> "append", event |-> Len(events) + 1, left |-> <<>>]]
    /\ UNCHANGED <<subscribers, history, reached, produced, handlerRaises>>

(* Mutant: a full history takes no more. *)
CutOldest(s) == IF Len(s) > HistoryLimit THEN SubSeq(s, 1, HistoryLimit) ELSE s

Cut(s) == IF Len(s) > HistoryLimit THEN SubSeq(s, Len(s) - HistoryLimit + 1, Len(s)) ELSE s

AppendEvent(t) ==
    /\ publisher[t].step = "append"
    /\ history' = Cut(Append(history, publisher[t].event))
    /\ Moves(t, "deliver", subscribers)
    /\ UNCHANGED <<events, subscribers, reached, produced, handlerRaises>>

(* Mutant: the loop ends with the first handler that raises. *)
LeftIfRaisedStop(left, raised) == IF raised THEN <<>> ELSE Tail(left)

LeftAfter(left, raised) == Tail(left)

(* The next handler is called. What it raises is logged; here it counts as *)
(* called.                                                                 *)
Deliver(t, raised) ==
    /\ publisher[t].step = "deliver"
    /\ publisher[t].left # <<>>
    /\ raised => handlerRaises < MaxHandlerRaises
    /\ handlerRaises' = IF raised THEN handlerRaises + 1 ELSE handlerRaises
    /\ reached' = [reached EXCEPT ![Head(publisher[t].left)] = Append(@, publisher[t].event)]
    /\ Moves(t, "deliver", LeftAfter(publisher[t].left, raised))
    /\ UNCHANGED <<events, subscribers, history, produced>>

(* KafkaEventBus.publish: send, or it raises, which is logged; the         *)
(* in-process bus returns without it.                                      *)
Send(t) ==
    /\ publisher[t].step = "deliver"
    /\ publisher[t].left = <<>>
    /\ produced' \in {produced, Append(produced, publisher[t].event)}
    /\ publisher' = [publisher EXCEPT ![t] = Idle]
    /\ UNCHANGED <<events, subscribers, history, reached, handlerRaises>>

BusNext ==
    \/ \E h \in Handlers : Subscribe(h)
    \/ \E t \in Publishers :
          \/ Publish(t) \/ AppendEvent(t) \/ Send(t)
          \/ \E raised \in BOOLEAN : Deliver(t, raised)

BusSpec == BusInit /\ [][BusNext]_busVars

-----------------------------------------------------------------------------
(* Properties. *)

Positions(s) == 1 .. Len(s)
Published == 1 .. Len(events)

BusTypeOK ==
    /\ events \in Seq([after : SUBSET (1 .. MaxEvents), to : SUBSET Handlers])
    /\ publisher \in [Publishers ->
          [step : {"idle", "append", "deliver"}, event : 0 .. MaxEvents, left : Seq(Handlers)]]
    /\ subscribers \in Seq(Handlers)
    /\ history \in Seq(Published) /\ Len(history) <= HistoryLimit
    /\ reached \in [Handlers -> Seq(Published)]
    /\ produced \in Seq(Published)
    /\ handlerRaises \in 0 .. MaxHandlerRaises

(* No event comes twice, or before one whose publish had returned when its *)
(* own began.                                                              *)
InOrder(s) ==
    \A i, j \in Positions(s) : i < j => s[i] # s[j] /\ s[j] \notin events[s[i]].after

(* Safety: however publishers interleave and whichever handlers raise, the *)
(* history, every subscriber and the broker get events in an order that    *)
(* agrees with who published after whose publish had returned, none twice  *)
(* (event_bus.py:70-81, 163-168); once publish returns every handler that  *)
(* was subscribed at its start has been called; and of two events that far *)
(* apart the history never keeps the older and drops the newer.            *)
BusKeepsOrder ==
    /\ InOrder(history) /\ InOrder(produced)
    /\ \A h \in Handlers : InOrder(reached[h])
    /\ \A e \in Returned : \A h \in events[e].to : e \in ToSet(reached[h])
    /\ \A e \in Returned \ ToSet(history) : \A f \in ToSet(history) : f \notin events[e].after
    /\ Cardinality(Returned) >= HistoryLimit => Len(history) = HistoryLimit
=============================================================================

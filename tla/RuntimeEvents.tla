----------------------------- MODULE RuntimeEvents -----------------------------
(* How a browser learns of what happens in a run (domain/runtime/events.py,   *)
(* the publication in RuntimeService, the broadcaster in app.py and the       *)
(* websocket hub in api/routes/runtime.py): events are published after the    *)
(* commit that records them, through an in-process bus in the API and through *)
(* bounded queues, PostgreSQL notifications and a listener between processes. *)
(*                                                                            *)
(* One run, one worker process, one API process and one browser.  An event is *)
(* <<type, number>>: "terminal" and "trace" events have their seq_no, "status"*)
(* the snapshot number of the task status.                                    *)
EXTENDS Integers, Sequences, FiniteSets

CONSTANTS
    QueueSize,      \* of the notification queues; 10000 in the code
    MaxTurns,       \* bound on the turns of the worker
    MaxInputs,      \* bound on the inputs appended through the API
    MaxFaults,      \* bound on the failures of connections and reads
    MaxConnects     \* bound on the connections of the browser

ASSUME EventsAssumption ==
    /\ QueueSize \in Nat \ {0}
    /\ {MaxTurns, MaxInputs, MaxFaults, MaxConnects} \subseteq Nat

VARIABLES
    committed,  \* [terminal, trace, status: last number committed, ended]
    turns, inputs,
    pending,    \* what the worker and the API still publish of their last commit
    queue,      \* the queues of their PostgresRuntimeEventSink
    closed,     \* whether the sink of the worker has been closed
    channel,    \* notifications on the way to the listener
    listening,  \* whether the listener is connected
    bus,        \* the queue of the API's AsyncioRuntimeEventBus
    online,     \* whether the browser is connected
    since,      \* what was committed or under way when it connected
    received,   \* what it has received on this connection, in order
    connects, faults

vars == <<committed, turns, inputs, pending, queue, closed, channel, listening, bus,
          online, since, received, connects, faults>>

Producers == {"worker", "api"}
Stop == <<"stop", 0>>
Elements(s) == {s[i] : i \in DOMAIN s}

Init ==
    /\ committed = [terminal |-> 0, trace |-> 0, status |-> 0, ended |-> FALSE]
    /\ turns = 0 /\ inputs = 0
    /\ pending = [p \in Producers |-> <<>>]
    /\ queue = [p \in Producers |-> <<>>]
    /\ closed = FALSE
    /\ channel = <<>> /\ listening = TRUE /\ bus = <<>>
    /\ online = FALSE /\ since = {} /\ received = <<>>
    /\ connects = 0 /\ faults = 0

Fault == faults < MaxFaults /\ faults' = faults + 1

(*****************************************************************************)
(* The commits, and the publication of what they added.                      *)
(*****************************************************************************)
(* _publish_runtime_events_after: the terminal events, the task status, and   *)
(* the trace events, in this order.                                           *)
Added(old, new) ==
    [i \in 1..(new.terminal - old.terminal) |-> <<"terminal", old.terminal + i>>]
    \o (IF new.status > old.status THEN <<<<"status", new.status>>>> ELSE <<>>)
    \o [i \in 1..(new.trace - old.trace) |-> <<"trace", old.trace + i>>]

_commit_and_publish(p, new) ==
    /\ pending[p] = <<>>
    /\ committed' = new
    /\ pending' = [pending EXCEPT ![p] = Added(committed, new)]
    /\ UNCHANGED <<queue, closed, channel, listening, bus, online, since, received,
                   connects, faults>>

(* A node of a turn: its output, its snapshot and its trace event.            *)
process_run ==
    /\ turns < MaxTurns /\ turns' = turns + 1 /\ inputs' = inputs
    /\ ~committed.ended /\ ~closed
    /\ _commit_and_publish("worker",
         [committed EXCEPT !.terminal = @ + 1, !.status = @ + 1, !.trace = @ + 1])

append_terminal_event ==
    /\ inputs < MaxInputs /\ inputs' = inputs + 1 /\ turns' = turns
    /\ ~committed.ended
    /\ _commit_and_publish("api", [committed EXCEPT !.terminal = @ + 1])

cancel_run ==
    /\ ~committed.ended
    /\ _commit_and_publish("api",
         [committed EXCEPT !.status = @ + 1, !.trace = @ + 1, !.ended = TRUE])
    /\ UNCHANGED <<turns, inputs>>

(* PostgresRuntimeEventSink.publish.  The log line for a full queue reads the *)
(* seq_no of the hint, which that of a task status does not have: publication *)
(* then ends in a KeyError.                                                   *)
Full(p) == Len(queue[p]) >= QueueSize
Offered(p, event) ==
    IF Full(p) \/ (p = "worker" /\ closed) THEN queue
    ELSE [queue EXCEPT ![p] = Append(@, event)]
RaisesKeyError(p, event) == Full(p) /\ event[1] = "status" /\ ~(p = "worker" /\ closed)

(* In the worker the error ends the publication of the commit; in the API the *)
(* CompositeRuntimeEventSink publishes to the bus first and swallows it.      *)
publish(p) ==
    /\ pending[p] # <<>>
    /\ LET event == Head(pending[p]) IN
       /\ pending' = [pending EXCEPT ![p] =
                        IF p = "worker" /\ RaisesKeyError(p, event) THEN <<>> ELSE Tail(@)]
       /\ queue' = Offered(p, event)
       /\ bus' = IF p = "api" THEN Append(bus, [event |-> event, hint |-> FALSE]) ELSE bus
       /\ IF Full(p) THEN Fault ELSE faults' = faults
    /\ UNCHANGED <<committed, turns, inputs, closed, channel, listening, online, since,
                   received, connects>>

\* Mutant of CloseSink: what is queued is thrown away.
CloseWithoutDraining ==
    /\ ~closed /\ pending["worker"] = <<>> /\ closed' = TRUE
    /\ queue' = [queue EXCEPT !["worker"] = <<Stop>>]
    /\ UNCHANGED <<committed, turns, inputs, pending, channel, listening, bus, online,
                   since, received, connects, faults>>

(* Shutdown of the worker once its handlers are done: the sentinel goes in,   *)
(* in the place of the oldest hint when the queue stays full.                 *)
CloseSink ==
    /\ ~closed /\ pending["worker"] = <<>> /\ closed' = TRUE
    /\ queue' = [queue EXCEPT !["worker"] = Append(IF Full("worker") THEN Tail(@) ELSE @, Stop)]
    /\ IF Full("worker") THEN Fault ELSE faults' = faults
    /\ UNCHANGED <<committed, turns, inputs, pending, channel, listening, bus, online,
                   since, received, connects>>

(*****************************************************************************)
(* Between the processes.                                                    *)
(*****************************************************************************)
\* Mutant of FromSelf: the listener does not know which sink is its own.
FromNobody(p) == FALSE

(* The listener skips what the sink of its own process has sent.              *)
FromSelf(p) == p = "api"

Notified(p, event) ==
    IF listening /\ ~FromSelf(p) THEN Append(channel, event) ELSE channel

(* The publisher thread: a hint is sent, given up after two attempts, or sent *)
(* twice because the connection broke after the first notification; the       *)
(* sentinel ends the thread.                                                  *)
_publisher(p) ==
    /\ queue[p] # <<>>
    /\ queue' = [queue EXCEPT ![p] = Tail(@)]
    /\ LET event == Head(queue[p]) IN
       \/ event = Stop /\ UNCHANGED <<channel, faults>>
       \/ /\ event # Stop /\ faults' = faults
          /\ channel' = Notified(p, event)
       \/ /\ event # Stop /\ Fault
          /\ \/ channel' = channel
             \/ /\ listening /\ ~FromSelf(p)
                /\ channel' = channel \o <<event, event>>
    /\ UNCHANGED <<committed, turns, inputs, pending, closed, listening, bus, online, since,
                   received, connects>>

_listener ==
    /\ listening /\ channel # <<>>
    /\ channel' = Tail(channel)
    /\ bus' = Append(bus, [event |-> Head(channel), hint |-> TRUE])
    /\ UNCHANGED <<committed, turns, inputs, pending, queue, closed, listening, online, since,
                   received, connects, faults>>

(* The connection of the listener breaks: what was on the way is lost, and so *)
(* is everything notified until it has reconnected and issued LISTEN again.   *)
ListenerFails ==
    /\ listening /\ Fault
    /\ listening' = FALSE /\ channel' = <<>>
    /\ UNCHANGED <<committed, turns, inputs, pending, queue, closed, bus, online, since,
                   received, connects>>

ListenerReconnects ==
    /\ ~listening /\ listening' = TRUE
    /\ UNCHANGED <<committed, turns, inputs, pending, queue, closed, channel, bus, online,
                   since, received, connects, faults>>

(*****************************************************************************)
(* In the API: the broadcaster, the hub and the browser.                     *)
(*****************************************************************************)
\* Mutant of _hydrate_runtime_event: the envelope repeats the hint.
RepeatHint(event) == event

(* The envelope of a hint is built from the database when it is broadcast: a  *)
(* task status is the current one.                                            *)
_hydrate_runtime_event(event) ==
    IF event[1] = "status" THEN <<"status", committed.status>> ELSE event

(* An event that fails to be hydrated or sent is logged and passed over; a    *)
(* failed send disconnects the browser.                                       *)
_broadcast_runtime_events ==
    /\ bus # <<>> /\ bus' = Tail(bus)
    /\ LET item == Head(bus)
           envelope == IF item.hint THEN _hydrate_runtime_event(item.event) ELSE item.event
       IN
       \/ received' = (IF online THEN Append(received, envelope) ELSE received)
            /\ UNCHANGED <<faults, online>>
       \/ Fault /\ UNCHANGED <<received, online>>
       \/ online /\ Fault /\ online' = FALSE /\ received' = received
    /\ UNCHANGED <<committed, turns, inputs, pending, queue, closed, channel, listening, since,
                   connects>>

UpTo(type, n) == {<<type, i>> : i \in 1..n}
CommittedEvents ==
    UpTo("terminal", committed.terminal) \union UpTo("trace", committed.trace)

(* The browser connects and reads over REST what is committed by then.        *)
connect ==
    /\ ~online /\ connects < MaxConnects
    /\ connects' = connects + 1 /\ online' = TRUE
    /\ since' = CommittedEvents /\ received' = <<>>
    /\ UNCHANGED <<committed, turns, inputs, pending, queue, closed, channel, listening, bus,
                   faults>>

disconnect ==
    /\ online /\ online' = FALSE
    /\ UNCHANGED <<committed, turns, inputs, pending, queue, closed, channel, listening, bus,
                   since, received, connects, faults>>

Next ==
    \/ process_run \/ append_terminal_event \/ cancel_run
    \/ \E p \in Producers : publish(p) \/ _publisher(p)
    \/ CloseSink \/ _listener \/ ListenerFails \/ ListenerReconnects
    \/ _broadcast_runtime_events \/ connect \/ disconnect

Spec == Init /\ [][Next]_vars

(*****************************************************************************)
(* Properties.                                                               *)
(*****************************************************************************)
TypeOK ==
    /\ committed \in [terminal : Nat, trace : Nat, status : Nat, ended : BOOLEAN]
    /\ \A p \in Producers : Len(queue[p]) <= QueueSize + 1
    /\ {listening, online, closed} \subseteq BOOLEAN
    /\ faults \in 0..MaxFaults /\ connects \in 0..MaxConnects

Times(event) == Cardinality({i \in DOMAIN received : received[i] = event})

(* Without a fault no terminal or trace event reaches a browser twice on one  *)
(* connection, although the API both keeps its events on its own bus and      *)
(* notifies them (source_id); and none arrives that was not committed.        *)
ReceivedOnce ==
    /\ TypeOK
    /\ faults = 0 => \A e \in Elements(received) : e[1] # "status" => Times(e) = 1
    /\ \A e \in Elements(received) : e[1] # "status" => e \in CommittedEvents

AtRest ==
    /\ \A p \in Producers : pending[p] = <<>> /\ queue[p] = <<>>
    /\ channel = <<>> /\ bus = <<>>

(* Without a fault, once everything is at rest, a browser that is connected   *)
(* has received every event that it could not read when it connected (the     *)
(* queues lose nothing by themselves, close drains the queue before its       *)
(* sentinel).                                                                 *)
NothingMissed ==
    AtRest /\ faults = 0 /\ online => CommittedEvents \ since \subseteq Elements(received)

(* The task status a browser is shown never goes back to an earlier snapshot, *)
(* although a cancellation is announced on the bus of the API while the hints *)
(* of the worker's turns are still on their way.                              *)
StatusNeverGoesBack ==
    \A i, j \in DOMAIN received :
        i < j /\ received[i][1] = "status" /\ received[j][1] = "status"
            => received[i][2] <= received[j][2]

=============================================================================

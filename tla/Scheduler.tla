------------------------------ MODULE Scheduler ------------------------------
(***************************************************************************)
(* Scheduler.Run (internal/runtime/scheduler): initialise the components,  *)
(* push the input event along the graph through one FIFO queue until the   *)
(* queue is empty, an error occurs or the event limit is exceeded, then    *)
(* shut the components down.                                               *)
(*                                                                         *)
(* What a component does with an event is arbitrary: it returns any list   *)
(* of at most MaxCommands commands, an error, or panics (which safeHandle  *)
(* turns into an error).                                                   *)
(***************************************************************************)
EXTENDS Graph, FiniteSets

CONSTANTS
  Segments,     \* the strings between the dots of endpoints
  Components,   \* the keys of Scheduler.Components
  Managed,      \* those that implement Initializer and Shutdowner (nodes do)
  Edges,        \* Scheduler.Graph
  MaxEvents,    \* Scheduler.MaxEvents, 0 for the default
  Ports,        \* the ports components emit on
  EmitSources,  \* the values components give EmitEvent.Event.Source
  MaxCommands   \* bound on the commands one Handle call returns

Endpoint == Seq(Segments)

ASSUME SchedulerAssumption ==
  /\ {NoPort, "input", "output"} \subseteq Segments
  /\ Components \subseteq Endpoint
  /\ Managed \subseteq Components
  /\ Edges \in [DOMAIN Edges -> Seq(Endpoint)]
  /\ MaxEvents \in Nat
  /\ Ports \subseteq Segments
  /\ EmitSources \subseteq Endpoint
  /\ MaxCommands \in Nat

VARIABLES
  pc,         \* where Run is
  todo,       \* components initComponents or shutdownComponents still visits
  life,       \* lifecycle of each managed component
  queue,      \* items waiting for delivery
  processed,  \* items taken off the queue
  outputs,    \* events collected at "output"
  current,    \* the component whose Handle runs, and the event it was given
  commands,   \* its commands that applyCommands has not reached
  result,     \* what Run returns
  log         \* history: every item ever put on the queue

vars == <<pc, todo, life, queue, processed, outputs, current, commands,
          result, log>>

------------------------------------------------------------------------------
defaultMaxEvents == 10000
EventLimit == IF MaxEvents = 0 THEN defaultMaxEvents ELSE MaxEvents

Event == [source : Endpoint, target : Endpoint, port : Segments]
queueItem == [endpoint : Endpoint, event : Event]

\* executor.Run feeds in an event with a payload and nothing else.
inputEvent == [source |-> NoName, target |-> NoName, port |-> NoPort]

Command == [kind : {"EmitEvent", "SetOutput", "other"},
            source : EmitSources, port : Ports]
CommandLists == UNION {[1..n -> Command] : n \in 0..MaxCommands}

Idle == [component |-> NoName, event |-> inputEvent]

\* One queue item per endpoint in a list of successors.
Fanout(targets, event) ==
  [i \in DOMAIN targets |-> [endpoint |-> targets[i], event |-> event]]

\* Variant: a stack instead of a queue.
PushFront(items) ==
  /\ queue' = items \o queue
  /\ log' = log \o items

Enqueue(items) ==
  /\ queue' = queue \o items
  /\ log' = log \o items

\* Variant: components that need no shutdown are shut down too.
ReturnVisitingAll(outcome) ==
  /\ pc' = "shutdown"
  /\ todo' = Components
  /\ result' = outcome

\* Variant: shutdown only at the end of the function, not deferred.
ReturnWithoutDefer(outcome) ==
  /\ pc' = "shutdown"
  /\ todo' = IF outcome = "ok" THEN Managed ELSE {}
  /\ result' = outcome

(***************************************************************************)
(* Leave the loop with an outcome.  The deferred shutdownComponents runs   *)
(* on every way out, in the arbitrary order of a Go map.                   *)
(***************************************************************************)
Return(outcome) ==
  /\ pc' = "shutdown"
  /\ todo' = Managed
  /\ result' = outcome

Init ==
  /\ pc = "init"
  /\ todo = Managed
  /\ life = [c \in Managed |-> "new"]
  /\ queue = <<>>
  /\ processed = 0
  /\ outputs = <<>>
  /\ current = Idle
  /\ commands = <<>>
  /\ result = "none"
  /\ log = <<>>

------------------------------------------------------------------------------
(* initComponents *)

InitComponent(c) ==
  /\ pc = "init"
  /\ c \in todo
  /\ todo' = todo \ {c}
  /\ life' = [life EXCEPT ![c] = "ready"]
  /\ UNCHANGED <<pc, queue, processed, outputs, current, commands, result, log>>

\* Run returns before it has deferred shutdownComponents: the components that
\* are initialised are not shut down, although the comment on Run says so.
InitFails(c) ==
  /\ pc = "init"
  /\ c \in todo
  /\ pc' = "returned"
  /\ result' = "initError"
  /\ UNCHANGED <<todo, life, queue, processed, outputs, current, commands, log>>

SeedQueue ==
  /\ pc = "init"
  /\ todo = {}
  /\ Enqueue(Fanout(Successors(Edges, Input), inputEvent))
  /\ pc' = "loop"
  /\ UNCHANGED <<todo, life, processed, outputs, current, commands, result>>

------------------------------------------------------------------------------
(* The event loop *)

\* Take the head of the queue; every item counts towards the limit.
Pop ==
  /\ pc = "loop"
  /\ queue # <<>>
  /\ queue' = Tail(queue)
  /\ processed' = processed + 1

\* Variant: off by one.
WithinLimitPlusOne(n) == n <= EventLimit + 1

WithinLimit(n) == n <= EventLimit

\* Variant: a run cut off at the limit counts as a success.
LimitIgnored ==
  /\ Pop
  /\ ~WithinLimit(processed')
  /\ Return("ok")
  /\ UNCHANGED <<life, outputs, current, commands, log>>

LimitExceeded ==
  /\ Pop
  /\ ~WithinLimit(processed')
  /\ Return("limitError")
  /\ UNCHANGED <<life, outputs, current, commands, log>>

CollectOutput ==
  /\ Pop
  /\ WithinLimit(processed')
  /\ Head(queue).endpoint = Output
  /\ outputs' = Append(outputs, Head(queue).event)
  /\ UNCHANGED <<pc, todo, life, current, commands, result, log>>

UnknownComponent ==
  /\ Pop
  /\ WithinLimit(processed')
  /\ Head(queue).endpoint # Output
  /\ SplitEndpoint(Head(queue).endpoint).component \notin Components
  /\ Return("unknownComponent")
  /\ UNCHANGED <<life, outputs, current, commands, log>>

\* The event as the component sees it: the port is kept unless it is empty.
Addressed(item) ==
  [item.event EXCEPT
     !.target = item.endpoint,
     !.port   = IF @ = NoPort THEN SplitEndpoint(item.endpoint).port ELSE @]

Dispatch ==
  /\ Pop
  /\ WithinLimit(processed')
  /\ Head(queue).endpoint # Output
  /\ SplitEndpoint(Head(queue).endpoint).component \in Components
  /\ current' = [component |-> SplitEndpoint(Head(queue).endpoint).component,
                 event     |-> Addressed(Head(queue))]
  /\ pc' = "handle"
  /\ UNCHANGED <<todo, life, outputs, commands, result, log>>

HandleReturns ==
  /\ pc = "handle"
  /\ commands' \in CommandLists
  /\ pc' = "apply"
  /\ UNCHANGED <<todo, life, queue, processed, outputs, current, result, log>>

\* Handle returns an error, or panics inside safeHandle.
HandleFails ==
  /\ pc = "handle"
  /\ Return("handleError")
  /\ current' = Idle
  /\ UNCHANGED <<life, queue, processed, outputs, commands, log>>

Drained ==
  /\ pc = "loop"
  /\ queue = <<>>
  /\ Return("ok")
  /\ UNCHANGED <<life, queue, processed, outputs, current, commands, log>>

------------------------------------------------------------------------------
(* applyCommands *)

\* The event a command carries; only EmitEvent has its source defaulted.
Carried(cmd) ==
  [source |-> IF cmd.kind = "EmitEvent" /\ cmd.source = NoName
                THEN current.component ELSE cmd.source,
   target |-> NoName,
   port   |-> cmd.port]

EmitEvent ==
  /\ pc = "apply"
  /\ commands # <<>>
  /\ Head(commands).kind = "EmitEvent"
  /\ LET out == Carried(Head(commands))
     IN  Enqueue(Fanout(Successors(Edges, JoinEndpoint(out.source, out.port)),
                        out))
  /\ commands' = Tail(commands)
  /\ UNCHANGED <<pc, todo, life, processed, outputs, current, result>>

SetOutput ==
  /\ pc = "apply"
  /\ commands # <<>>
  /\ Head(commands).kind = "SetOutput"
  /\ Enqueue(Fanout(<<Output>>, Carried(Head(commands))))
  /\ commands' = Tail(commands)
  /\ UNCHANGED <<pc, todo, life, processed, outputs, current, result>>

\* Variant: the loop over the commands does not get past this one.
UnsupportedCommandSpins ==
  /\ pc = "apply"
  /\ commands # <<>>
  /\ Head(commands).kind = "other"
  /\ UNCHANGED vars

UnsupportedCommand ==
  /\ pc = "apply"
  /\ commands # <<>>
  /\ Head(commands).kind = "other"
  /\ Return("commandError")
  /\ commands' = <<>>
  /\ current' = Idle
  /\ UNCHANGED <<life, queue, processed, outputs, log>>

CommandsApplied ==
  /\ pc = "apply"
  /\ commands = <<>>
  /\ pc' = "loop"
  /\ current' = Idle
  /\ UNCHANGED <<todo, life, queue, processed, outputs, commands, result, log>>

------------------------------------------------------------------------------
(* shutdownComponents *)

\* An error of Shutdown is traced and otherwise ignored.
ShutdownComponent(c) ==
  /\ pc = "shutdown"
  /\ c \in todo
  /\ todo' = todo \ {c}
  /\ life' = [life EXCEPT ![c] = "down"]
  /\ UNCHANGED <<pc, queue, processed, outputs, current, commands, result, log>>

\* Variant: a run that fails returns what it has collected.
ShutdownKeepsOutputs ==
  /\ pc = "shutdown"
  /\ todo = {}
  /\ pc' = "returned"
  /\ UNCHANGED <<todo, life, queue, processed, outputs, current, commands,
                 result, log>>

\* Only a successful run returns the events it collected.
ShutdownDone ==
  /\ pc = "shutdown"
  /\ todo = {}
  /\ pc' = "returned"
  /\ outputs' = IF result = "ok" THEN outputs ELSE <<>>
  /\ UNCHANGED <<todo, life, queue, processed, current, commands, result, log>>

------------------------------------------------------------------------------
Initialise == SeedQueue \/ \E c \in Managed : InitComponent(c) \/ InitFails(c)

Deliver == LimitExceeded \/ CollectOutput \/ UnknownComponent \/ Dispatch

Handle == HandleReturns \/ HandleFails

ApplyCommands == EmitEvent \/ SetOutput \/ UnsupportedCommand \/ CommandsApplied

Shutdown == ShutdownDone \/ \E c \in Managed : ShutdownComponent(c)

Next == Initialise \/ Deliver \/ Drained \/ Handle \/ ApplyCommands \/ Shutdown

Spec == Init /\ [][Next]_vars

\* Run is one goroutine that never waits, provided every Handle call returns.
FairSpec == Spec /\ WF_vars(Next)

------------------------------------------------------------------------------
(* Properties *)

TypeOK ==
  /\ pc \in {"init", "loop", "handle", "apply", "shutdown", "returned"}
  /\ todo \subseteq Managed
  /\ life \in [Managed -> {"new", "ready", "down"}]
  /\ queue \in Seq(queueItem)
  /\ processed \in Nat
  /\ outputs \in Seq(Event)
  /\ current \in [component : Endpoint, event : Event]
  /\ commands \in Seq(Command)
  /\ result \in {"none", "ok", "initError", "limitError", "unknownComponent",
                 "handleError", "commandError"}
  /\ log \in Seq(queueItem)

\* A component handles events only while every managed component is between
\* its Init and its Shutdown, and a run whose initialisation succeeded has
\* shut every one of them down when it returns, whatever ended it (the
\* deferred shutdownComponents of Run).
Lifecycle ==
  /\ pc \in {"loop", "handle", "apply"} => \A c \in Managed : life[c] = "ready"
  /\ pc = "returned" /\ result # "initError" => \A c \in Managed : life[c] = "down"

\* The queue of Run is exactly the part of everything ever sent that has not
\* been taken off yet: nothing is lost, duplicated or overtaken on the way.
QueueIsUndelivered == queue = SubSeq(log, processed + 1, Len(log))

\* The event limit bounds the work of a run: no more than EventLimit events
\* reach a component or the output, and a run that would need more fails.
WithinBudget ==
  /\ processed <= EventLimit + 1
  /\ processed > EventLimit => result = "limitError"
  /\ Len(outputs) <= EventLimit

\* Where the items for the output are among the first n items sent.
ForOutput(n) == {k \in 1..n : log[k].endpoint = Output}

\* The outputs are the events of these, each of them once and in the order
\* of sending: at[i] is the place of the i-th output in the log.
OutputsAreThoseOf(n) ==
  \E at \in [DOMAIN outputs -> ForOutput(n)] :
    /\ \A i \in DOMAIN outputs : outputs[i] = log[at[i]].event
    /\ \A i, j \in DOMAIN outputs : i < j => at[i] < at[j]
    /\ \A k \in ForOutput(n) : \E i \in DOMAIN outputs : at[i] = k

\* A run that succeeds returns the events addressed to "output", all of them
\* and in the order they were sent; a run that fails returns none.
OutputsComplete ==
  pc = "returned" =>
    IF result = "ok" THEN OutputsAreThoseOf(Len(log)) ELSE outputs = <<>>

\* Every run ends, cyclic graphs included, as long as Handle calls return.
Termination == <>(pc = "returned")

Delivered == IF processed > EventLimit THEN EventLimit ELSE processed

Phase == IF pc = "init" THEN "starting"
         ELSE IF pc # "returned" THEN "running"
         ELSE IF result = "ok" THEN "ok" ELSE "failed"

Promise == INSTANCE Delivery WITH
  Limit <- EventLimit, delivered <- Delivered, phase <- Phase

\* The queue, limit and error handling of Run implement the promise of
\* Delivery: exactly-once delivery in sending order, success only when
\* everything is delivered, and outputs only then.
KeepsPromise == Promise!Spec

------------------------------------------------------------------------------
(* What the repository's comments say and the code does not do.            *)

\* events/event.go:16-17, Port is "the named port on Source (when emitting) or
\* Target (when delivering) this event flows through": false for what another
\* component has emitted, which keeps the port it was emitted on, so that a
\* component cannot tell its inputs apart.
DeliveredPort ==
  pc = "handle" =>
    LET port == SplitEndpoint(current.event.target).port
    IN  port # NoPort => current.event.port = port

==============================================================================

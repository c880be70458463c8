--------------------------- MODULE SchedulerProofs ---------------------------
(***************************************************************************)
(* Safety of Scheduler for every set of components, every graph and every  *)
(* event limit.                                                            *)
(***************************************************************************)
EXTENDS Scheduler, SequenceTheorems, TLAPS

\* The endpoints a graph fans out to are always a sequence of endpoints.
LEMMA SuccessorsType ==
  \A e \in Endpoint : Successors(Edges, e) \in Seq(Endpoint)
BY SchedulerAssumption DEF Successors

\* Fanning one event out to a list of endpoints yields queue items.
LEMMA FanoutType ==
  ASSUME NEW targets \in Seq(Endpoint), NEW event \in Event
  PROVE  Fanout(targets, event) \in Seq(queueItem)
<1>. DEFINE item(i) == [endpoint |-> targets[i], event |-> event]
<1>1. \A i \in 1..Len(targets) : item(i) \in queueItem  BY DEF queueItem
<1>2. DOMAIN targets = 1..Len(targets)  OBVIOUS
<1>3. Fanout(targets, event) = [i \in 1..Len(targets) |-> item(i)]
  BY <1>2 DEF Fanout
<1>4. Fanout(targets, event) \in [1..Len(targets) -> queueItem]
  <2>. HIDE DEF item
  <2>. QED  BY <1>1, <1>3
<1>5. Len(targets) \in Nat  OBVIOUS
<1>. QED  BY <1>4, <1>5

\* The empty name is an endpoint like any other.
LEMMA NoNameType == NoName \in Endpoint
BY DEF NoName, Endpoint

LEMMA InputEventType == inputEvent \in Event
BY NoNameType, SchedulerAssumption DEF inputEvent, Event

\* Both halves of a split endpoint are names.
LEMMA SplitType ==
  ASSUME NEW e \in Endpoint
  PROVE  SplitEndpoint(e) \in [component : Endpoint, port : Segments]
<1>1. CASE Len(e) > 1
  <2>. e \in Seq(Segments)  BY DEF Endpoint
  <2>0. Len(e) \in Nat /\ \A i \in 1..Len(e) : e[i] \in Segments  OBVIOUS
  <2>1. SubSeq(e, 1, Len(e) - 1) \in Seq(Segments)
    BY <1>1, <2>0, SubSeqProperties
  <2>2. e[Len(e)] \in Segments  BY <1>1, <2>0
  <2>. QED  BY <1>1, <2>1, <2>2 DEF SplitEndpoint, Endpoint
<1>2. CASE ~(Len(e) > 1)
  BY <1>2, SchedulerAssumption DEF SplitEndpoint, Endpoint
<1>. QED  BY <1>1, <1>2

LEMMA AddressedType ==
  ASSUME NEW item \in queueItem
  PROVE  Addressed(item) \in Event
<1>1. item.endpoint \in Endpoint /\ item.event \in Event  BY DEF queueItem
<1>2. SplitEndpoint(item.endpoint).port \in Segments  BY <1>1, SplitType
<1>. QED  BY <1>1, <1>2 DEF Addressed, Event

LEMMA CarriedType ==
  ASSUME NEW cmd \in Command, current.component \in Endpoint
  PROVE  Carried(cmd) \in Event
BY SchedulerAssumption DEF Carried, Command, Event, Endpoint, NoName

LEMMA IdleType == Idle \in [component : Endpoint, event : Event]
BY InputEventType DEF Idle, Endpoint, NoName

\* Appending to both the queue and the log keeps them sequences of items.
LEMMA EnqueueType ==
  ASSUME TypeOK, NEW items \in Seq(queueItem), Enqueue(items)
  PROVE  queue' \in Seq(queueItem) /\ log' \in Seq(queueItem)
BY DEF Enqueue, TypeOK

LEMMA PopType ==
  ASSUME TypeOK, Pop
  PROVE  /\ queue' \in Seq(queueItem)
         /\ processed' \in Nat
         /\ Head(queue) \in queueItem
BY DEF Pop, TypeOK

------------------------------------------------------------------------------
LEMMA InitType == Init => TypeOK
BY InputEventType, IdleType DEF Init, TypeOK

LEMMA SeedQueueType == TypeOK /\ SeedQueue => TypeOK'
<1>. SUFFICES ASSUME TypeOK, SeedQueue PROVE TypeOK'
  OBVIOUS
<1>1. Input \in Endpoint  BY SchedulerAssumption DEF Input, Endpoint
<1>2. Fanout(Successors(Edges, Input), inputEvent) \in Seq(queueItem)
  BY <1>1, SuccessorsType, InputEventType, FanoutType
<1>3. queue' \in Seq(queueItem) /\ log' \in Seq(queueItem)
  BY <1>2, EnqueueType DEF SeedQueue
<1>. QED  BY <1>3 DEF SeedQueue, TypeOK

LEMMA DispatchType == TypeOK /\ Dispatch => TypeOK'
<1>. SUFFICES ASSUME TypeOK, Dispatch PROVE TypeOK'
  OBVIOUS
<1>1. /\ queue' \in Seq(queueItem)
      /\ processed' \in Nat
      /\ Head(queue) \in queueItem
  BY PopType DEF Dispatch
<1>2. Head(queue).endpoint \in Endpoint  BY <1>1 DEF queueItem
<1>3. current' \in [component : Endpoint, event : Event]
  BY <1>1, <1>2, AddressedType, SplitType DEF Dispatch
<1>. QED  BY <1>1, <1>3 DEF Dispatch, TypeOK

LEMMA EmitEventType == TypeOK /\ EmitEvent => TypeOK'
<1>. SUFFICES ASSUME TypeOK, EmitEvent PROVE TypeOK'
  OBVIOUS
<1>. DEFINE out == Carried(Head(commands))
<1>1. Head(commands) \in Command /\ Tail(commands) \in Seq(Command)
  BY DEF EmitEvent, TypeOK
<1>2. out \in Event  BY <1>1, CarriedType DEF TypeOK
<1>3. JoinEndpoint(out.source, out.port) \in Endpoint
  BY <1>2, AppendProperties DEF JoinEndpoint, Event, Endpoint
<1>. DEFINE items == Fanout(Successors(Edges, JoinEndpoint(out.source, out.port)), out)
<1>4. items \in Seq(queueItem)  BY <1>2, <1>3, SuccessorsType, FanoutType
<1>5. Enqueue(items)  BY DEF EmitEvent
<1>6. queue' \in Seq(queueItem) /\ log' \in Seq(queueItem)
  <2>. HIDE DEF items
  <2>. QED  BY <1>4, <1>5, EnqueueType
<1>. QED  BY <1>1, <1>6 DEF EmitEvent, TypeOK

LEMMA SetOutputType == TypeOK /\ SetOutput => TypeOK'
<1>. SUFFICES ASSUME TypeOK, SetOutput PROVE TypeOK'
  OBVIOUS
<1>. DEFINE items == Fanout(<<Output>>, Carried(Head(commands)))
<1>1. Head(commands) \in Command /\ Tail(commands) \in Seq(Command)
  BY DEF SetOutput, TypeOK
<1>2. Carried(Head(commands)) \in Event  BY <1>1, CarriedType DEF TypeOK
<1>3. <<Output>> \in Seq(Endpoint)
  <2>1. Output \in Endpoint  BY SchedulerAssumption DEF Output, Endpoint
  <2>. QED  BY <2>1
<1>4. items \in Seq(queueItem)  BY <1>2, <1>3, FanoutType
<1>5. Enqueue(items)  BY DEF SetOutput
<1>6. queue' \in Seq(queueItem) /\ log' \in Seq(queueItem)
  <2>. HIDE DEF items
  <2>. QED  BY <1>4, <1>5, EnqueueType
<1>. QED  BY <1>1, <1>6 DEF SetOutput, TypeOK

LEMMA PopEndsType ==
  TypeOK /\ (LimitExceeded \/ CollectOutput \/ UnknownComponent) => TypeOK'
<1>. SUFFICES ASSUME TypeOK, LimitExceeded \/ CollectOutput \/ UnknownComponent
              PROVE  TypeOK'
  OBVIOUS
<1>1. /\ queue' \in Seq(queueItem)
      /\ processed' \in Nat
      /\ Head(queue) \in queueItem
  BY PopType DEF LimitExceeded, CollectOutput, UnknownComponent
<1>2. CASE LimitExceeded  BY <1>1, <1>2 DEF LimitExceeded, Return, TypeOK
<1>3. CASE CollectOutput
  <2>1. Head(queue).event \in Event
    <3>. HIDE DEF Event, Endpoint
    <3>. QED  BY <1>1 DEF queueItem
  <2>2. outputs' \in Seq(Event)  BY <1>3, <2>1 DEF CollectOutput, TypeOK
  <2>. QED  BY <1>1, <1>3, <2>2 DEF CollectOutput, TypeOK
<1>4. CASE UnknownComponent  BY <1>1, <1>4 DEF UnknownComponent, Return, TypeOK
<1>. QED  BY <1>2, <1>3, <1>4

LEMMA NextType == TypeOK /\ [Next]_vars => TypeOK'
<1>. SUFFICES ASSUME TypeOK, [Next]_vars PROVE TypeOK'
  OBVIOUS
<1>1. ASSUME NEW c \in Managed, InitComponent(c) \/ InitFails(c) \/ ShutdownComponent(c)
      PROVE  TypeOK'
  BY <1>1 DEF InitComponent, InitFails, ShutdownComponent, TypeOK
<1>2. CASE SeedQueue  BY <1>2, SeedQueueType
<1>3. CASE Deliver  BY <1>3, PopEndsType, DispatchType DEF Deliver
<1>4. CASE HandleReturns
  <2>1. commands' \in Seq(Command)
    BY <1>4, SchedulerAssumption DEF HandleReturns, CommandLists
  <2>. QED  BY <1>4, <2>1 DEF HandleReturns, TypeOK
<1>5. CASE HandleFails  BY <1>5, IdleType DEF HandleFails, Return, TypeOK
<1>6. CASE Drained  BY <1>6 DEF Drained, Return, TypeOK
<1>7. CASE EmitEvent  BY <1>7, EmitEventType
<1>8. CASE SetOutput  BY <1>8, SetOutputType
<1>9. CASE UnsupportedCommand
  BY <1>9, IdleType DEF UnsupportedCommand, Return, TypeOK
<1>10. CASE CommandsApplied  BY <1>10, IdleType DEF CommandsApplied, TypeOK
<1>11. CASE ShutdownDone  BY <1>11 DEF ShutdownDone, TypeOK
<1>12. CASE UNCHANGED vars  BY <1>12 DEF vars, TypeOK
<1>. QED
  BY <1>1, <1>2, <1>3, <1>4, <1>5, <1>6, <1>7, <1>8, <1>9, <1>10, <1>11, <1>12
  DEF Next, Initialise, Handle, ApplyCommands, Shutdown

\* Every variable of Run keeps its type, for every graph and component set.
THEOREM TypeCorrect == Spec => []TypeOK
BY InitType, NextType, PTL DEF Spec

------------------------------------------------------------------------------
(***************************************************************************)
(* The inductive invariant.  Lifecycle alone is not inductive: that every  *)
(* managed component is down at the end rests on which of them the         *)
(* shutdown loop has visited, and that in turn on which of them            *)
(* initComponents had visited when the loop began.                         *)
(***************************************************************************)
LifeInv ==
  /\ pc = "init" =>
       /\ result = "none"
       /\ \A c \in Managed : life[c] = IF c \in todo THEN "new" ELSE "ready"
  /\ pc \in {"loop", "handle", "apply"} =>
       /\ result = "none"
       /\ \A c \in Managed : life[c] = "ready"
  /\ pc = "shutdown" =>
       /\ result \notin {"none", "initError"}
       /\ \A c \in Managed : life[c] = IF c \in todo THEN "ready" ELSE "down"
  /\ pc = "returned" =>
       /\ result # "none"
       /\ result # "initError" => \A c \in Managed : life[c] = "down"

BudgetInv == WithinBudget /\ Len(outputs) <= processed

QueueInv == processed <= Len(log) /\ QueueIsUndelivered

\* While an event is handled it has been counted; success leaves no queue.
PhaseInv ==
  /\ pc \in {"handle", "apply"} => processed \in 1..EventLimit
  /\ pc = "init" => outputs = <<>>
  /\ result = "ok" => pc \in {"shutdown", "returned"} /\ queue = <<>>

IInv == TypeOK /\ LifeInv /\ BudgetInv /\ QueueInv /\ PhaseInv

LEMMA EventLimitType == EventLimit \in Nat
BY SchedulerAssumption DEF EventLimit, defaultMaxEvents

LEMMA LifeInvInit == Init => LifeInv
BY DEF Init, LifeInv

LEMMA LifeInvNext == TypeOK /\ LifeInv /\ [Next]_vars => LifeInv'
<1>. SUFFICES ASSUME TypeOK, LifeInv, [Next]_vars PROVE LifeInv'
  OBVIOUS
<1>. USE DEF TypeOK, LifeInv
<1>1. ASSUME NEW c \in Managed, InitComponent(c)  PROVE LifeInv'
  BY <1>1 DEF InitComponent
<1>2. ASSUME NEW c \in Managed, InitFails(c)  PROVE LifeInv'
  BY <1>2 DEF InitFails
<1>3. ASSUME NEW c \in Managed, ShutdownComponent(c)  PROVE LifeInv'
  BY <1>3 DEF ShutdownComponent
<1>4. CASE SeedQueue  BY <1>4 DEF SeedQueue
<1>5. CASE Deliver
  BY <1>5 DEF Deliver, LimitExceeded, CollectOutput, UnknownComponent, Dispatch,
              Pop, Return
<1>6. CASE Handle  BY <1>6 DEF Handle, HandleReturns, HandleFails, Return
<1>7. CASE Drained  BY <1>7 DEF Drained, Return
<1>8. CASE ApplyCommands
  BY <1>8 DEF ApplyCommands, EmitEvent, SetOutput, UnsupportedCommand,
              CommandsApplied, Return
<1>9. CASE ShutdownDone  BY <1>9 DEF ShutdownDone
<1>10. CASE UNCHANGED vars  BY <1>10 DEF vars
<1>. QED
  BY <1>1, <1>2, <1>3, <1>4, <1>5, <1>6, <1>7, <1>8, <1>9, <1>10
  DEF Next, Initialise, Shutdown

------------------------------------------------------------------------------
LEMMA BudgetInvInit == Init => BudgetInv
BY EventLimitType DEF Init, BudgetInv, WithinBudget

\* Only the actions that pop the queue or touch the outputs can disturb it.
LEMMA BudgetInvNext == TypeOK /\ LifeInv /\ BudgetInv /\ [Next]_vars => BudgetInv'
<1>. SUFFICES ASSUME TypeOK, LifeInv, BudgetInv, [Next]_vars PROVE BudgetInv'
  OBVIOUS
<1>. USE EventLimitType DEF BudgetInv, WithinBudget
<1>0. processed \in Nat /\ outputs \in Seq(Event)  BY DEF TypeOK
<1>1. CASE LimitExceeded
  BY <1>0, <1>1 DEF LimitExceeded, Pop, WithinLimit, Return, LifeInv
<1>2. CASE CollectOutput
  <2>1. Head(queue).event \in Event
    <3>. HIDE DEF Event, Endpoint
    <3>1. Head(queue) \in queueItem  BY <1>2, PopType DEF CollectOutput
    <3>. QED  BY <3>1 DEF queueItem
  <2>2. Len(outputs') = Len(outputs) + 1
    BY <1>0, <1>2, <2>1 DEF CollectOutput
  <2>. QED  BY <1>0, <1>2, <2>2 DEF CollectOutput, Pop, WithinLimit
<1>3. CASE UnknownComponent \/ Dispatch
  BY <1>0, <1>3 DEF UnknownComponent, Dispatch, Pop, WithinLimit, Return
<1>4. CASE ShutdownDone
  BY <1>0, <1>4 DEF ShutdownDone
<1>5. ASSUME NEW c \in Managed, InitFails(c)  PROVE BudgetInv'
  BY <1>0, <1>5 DEF InitFails, LifeInv
<1>6. CASE HandleFails \/ Drained \/ UnsupportedCommand
  BY <1>0, <1>6 DEF HandleFails, Drained, UnsupportedCommand, Return, LifeInv
<1>7. ASSUME UNCHANGED <<processed, outputs, result>>  PROVE BudgetInv'
  BY <1>7
<1>8. ASSUME NEW c \in Managed, InitComponent(c) \/ ShutdownComponent(c)
      PROVE  BudgetInv'
  BY <1>7, <1>8 DEF InitComponent, ShutdownComponent
<1>9. CASE SeedQueue \/ HandleReturns \/ EmitEvent \/ SetOutput \/ CommandsApplied
  BY <1>7, <1>9 DEF SeedQueue, HandleReturns, EmitEvent, SetOutput, CommandsApplied
<1>10. CASE UNCHANGED vars  BY <1>7, <1>10 DEF vars
<1>. QED
  BY <1>1, <1>2, <1>3, <1>4, <1>5, <1>6, <1>8, <1>9, <1>10
  DEF Next, Initialise, Deliver, Handle, ApplyCommands, Shutdown

------------------------------------------------------------------------------
\* Taking the head of a suffix of the log leaves the next shorter suffix.
LEMMA PopSuffix ==
  ASSUME NEW S, NEW s \in Seq(S), NEW n \in Nat,
         SubSeq(s, n + 1, Len(s)) # <<>>
  PROVE  /\ n + 1 \in 1..Len(s)
         /\ Head(SubSeq(s, n + 1, Len(s))) = s[n + 1]
         /\ Tail(SubSeq(s, n + 1, Len(s))) = SubSeq(s, n + 2, Len(s))
<1>1. n + 1 \in 1..Len(s)  BY SubSeqEmpty
<1>2. Len(s) \in (n + 1)..Len(s)  BY <1>1
<1>. QED  BY <1>1, <1>2, HeadTailOfSubSeq

\* Appending to the log and to a suffix of it keeps the suffix a suffix.
LEMMA AppendSuffix ==
  ASSUME NEW S, NEW s \in Seq(S), NEW t \in Seq(S), NEW n \in 0..Len(s)
  PROVE  SubSeq(s \o t, n + 1, Len(s \o t)) = SubSeq(s, n + 1, Len(s)) \o t
<1>1. s \o t \in Seq(S) /\ Len(s \o t) = Len(s) + Len(t)  OBVIOUS
<1>. DEFINE l == SubSeq(s \o t, n + 1, Len(s \o t))
            r == SubSeq(s, n + 1, Len(s)) \o t
<1>2. l \in Seq(S) /\ Len(l) = Len(s) + Len(t) - n
      /\ \A i \in 1..Len(l) : l[i] = (s \o t)[n + i]
  BY <1>1, SubSeqProperties
<1>3. SubSeq(s, n + 1, Len(s)) \in Seq(S)
      /\ Len(SubSeq(s, n + 1, Len(s))) = Len(s) - n
      /\ \A i \in 1..(Len(s) - n) : SubSeq(s, n + 1, Len(s))[i] = s[n + i]
  BY SubSeqProperties
<1>4. r \in Seq(S) /\ Len(r) = Len(s) - n + Len(t)  BY <1>3
<1>5. ASSUME NEW i \in 1..Len(l)  PROVE l[i] = r[i]
  <2>1. CASE i <= Len(s) - n  BY <1>2, <1>3, <2>1
  <2>2. CASE i > Len(s) - n  BY <1>1, <1>2, <1>3, <2>2
  <2>3. i \in Int /\ Len(s) - n \in Int  BY <1>2
  <2>. HIDE DEF l, r
  <2>. QED  BY <2>1, <2>2, <2>3
<1>6. Len(l) = Len(r)  BY <1>2, <1>4
<1>. HIDE DEF l, r
<1>7. l = r  BY <1>2, <1>4, <1>5, <1>6, SeqEqual
<1>. QED  BY <1>7 DEF l, r
LEMMA QueueInvInit == Init => QueueInv
BY SubSeqEmpty DEF Init, QueueInv, QueueIsUndelivered

LEMMA QueueInvPop == TypeOK /\ QueueInv /\ Pop /\ log' = log => QueueInv'
<1>. SUFFICES ASSUME TypeOK, QueueInv, Pop, log' = log  PROVE QueueInv'
  OBVIOUS
<1>1. log \in Seq(queueItem) /\ processed \in Nat  BY DEF TypeOK
<1>2. SubSeq(log, processed + 1, Len(log)) # <<>>
  BY DEF Pop, QueueInv, QueueIsUndelivered
<1>3. processed + 1 \in 1..Len(log)
      /\ Tail(queue) = SubSeq(log, processed + 2, Len(log))
  BY <1>1, <1>2, PopSuffix DEF QueueInv, QueueIsUndelivered
<1>4. processed' + 1 = processed + 2  BY <1>1 DEF Pop
<1>. QED  BY <1>1, <1>3, <1>4 DEF Pop, QueueInv, QueueIsUndelivered

LEMMA QueueInvEnqueue ==
  ASSUME TypeOK, QueueInv, NEW items \in Seq(queueItem), Enqueue(items),
         processed' = processed
  PROVE  QueueInv' /\ Len(log) <= Len(log')
<1>1. log \in Seq(queueItem) /\ processed \in 0..Len(log)
  BY DEF TypeOK, QueueInv
<1>2. queue' = SubSeq(log', processed + 1, Len(log'))
  BY <1>1, AppendSuffix DEF Enqueue, QueueInv, QueueIsUndelivered
<1>3. Len(log') = Len(log) + Len(items)  BY <1>1 DEF Enqueue
<1>. QED  BY <1>1, <1>2, <1>3 DEF QueueInv, QueueIsUndelivered

\* Every action that sends appends well-typed items, and takes nothing off.
LEMMA Sends ==
  ASSUME TypeOK, SeedQueue \/ EmitEvent \/ SetOutput
  PROVE  \E items \in Seq(queueItem) : Enqueue(items) /\ processed' = processed
<1>1. CASE SeedQueue
  <2>1. Input \in Endpoint  BY SchedulerAssumption DEF Input, Endpoint
  <2>2. Fanout(Successors(Edges, Input), inputEvent) \in Seq(queueItem)
    BY <2>1, SuccessorsType, InputEventType, FanoutType
  <2>. QED  BY <1>1, <2>2 DEF SeedQueue
<1>2. CASE EmitEvent
  <2>. DEFINE out == Carried(Head(commands))
              items == Fanout(Successors(Edges, JoinEndpoint(out.source, out.port)), out)
  <2>1. Head(commands) \in Command  BY <1>2 DEF EmitEvent, TypeOK
  <2>2. out \in Event  BY <2>1, CarriedType DEF TypeOK
  <2>3. JoinEndpoint(out.source, out.port) \in Endpoint
    BY <2>2, AppendProperties DEF JoinEndpoint, Event, Endpoint
  <2>4. items \in Seq(queueItem)  BY <2>2, <2>3, SuccessorsType, FanoutType
  <2>5. Enqueue(items) /\ processed' = processed  BY <1>2 DEF EmitEvent
  <2>. HIDE DEF items
  <2>. QED  BY <2>4, <2>5
<1>3. CASE SetOutput
  <2>. DEFINE items == Fanout(<<Output>>, Carried(Head(commands)))
  <2>1. Head(commands) \in Command  BY <1>3 DEF SetOutput, TypeOK
  <2>2. Carried(Head(commands)) \in Event  BY <2>1, CarriedType DEF TypeOK
  <2>3. Output \in Endpoint  BY SchedulerAssumption DEF Output, Endpoint
  <2>4. <<Output>> \in Seq(Endpoint)  BY <2>3
  <2>5. items \in Seq(queueItem)  BY <2>2, <2>4, FanoutType
  <2>6. Enqueue(items) /\ processed' = processed  BY <1>3 DEF SetOutput
  <2>. HIDE DEF items
  <2>. QED  BY <2>5, <2>6
<1>. QED  BY <1>1, <1>2, <1>3

LEMMA QueueInvNext == TypeOK /\ QueueInv /\ [Next]_vars => QueueInv'
<1>. SUFFICES ASSUME TypeOK, QueueInv, [Next]_vars PROVE QueueInv'
  OBVIOUS
<1>1. CASE SeedQueue \/ EmitEvent \/ SetOutput
  <2>1. PICK items \in Seq(queueItem) : Enqueue(items) /\ processed' = processed
    BY <1>1, Sends
  <2>. QED  BY <2>1, QueueInvEnqueue
<1>2. CASE Deliver
  BY <1>2, QueueInvPop
  DEF Deliver, LimitExceeded, CollectOutput, UnknownComponent, Dispatch
<1>3. ASSUME UNCHANGED <<queue, processed, log>>  PROVE QueueInv'
  BY <1>3 DEF QueueInv, QueueIsUndelivered
<1>4. ASSUME NEW c \in Managed,
             InitComponent(c) \/ InitFails(c) \/ ShutdownComponent(c)
      PROVE  QueueInv'
  BY <1>3, <1>4 DEF InitComponent, InitFails, ShutdownComponent
<1>5. CASE Drained \/ Handle \/ UnsupportedCommand \/ CommandsApplied \/ ShutdownDone
  BY <1>3, <1>5 DEF Drained, Handle, HandleReturns, HandleFails,
                    UnsupportedCommand, CommandsApplied, ShutdownDone
<1>6. CASE UNCHANGED vars  BY <1>3, <1>6 DEF vars
<1>. QED
  BY <1>1, <1>2, <1>4, <1>5, <1>6 DEF Next, Initialise, ApplyCommands, Shutdown

------------------------------------------------------------------------------
LEMMA PhaseInvInit == Init => PhaseInv
BY DEF Init, PhaseInv

LEMMA PhaseInvNext == TypeOK /\ LifeInv /\ PhaseInv /\ [Next]_vars => PhaseInv'
<1>. SUFFICES ASSUME TypeOK, LifeInv, PhaseInv, [Next]_vars PROVE PhaseInv'
  OBVIOUS
<1>. USE EventLimitType DEF PhaseInv
<1>0. processed \in Nat  BY DEF TypeOK
<1>1. ASSUME NEW c \in Managed,
             InitComponent(c) \/ InitFails(c) \/ ShutdownComponent(c)
      PROVE  PhaseInv'
  BY <1>1 DEF InitComponent, InitFails, ShutdownComponent
<1>2. CASE SeedQueue \/ EmitEvent \/ SetOutput
  <2>1. result # "ok"
    BY <1>2 DEF SeedQueue, EmitEvent, SetOutput
  <2>2. /\ UNCHANGED <<processed, result>>
        /\ pc' = "loop" \/ (pc' = "apply" /\ pc = "apply")
    BY <1>2 DEF SeedQueue, EmitEvent, SetOutput
  <2>3. EventLimit' = EventLimit  BY DEF EventLimit
  <2>. QED  BY <2>1, <2>2, <2>3
<1>3. CASE Dispatch
  BY <1>0, <1>3 DEF Dispatch, Pop, WithinLimit
<1>4. CASE LimitExceeded \/ CollectOutput \/ UnknownComponent
  BY <1>4 DEF LimitExceeded, CollectOutput, UnknownComponent, Pop, Return
<1>5. CASE Handle
  BY <1>5 DEF Handle, HandleReturns, HandleFails, Return
<1>6. CASE Drained  BY <1>6 DEF Drained, Return
<1>7. CASE UnsupportedCommand \/ CommandsApplied
  BY <1>7 DEF UnsupportedCommand, CommandsApplied, Return
<1>8. CASE ShutdownDone  BY <1>8 DEF ShutdownDone
<1>9. CASE UNCHANGED vars  BY <1>9 DEF vars
<1>. QED
  BY <1>1, <1>2, <1>3, <1>4, <1>5, <1>6, <1>7, <1>8, <1>9
  DEF Next, Initialise, Deliver, ApplyCommands, Shutdown

------------------------------------------------------------------------------
LEMMA IInvInit == Init => IInv
BY InitType, LifeInvInit, BudgetInvInit, QueueInvInit, PhaseInvInit DEF IInv

LEMMA IInvNext == IInv /\ [Next]_vars => IInv'
BY NextType, LifeInvNext, BudgetInvNext, QueueInvNext, PhaseInvNext DEF IInv

LEMMA Invariance == Spec => []IInv
BY IInvInit, IInvNext, PTL DEF Spec

\* Components handle events only between Init and Shutdown, and every one of
\* them is down when a run that started returns (the deferred
\* shutdownComponents of Run).
THEOREM LifecycleHolds == Spec => []Lifecycle
<1>1. IInv => Lifecycle  BY DEF IInv, TypeOK, LifeInv, Lifecycle
<1>. QED  BY <1>1, Invariance, PTL

\* No run delivers more than EventLimit events, on any graph, cyclic or not.
THEOREM WithinBudgetHolds == Spec => []WithinBudget
<1>1. IInv => WithinBudget  BY DEF IInv, BudgetInv
<1>. QED  BY <1>1, Invariance, PTL

\* The queue never loses, duplicates or reorders what was sent.
THEOREM QueueIsUndeliveredHolds == Spec => []QueueIsUndelivered
<1>1. IInv => QueueIsUndelivered  BY DEF IInv, QueueInv
<1>. QED  BY <1>1, Invariance, PTL
------------------------------------------------------------------------------
(***************************************************************************)
(* The outputs.  Until Run returns, and unless it was cut off at the       *)
(* limit, what it has collected are the outputs among the items it has     *)
(* taken off the queue; OutputsComplete speaks of the end only.            *)
(***************************************************************************)
CollectInv ==
  pc # "returned" /\ processed <= EventLimit => OutputsAreThoseOf(processed)

\* What is sent later does not change what was sent first.
LEMMA LaterSends ==
  ASSUME NEW n \in Nat, \A k \in 1..n : log'[k] = log[k], outputs' = outputs,
         OutputsAreThoseOf(n)
  PROVE  OutputsAreThoseOf(n)'
<1>1. ForOutput(n)' = ForOutput(n)  BY DEF ForOutput
<1>2. PICK at \in [DOMAIN outputs -> ForOutput(n)] :
        /\ \A i \in DOMAIN outputs : outputs[i] = log[at[i]].event
        /\ \A i, j \in DOMAIN outputs : i < j => at[i] < at[j]
        /\ \A k \in ForOutput(n) : \E i \in DOMAIN outputs : at[i] = k
  BY DEF OutputsAreThoseOf
<1>3. \A i \in DOMAIN outputs : log'[at[i]] = log[at[i]]
  BY <1>2 DEF ForOutput
<1>. QED  BY <1>1, <1>2, <1>3 DEF OutputsAreThoseOf

\* An item that is not for the output leaves the outputs as they are ...
LEMMA OthersDelivered ==
  ASSUME NEW n \in Nat, log[n + 1].endpoint # Output, OutputsAreThoseOf(n)
  PROVE  OutputsAreThoseOf(n + 1)
<1>1. ForOutput(n) = ForOutput(n + 1)
  <2>1. \A k : k \in 1..(n + 1) <=> k \in 1..n \/ k = n + 1  OBVIOUS
  <2>. QED  BY <2>1 DEF ForOutput
<1>. QED  BY <1>1 DEF OutputsAreThoseOf

\* ... and one that is for it comes after all that were before.
LEMMA OutputDelivered ==
  ASSUME NEW n \in Nat, log[n + 1].endpoint = Output, outputs \in Seq(Event),
         log[n + 1].event \in Event, log' = log,
         outputs' = Append(outputs, log[n + 1].event),
         OutputsAreThoseOf(n)
  PROVE  OutputsAreThoseOf(n + 1)'
<1>. DEFINE len  == Len(outputs)
<1>1. PICK at \in [DOMAIN outputs -> ForOutput(n)] :
        /\ \A i \in DOMAIN outputs : outputs[i] = log[at[i]].event
        /\ \A i, j \in DOMAIN outputs : i < j => at[i] < at[j]
        /\ \A k \in ForOutput(n) : \E i \in DOMAIN outputs : at[i] = k
  BY DEF OutputsAreThoseOf
<1>2. /\ len \in Nat /\ DOMAIN outputs = 1..len /\ DOMAIN outputs' = 1..(len + 1)
      /\ \A i \in 1..len : outputs'[i] = outputs[i]
      /\ outputs'[len + 1] = log[n + 1].event
  <2>. HIDE DEF Event
  <2>1. outputs' \in Seq(Event) /\ Len(outputs') = len + 1  BY AppendProperties
  <2>. QED  BY <2>1, AppendProperties
<1>3. ForOutput(n + 1) = ForOutput(n) \cup {n + 1}
  <2>1. \A k : k \in 1..(n + 1) <=> k \in 1..n \/ k = n + 1  OBVIOUS
  <2>. QED  BY <2>1 DEF ForOutput
<1>4. ForOutput(n + 1)' = ForOutput(n + 1)  BY DEF ForOutput
<1>. DEFINE next == [i \in 1..(len + 1) |-> IF i \in 1..len THEN at[i] ELSE n + 1]
<1>. HIDE DEF len
<1>5. next \in [1..(len + 1) -> ForOutput(n + 1)]  BY <1>1, <1>2, <1>3
<1>6. /\ \A i \in 1..len : next[i] = at[i] /\ at[i] \in ForOutput(n) /\ at[i] \in 1..n
      /\ next[len + 1] = n + 1
  BY <1>1, <1>2 DEF ForOutput
<1>7. \A i \in 1..(len + 1) : i \in 1..len \/ i = len + 1  BY <1>2
<1>. HIDE DEF next
<1>8. \A i \in 1..(len + 1) : outputs'[i] = log'[next[i]].event
  <2>1. ASSUME NEW i \in 1..len  PROVE outputs'[i] = log'[next[i]].event
    <3>1. outputs'[i] = outputs[i]  BY <1>2
    <3>2. outputs[i] = log[at[i]].event  BY <1>1, <1>2
    <3>. QED  BY <1>6, <3>1, <3>2
  <2>. QED  BY <1>2, <1>6, <1>7, <2>1
<1>9. \A i, j \in 1..(len + 1) : i < j => next[i] < next[j]
  <2>1. ASSUME NEW i \in 1..len, NEW j \in 1..len, i < j  PROVE next[i] < next[j]
    BY <1>1, <1>2, <1>6, <2>1
  <2>2. ASSUME NEW i \in 1..len  PROVE next[i] < next[len + 1]
    BY <1>6
  <2>. QED  BY <1>2, <1>7, <2>1, <2>2
<1>10. \A k \in ForOutput(n + 1) : \E i \in 1..(len + 1) : next[i] = k
  <2>1. ASSUME NEW k \in ForOutput(n)  PROVE \E i \in 1..(len + 1) : next[i] = k
    <3>1. PICK i \in 1..len : at[i] = k  BY <1>1, <1>2
    <3>2. i \in 1..(len + 1)  BY <1>2
    <3>3. next[i] = k  BY <1>6, <3>1
    <3>. QED  BY ONLY <3>2, <3>3
  <2>2. len + 1 \in 1..(len + 1) /\ next[len + 1] = n + 1  BY <1>2, <1>6
  <2>3. \E i \in 1..(len + 1) : next[i] = n + 1  BY ONLY <2>2
  <2>. HIDE DEF ForOutput
  <2>. QED  BY <1>3, <2>1, <2>3
<1>11. DOMAIN outputs' = 1..(len + 1)  BY <1>2
<1>. HIDE DEF ForOutput
<1>12. next \in [DOMAIN outputs' -> ForOutput(n + 1)']  BY <1>4, <1>5, <1>11
<1>13. /\ \A i \in DOMAIN outputs' : outputs'[i] = log'[next[i]].event
       /\ \A i, j \in DOMAIN outputs' : i < j => next[i] < next[j]
       /\ \A k \in ForOutput(n + 1)' : \E i \in DOMAIN outputs' : next[i] = k
  BY <1>4, <1>8, <1>9, <1>10, <1>11, Zenon
<1>. QED  BY ONLY <1>12, <1>13, Zenon DEF OutputsAreThoseOf

LEMMA CollectInit == Init => CollectInv
<1>. SUFFICES ASSUME Init PROVE OutputsAreThoseOf(0)
  BY DEF Init, CollectInv
<1>1. ForOutput(0) = {} /\ DOMAIN outputs = {}  BY DEF Init, ForOutput
<1>. DEFINE at == [i \in {} |-> 0]
<1>2. at \in [{} -> {}]  OBVIOUS
<1>. QED  BY <1>1, <1>2 DEF OutputsAreThoseOf

LEMMA CollectNext == IInv /\ CollectInv /\ [Next]_vars => CollectInv'
<1>. SUFFICES ASSUME IInv, CollectInv, [Next]_vars, pc' # "returned",
                     processed' <= EventLimit
              PROVE  OutputsAreThoseOf(processed)'
  BY DEF CollectInv, EventLimit
<1>0. /\ processed \in Nat /\ log \in Seq(queueItem) /\ processed <= Len(log)
      /\ outputs \in Seq(Event)
  BY DEF IInv, TypeOK, QueueInv
<1>. PICK n \in Nat : n = processed  BY <1>0
<1>1. CASE SeedQueue \/ EmitEvent \/ SetOutput
  <2>1. PICK items \in Seq(queueItem) : Enqueue(items) /\ processed' = processed
    BY <1>1, Sends DEF IInv
  <2>2. \A k \in 1..n : log'[k] = log[k]
    BY <1>0, <2>1, ConcatProperties DEF Enqueue
  <2>3. pc # "returned" /\ outputs' = outputs
    BY <1>1 DEF SeedQueue, EmitEvent, SetOutput
  <2>4. OutputsAreThoseOf(n)  BY <2>1, <2>3 DEF CollectInv, EventLimit
  <2>5. OutputsAreThoseOf(n)'  BY <2>2, <2>3, <2>4, LaterSends
  <2>. QED  BY <2>1, <2>5
<1>2. ASSUME Pop
      PROVE  /\ processed' = n + 1
             /\ Head(queue) = log[n + 1]
             /\ log[n + 1] \in queueItem
             /\ pc # "returned" => OutputsAreThoseOf(n)
  <2>1. SubSeq(log, processed + 1, Len(log)) # <<>>
    BY <1>2 DEF IInv, QueueInv, QueueIsUndelivered, Pop
  <2>2. processed + 1 \in 1..Len(log) /\ Head(queue) = log[processed + 1]
    BY <1>0, <2>1, PopSuffix DEF IInv, QueueInv, QueueIsUndelivered
  <2>3. processed <= EventLimit
    BY <1>0, <1>2, EventLimitType DEF Pop
  <2>. QED  BY <1>0, <1>2, <2>2, <2>3 DEF Pop, CollectInv
<1>3. CASE CollectOutput
  <2>1. Pop /\ pc # "returned"  BY <1>3 DEF CollectOutput, Pop
  <2>2. log[n + 1].endpoint = Output /\ log[n + 1].event \in Event
    <3>. HIDE DEF Event, Endpoint
    <3>. QED  BY <1>2, <1>3, <2>1 DEF CollectOutput, queueItem
  <2>3. log' = log /\ outputs' = Append(outputs, log[n + 1].event)
    BY <1>2, <1>3, <2>1 DEF CollectOutput
  <2>4. OutputsAreThoseOf(n + 1)'
    BY <1>0, <1>2, <2>1, <2>2, <2>3, OutputDelivered
  <2>. QED  BY <1>2, <2>1, <2>4
<1>4. CASE UnknownComponent \/ Dispatch
  <2>1. Pop /\ pc # "returned" /\ UNCHANGED <<log, outputs>>
    BY <1>4 DEF UnknownComponent, Dispatch, Pop
  <2>2. OutputsAreThoseOf(n + 1)
    BY <1>0, <1>2, <1>4, <2>1, OthersDelivered DEF UnknownComponent, Dispatch
  <2>3. OutputsAreThoseOf(n + 1)'  BY <2>1, <2>2 DEF OutputsAreThoseOf, ForOutput
  <2>. QED  BY <1>2, <2>1, <2>3
<1>5. CASE LimitExceeded
  BY <1>5 DEF LimitExceeded, WithinLimit, EventLimit
<1>6. ASSUME pc # "returned", UNCHANGED <<processed, log, outputs>>
      PROVE  OutputsAreThoseOf(processed)'
  <2>1. OutputsAreThoseOf(processed)  BY <1>6 DEF CollectInv, EventLimit
  <2>. QED  BY <1>6, <2>1 DEF OutputsAreThoseOf, ForOutput
<1>7. ASSUME NEW c \in Managed,
             InitComponent(c) \/ InitFails(c) \/ ShutdownComponent(c)
      PROVE  OutputsAreThoseOf(processed)'
  BY <1>6, <1>7 DEF InitComponent, InitFails, ShutdownComponent
<1>8. CASE Drained \/ Handle \/ UnsupportedCommand \/ CommandsApplied
  BY <1>6, <1>8 DEF Drained, Handle, HandleReturns, HandleFails,
                    UnsupportedCommand, CommandsApplied
<1>9. CASE ShutdownDone  BY <1>9 DEF ShutdownDone
<1>10. CASE UNCHANGED vars  BY <1>6, <1>10 DEF vars
<1>. QED
  BY <1>1, <1>3, <1>4, <1>5, <1>7, <1>8, <1>9, <1>10
  DEF Next, Initialise, Deliver, ApplyCommands, Shutdown

LEMMA OutputsCompleteNext ==
  IInv /\ CollectInv /\ OutputsComplete /\ [Next]_vars => OutputsComplete'
<1>. SUFFICES ASSUME IInv, CollectInv, OutputsComplete, [Next]_vars,
                     pc' = "returned"
              PROVE  IF result' = "ok" THEN OutputsAreThoseOf(Len(log))' ELSE outputs' = <<>>
  BY DEF OutputsComplete
<1>1. ASSUME NEW c \in Managed, InitFails(c)  PROVE result' # "ok" /\ outputs' = <<>>
  BY <1>1 DEF InitFails, IInv, PhaseInv
<1>2. CASE ShutdownDone /\ result = "ok"
  <2>1. processed \in Nat /\ log \in Seq(queueItem) /\ processed <= Len(log)
    BY DEF IInv, TypeOK, QueueInv
  <2>2. SubSeq(log, processed + 1, Len(log)) = <<>>
    BY <1>2 DEF IInv, PhaseInv, QueueInv, QueueIsUndelivered
  <2>3. Len(SubSeq(log, processed + 1, Len(log)))
          = IF processed + 1 <= Len(log) THEN Len(log) - (processed + 1) + 1 ELSE 0
    BY <2>1, SubSeqProperties
  <2>4. processed = Len(log)  BY <2>1, <2>2, <2>3
  <2>5. processed <= EventLimit
    BY <1>2, <2>1, EventLimitType DEF IInv, BudgetInv, WithinBudget
  <2>6. OutputsAreThoseOf(Len(log))
    BY <1>2, <2>4, <2>5 DEF CollectInv, ShutdownDone
  <2>7. UNCHANGED <<log, outputs, result>>  BY <1>2 DEF ShutdownDone
  <2>. QED  BY <1>2, <2>6, <2>7 DEF OutputsAreThoseOf, ForOutput
<1>3. CASE ShutdownDone /\ result # "ok"
  BY <1>3 DEF ShutdownDone
<1>4. CASE UNCHANGED vars
  BY <1>4 DEF vars, OutputsComplete, OutputsAreThoseOf, ForOutput
<1>5. ASSUME NEW c \in Managed, InitComponent(c) \/ ShutdownComponent(c)
      PROVE  FALSE
  BY <1>5 DEF InitComponent, ShutdownComponent
<1>6. CASE SeedQueue \/ Deliver \/ Drained \/ Handle \/ ApplyCommands
  BY <1>6 DEF SeedQueue, Deliver, LimitExceeded, CollectOutput, UnknownComponent,
     Dispatch, Pop, Drained, Handle, HandleReturns, HandleFails, ApplyCommands,
     EmitEvent, SetOutput, UnsupportedCommand, CommandsApplied, Return
<1>. QED  BY <1>1, <1>2, <1>3, <1>4, <1>5, <1>6 DEF Next, Initialise, Shutdown

\* A successful run returns every event addressed to "output", once and in the
\* order of sending, for every graph, set of components and event limit; a
\* run that fails returns none.
THEOREM OutputsCompleteHolds == Spec => []OutputsComplete
<1>1. Init => OutputsComplete  BY DEF Init, OutputsComplete
<1>. QED
  BY <1>1, IInvInit, IInvNext, CollectInit, CollectNext, OutputsCompleteNext, PTL
  DEF Spec

------------------------------------------------------------------------------
(***************************************************************************)
(* Run implements Delivery.  An item taken off the queue within the limit  *)
(* is the abstract Deliver, appending to the queue is Begin or Send,       *)
(* returning is Succeed or Fail; the rest of Run is invisible.             *)
(***************************************************************************)
LEMMA GrownLog ==
  ASSUME NEW S, NEW s \in Seq(S), NEW t \in Seq(S)
  PROVE  Len(s \o t) >= Len(s) /\ SubSeq(s \o t, 1, Len(s)) = s
<1>1. s \o t \in Seq(S) /\ Len(s \o t) = Len(s) + Len(t)  OBVIOUS
<1>2. /\ SubSeq(s \o t, 1, Len(s)) \in Seq(S)
      /\ Len(SubSeq(s \o t, 1, Len(s))) = Len(s)
      /\ \A i \in 1..Len(s) : SubSeq(s \o t, 1, Len(s))[i] = s[i]
  BY <1>1, SubSeqProperties
<1>. QED  BY <1>1, <1>2, SeqEqual

LEMMA PromiseInit == Init => Promise!Init
BY EventLimitType DEF Init, Promise!Init, Delivered, Phase

LEMMA SendsImplement ==
  ASSUME IInv, SeedQueue \/ EmitEvent \/ SetOutput
  PROVE  Promise!LogGrows
<1>1. PICK items \in Seq(queueItem) : Enqueue(items)
  BY Sends DEF IInv
<1>. QED  BY <1>1, GrownLog DEF Enqueue, Promise!LogGrows, IInv, TypeOK

LEMMA PopImplements ==
  ASSUME IInv, CollectOutput \/ UnknownComponent \/ Dispatch
  PROVE  Promise!Deliver
<1>1. log \in Seq(queueItem) /\ processed \in Nat  BY DEF IInv, TypeOK
<1>2. SubSeq(log, processed + 1, Len(log)) # <<>>
  BY DEF IInv, QueueInv, QueueIsUndelivered, CollectOutput, UnknownComponent,
         Dispatch, Pop
<1>3. processed + 1 \in 1..Len(log) /\ Head(queue) = log[processed + 1]
  BY <1>1, <1>2, PopSuffix DEF IInv, QueueInv, QueueIsUndelivered
<1>4. processed' = processed + 1 /\ processed' <= EventLimit
  BY DEF CollectOutput, UnknownComponent, Dispatch, Pop, WithinLimit
<1>5. Delivered = processed /\ Delivered' = processed + 1 /\ Delivered < EventLimit
  BY <1>1, <1>4, EventLimitType DEF Delivered, EventLimit
<1>6. Phase = "running" /\ Phase' = "running"
  BY DEF Phase, CollectOutput, UnknownComponent, Dispatch, Pop, Return
<1>7. outputs' = IF log[processed + 1].endpoint = Output
                   THEN Append(outputs, log[processed + 1].event) ELSE outputs
  BY <1>3 DEF CollectOutput, UnknownComponent, Dispatch
<1>8. log' = log  BY DEF CollectOutput, UnknownComponent, Dispatch
<1>. QED  BY <1>1, <1>3, <1>5, <1>6, <1>7, <1>8 DEF Promise!Deliver, Promise!Output, Output

LEMMA PromiseNext == IInv /\ [Next]_vars => [Promise!Next]_(Promise!vars)
<1>. SUFFICES ASSUME IInv, [Next]_vars PROVE [Promise!Next]_(Promise!vars)
  OBVIOUS
<1>0. processed \in Nat /\ log \in Seq(queueItem) /\ processed <= Len(log)
  BY DEF IInv, TypeOK, QueueInv
<1>1. CASE SeedQueue
  <2>1. Phase = "starting" /\ Phase' = "running"  BY <1>1 DEF SeedQueue, Phase
  <2>2. UNCHANGED <<Delivered, outputs>>  BY <1>1 DEF SeedQueue, Delivered, EventLimit
  <2>3. Promise!LogGrows  BY <1>1, SendsImplement
  <2>. QED  BY <2>1, <2>2, <2>3 DEF Promise!Next, Promise!Begin
<1>2. CASE EmitEvent \/ SetOutput
  <2>1. Phase = "running" /\ Phase' = "running"  BY <1>2 DEF EmitEvent, SetOutput, Phase
  <2>2. UNCHANGED <<Delivered, outputs>>
    BY <1>2 DEF EmitEvent, SetOutput, Delivered, EventLimit
  <2>3. Promise!LogGrows  BY <1>2, SendsImplement
  <2>4. Delivered > 0
    BY <1>2, EventLimitType DEF Delivered, EmitEvent, SetOutput, IInv, PhaseInv
  <2>. QED  BY <2>1, <2>2, <2>3, <2>4 DEF Promise!Next, Promise!Send
<1>3. CASE CollectOutput \/ UnknownComponent \/ Dispatch
  BY <1>3, PopImplements DEF Promise!Next
<1>4. CASE LimitExceeded
  <2>1. processed = EventLimit /\ processed' = EventLimit + 1
    BY <1>0, <1>4, EventLimitType
    DEF LimitExceeded, Pop, WithinLimit, IInv, LifeInv, BudgetInv, WithinBudget
  <2>2. EventLimit' = EventLimit  BY DEF EventLimit
  <2>3. Delivered' = Delivered  BY <2>1, <2>2, EventLimitType DEF Delivered
  <2>4. Phase' = Phase  BY <1>4 DEF LimitExceeded, Pop, Return, Phase
  <2>5. UNCHANGED <<log, outputs>>  BY <1>4 DEF LimitExceeded
  <2>. QED  BY <2>3, <2>4, <2>5 DEF Promise!vars
<1>5. ASSUME NEW c \in Managed, InitFails(c)  PROVE Promise!Fail
  <2>1. Phase = "starting" /\ Phase' = "failed"  BY <1>5 DEF InitFails, Phase
  <2>2. outputs' = <<>>
    BY <1>5 DEF InitFails, IInv, PhaseInv
  <2>3. UNCHANGED <<log, Delivered>>  BY <1>5 DEF InitFails, Delivered, EventLimit
  <2>. QED  BY <2>1, <2>2, <2>3 DEF Promise!Fail
<1>6. CASE ShutdownDone
  <2>1. UNCHANGED <<log, Delivered>>  BY <1>6 DEF ShutdownDone, Delivered, EventLimit
  <2>2. CASE result = "ok"
    <3>1. SubSeq(log, processed + 1, Len(log)) = <<>>
      BY <2>2 DEF IInv, PhaseInv, QueueInv, QueueIsUndelivered
    <3>2. processed = Len(log)
      <4>1. Len(SubSeq(log, processed + 1, Len(log)))
              = IF processed + 1 <= Len(log) THEN Len(log) - (processed + 1) + 1 ELSE 0
        BY <1>0, SubSeqProperties
      <4>. QED  BY <1>0, <3>1, <4>1
    <3>3. Delivered = Len(log)
      BY <1>0, <2>2, <3>2, EventLimitType DEF Delivered, IInv, BudgetInv, WithinBudget
    <3>4. Phase = "running" /\ Phase' = "ok"  BY <1>6, <2>2 DEF ShutdownDone, Phase
    <3>5. outputs' = outputs  BY <1>6, <2>2 DEF ShutdownDone
    <3>. QED  BY <2>1, <3>3, <3>4, <3>5 DEF Promise!Next, Promise!Succeed
  <2>3. CASE result # "ok"
    <3>1. Phase = "running" /\ Phase' = "failed" /\ outputs' = <<>>
      BY <1>6, <2>3 DEF ShutdownDone, Phase
    <3>. QED  BY <2>1, <3>1 DEF Promise!Next, Promise!Fail
  <2>. QED  BY <2>2, <2>3
<1>7. ASSUME UNCHANGED <<log, processed, outputs>>, Phase' = Phase
      PROVE  UNCHANGED Promise!vars
  BY <1>7 DEF Promise!vars, Delivered, EventLimit
<1>8. ASSUME NEW c \in Managed, InitComponent(c) \/ ShutdownComponent(c)
      PROVE  UNCHANGED Promise!vars
  BY <1>7, <1>8 DEF InitComponent, ShutdownComponent, Phase
<1>9. CASE Drained \/ Handle \/ UnsupportedCommand \/ CommandsApplied
  BY <1>7, <1>9 DEF Drained, Handle, HandleReturns, HandleFails,
                    UnsupportedCommand, CommandsApplied, Return, Phase
<1>10. CASE UNCHANGED vars  BY <1>7, <1>10 DEF vars, Phase
<1>. QED
  BY <1>1, <1>2, <1>3, <1>4, <1>5, <1>6, <1>8, <1>9, <1>10
  DEF Next, Initialise, Deliver, ApplyCommands, Shutdown, Promise!Next

\* Run keeps the promise of Delivery for every graph, component set and event
\* limit: exactly-once delivery in sending order, and success only when
\* nothing is left undelivered.
THEOREM KeepsPromiseHolds == Spec => KeepsPromise
BY PromiseInit, PromiseNext, Invariance, PTL DEF Spec, KeepsPromise, Promise!Spec

==============================================================================

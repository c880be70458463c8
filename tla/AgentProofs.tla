----------------------------- MODULE AgentProofs -----------------------------
(***************************************************************************)
(* Proofs about module Agent, for any number of processes, agents, turns   *)
(* and faults: what a conversation looks like when the model is asked, and *)
(* what the history of a session holds.                                    *)
(***************************************************************************)
EXTENDS Agent, SequenceTheorems, TLAPS

------------------------------------------------------------------------------
(* Types. *)

Busy == {"model", "tools", "save", "write", "emit"}

\* Before the turn is saved.
Unsaved == {"model", "tools", "save", "write"}

Owners ==
  {Nobody} \cup ((Procs \cup {"file"}) \X (Sessions \cup {NoSession})
                   \X Seq(STRING) \X Seq(STRING))

Call == [id : Ids, name : STRING]

HandleType ==
  [agent : Agents \cup {NoAgent}, turn : 0..MaxTurns, history : Seq(Message),
   messages : Seq(Message), request : Seq(Call),
   answered : Nat, round : 0..MaxToolIterations]

TypeInv ==
  /\ pc \in [Procs -> {"off", "idle"} \cup Busy]
  /\ run \in [Procs -> [session : Sessions \cup {NoSession}, architecture : Seq(STRING)]]
  /\ handle \in [Procs -> HandleType]
  /\ store \in [Slots -> Seq(Message)]
  /\ readable \subseteq Slots
  /\ faults \in 0..MaxFaults
  /\ owner \in Seq(Owners) /\ Len(owner) <= MaxTurns
  /\ emitted \in [Slots -> Seq(Turns)]
  /\ failed \subseteq Turns
  /\ torn \subseteq Slots /\ overlapped \subseteq Slots

\* Where a process is, and what it then has.
Placed(p) ==
  /\ pc[p] = "off" => run[p] = NoRun
  /\ pc[p] # "off" => run[p].session \in Sessions
  /\ pc[p] \notin Busy => handle[p] = NoHandle
  /\ pc[p] \in Busy => handle[p].agent \in Agents /\ handle[p].turn \in 1..Len(owner)
  /\ handle[p].answered <= Len(handle[p].request)
  /\ pc[p] = "tools" =>
       handle[p].round < MaxToolIterations /\ handle[p].agent.tools # {}
  /\ DOMAIN handle[p].request \subseteq UNION {DOMAIN calls : calls \in Requests}
  /\ pc[p] = "write" => InFile(p)

HandleInv == \A p \in Procs : Placed(p)

\* The ways a run ends.
Quits(p) ==
  \/ EndRun(p) \/ \E a \in MyAgents(p) : LoadFails(p, a)
  \/ ModelFails(p) \/ IterationsExceeded(p)
  \/ SaveFails(p) \/ WriteFails(p) \/ Killed(p)

LEMMA SlotType ==
  ASSUME TypeInv, NEW p \in Procs, NEW a \in Agents, a.memory,
         run[p].session \in Sessions
  PROVE  Slot(p, a) \in Slots
<1>1. a \in Remembering
  BY DEF Remembering
<1>2. CASE run[p].session = NoSession
  BY <1>1, <1>2 DEF Slot, Key, Slots
<1>3. CASE run[p].session # NoSession
  BY <1>1, <1>3 DEF Slot, Key, Slots
<1> QED BY <1>2, <1>3

LEMMA OwnerType ==
  ASSUME TypeInv, NEW p \in Procs, NEW a \in Agents
  PROVE  Owner(p, a) \in Owners
<1>1. a.architecture \in Seq(STRING) /\ a.component \in Seq(STRING)
  BY AgentAssumption DEF Agent
<1>2. run[p].session \in Sessions \cup {NoSession}
  BY DEF TypeInv
<1> QED BY <1>1, <1>2 DEF Owner, Owners

LEMMA PlainType ==
  ASSUME NEW role \in {"user", "assistant", "tool"}, NEW n \in Turns
  PROVE  Plain(role, n) \in Message
<1>1. NoId \in Ids
  BY DEF Ids
<1> QED BY <1>1 DEF Plain, Message

\* A call is a call of some request, its id kept or taken away.
LEMMA CallsType ==
  ASSUME NEW provider, NEW request \in Requests
  PROVE  /\ fromMessage(provider, request) \in Seq(Call)
         /\ DOMAIN fromMessage(provider, request) = DOMAIN request
         /\ Len(fromMessage(provider, request)) = Len(request)
         /\ Len(request) \in Nat \ {0} /\ DOMAIN request = 1..Len(request)
<1>1. /\ request \in Seq([id : Seq(STRING), name : STRING]) /\ request # <<>>
  BY AgentAssumption
<1>2. Len(request) \in Nat \ {0} /\ DOMAIN request = 1..Len(request)
  BY <1>1, LenProperties, EmptySeq
<1>3. \A j \in DOMAIN request : request[j].id \in Ids
  BY DEF Ids
<1>4. NoId \in Ids
  BY DEF Ids
<1>5. ASSUME NEW j \in 1..Len(request)
      PROVE  /\ request[j] \in Call
             /\ [request[j] EXCEPT !.id = NoId] \in Call
  <2>1. request[j] \in [id : Seq(STRING), name : STRING]
    BY <1>1, <1>2, ElementOfSeq
  <2>2. request[j].id \in Ids
    BY <1>2, <1>3
  <2> QED BY <2>1, <2>2, <1>4 DEF Call
<1>6. request \in [1..Len(request) -> Call]
  BY <1>1, <1>2, <1>5, LenProperties
<1>7. WithoutIds(request) \in [1..Len(request) -> Call]
  BY <1>2, <1>5 DEF WithoutIds
<1>8. \A f \in [1..Len(request) -> Call] :
        f \in Seq(Call) /\ Len(f) = Len(request) /\ DOMAIN f = DOMAIN request
  BY <1>2
<1>9. fromMessage(provider, request) \in [1..Len(request) -> Call]
  BY <1>6, <1>7 DEF fromMessage
<1> QED BY <1>2, <1>8, <1>9

LEMMA ResultType ==
  ASSUME NEW h \in HandleType, h.turn \in Turns, h.answered < Len(h.request),
         DOMAIN h.request \subseteq UNION {DOMAIN calls : calls \in Requests}
  PROVE  /\ ToolResult(h) \in Message
         /\ ToolResult(h).role = "tool" /\ ToolResult(h).calls = <<>>
         /\ ToolResult(h).id # NoId
         /\ NextCall(h).id \in {NoId, ToolResult(h).id}
<1>1. /\ h.request \in Seq(Call) /\ h.answered \in Nat
      /\ h.round \in 0..MaxToolIterations
  BY DEF HandleType
<1>2. h.answered + 1 \in DOMAIN h.request
  BY <1>1
<1>3. NextCall(h) \in Call
  BY <1>1, <1>2 DEF NextCall
<1>4. GeneratedId(h.round, h.answered + 1) \in Ids
  BY <1>1, <1>2 DEF Ids
<1>5. GeneratedId(h.round, h.answered + 1) # NoId
  BY DEF GeneratedId, NoId
<1>6. Plain("tool", h.turn) \in Message
  BY PlainType
<1>7. ToolResult(h).id = IF NextCall(h).id = NoId
                           THEN GeneratedId(h.round, h.answered + 1) ELSE NextCall(h).id
  BY DEF ToolResult, Plain
<1> QED BY <1>3, <1>4, <1>5, <1>6, <1>7 DEF ToolResult, Message, Plain, Call

LEMMA UpdatedType ==
  ASSUME NEW h \in HandleType, h.turn \in Turns
  PROVE  /\ Question(h.turn) \in Seq(Message) /\ NewTurn(h) \in Seq(Message)
         /\ Updated(h) \in Seq(Message)
<1>1. Plain("user", h.turn) \in Message /\ Plain("assistant", h.turn) \in Message
  BY PlainType
<1>2. Question(h.turn) \in Seq(Message)
  BY <1>1 DEF Question
<1>3. NewTurn(h) \in Seq(Message)
  BY <1>1, <1>2 DEF NewTurn
<1> QED BY <1>2, <1>3 DEF Updated, HandleType

LEMMA ExitType ==
  ASSUME TypeInv, NEW p \in Procs, Exit(p)
  PROVE  /\ pc' \in [Procs -> {"off", "idle"} \cup Busy]
         /\ run' \in [Procs -> [session : Sessions \cup {NoSession},
                                architecture : Seq(STRING)]]
         /\ handle' \in [Procs -> HandleType]
         /\ emitted' \in [Slots -> Seq(Turns)]
<1>1. NoRun \in [session : Sessions \cup {NoSession}, architecture : Seq(STRING)]
  BY DEF NoRun
<1>2. NoHandle \in HandleType
  BY AgentAssumption DEF NoHandle, HandleType
<1>3. pc \in [Procs -> {"off", "idle"} \cup Busy] /\ emitted \in [Slots -> Seq(Turns)]
  BY DEF TypeInv
<1> QED BY <1>1, <1>2, <1>3 DEF TypeInv, Exit, Goto

LEMMA DisownedType ==
  ASSUME TypeInv, NEW p
  PROVE  /\ Disowned(p) \in Seq(Owners) /\ Len(Disowned(p)) = Len(owner)
         /\ \A i \in 1..Len(owner) :
              Disowned(p)[i] = IF owner[i][1] = p THEN Nobody ELSE owner[i]
<1>1. owner \in Seq(Owners) /\ Len(owner) \in Nat /\ DOMAIN owner = 1..Len(owner)
  BY DEF TypeInv
<1>2. Nobody \in Owners
  BY DEF Owners
<1>3. \A i \in 1..Len(owner) : owner[i] \in Owners
  BY <1>1
<1>4. Disowned(p) \in [1..Len(owner) -> Owners]
  BY <1>1, <1>2, <1>3 DEF Disowned
<1> QED BY <1>1, <1>4 DEF Disowned

LEMMA StoreWithoutType ==
  ASSUME TypeInv, NEW p
  PROVE  StoreWithout(p) \in [Slots -> Seq(Message)]
  BY DEF TypeInv, StoreWithout

\* What the ways a run ends have in common, and where they differ.
LEMMA Left ==
  ASSUME TypeInv, HandleInv, NEW p \in Procs, Quits(p)
  PROVE  /\ pc[p] # "off" /\ Exit(p)
         /\ readable' \subseteq readable /\ faults' \in 0..MaxFaults
         /\ overlapped' = overlapped
         /\ \/ /\ owner' = Disowned(p)
               /\ \/ failed' = failed
                  \/ pc[p] \in Unsaved /\ failed' = failed \cup {handle[p].turn}
            \/ /\ pc[p] = "idle" /\ Len(owner) < MaxTurns
               /\ \E a \in Agents : owner' = Append(owner, Owner(p, a))
               /\ failed' = failed \cup {Len(owner) + 1}
         /\ \/ pc[p] # "write" /\ torn' = torn
            \/ pc[p] = "write" /\ torn' = torn \cup {Mine(p)}
         /\ \/ store' = StoreWithout(p)
            \/ InFile(p) /\ pc[p] = "save" /\ store' = store
            \/ /\ pc[p] = "write"
               /\ \E n \in 0..Len(Updated(handle[p])) :
                    store' = [store EXCEPT ![Mine(p)] = SubSeq(Updated(handle[p]), 1, n)]
<1> USE DEF Unsaved
<1>0. faults \in 0..MaxFaults /\ MaxFaults \in Nat /\ owner \in Seq(Owners)
  BY AgentAssumption DEF TypeInv
<1>1. CASE EndRun(p)
  BY <1>0, <1>1 DEF EndRun
<1>2. CASE \E a \in MyAgents(p) : LoadFails(p, a)
  <2> PICK a \in MyAgents(p) : LoadFails(p, a)
    BY <1>2
  <2>1. owner' = Append(owner, Owner(p, a)) /\ a \in Agents
    BY DEF LoadFails, MyAgents
  <2>2. Len(owner') = Len(owner) + 1
    BY <1>0, <2>1
  <2>3. faults' \in 0..MaxFaults
    BY <1>0 DEF LoadFails, Fault
  <2> QED BY <1>0, <2>1, <2>2, <2>3 DEF LoadFails
<1>3. CASE ModelFails(p)
  BY <1>0, <1>3 DEF ModelFails, Fail, Fault
<1>4. CASE IterationsExceeded(p)
  BY <1>0, <1>4 DEF IterationsExceeded, Fail
<1>5. CASE SaveFails(p)
  BY <1>0, <1>5 DEF SaveFails, Fail, Fault, storeVars
<1>6. CASE WriteFails(p)
  <2>1. /\ pc[p] = "write" /\ Fault /\ Fail(p) /\ torn' = torn \cup {Mine(p)}
        /\ readable' \in {readable, readable \ {Mine(p)}} /\ overlapped' = overlapped
    BY <1>6 DEF WriteFails
  <2>2. \E n \in 0..Len(Updated(handle[p])) :
          store' = [store EXCEPT ![Mine(p)] = SubSeq(Updated(handle[p]), 1, n)]
    BY <1>6 DEF WriteFails
  <2>3. faults' \in 0..MaxFaults
    BY <1>0, <2>1 DEF Fault
  <2> QED BY <2>1, <2>2, <2>3 DEF Fail
<1>7. CASE Killed(p)
  BY <1>0, <1>7 DEF Killed, Fault
<1> QED BY <1>1, <1>2, <1>3, <1>4, <1>5, <1>6, <1>7 DEF Quits

\* The places that matter of a process that is in its file or map.
LEMMA MineType ==
  ASSUME TypeInv, HandleInv, NEW p \in Procs, pc[p] \in Busy, handle[p].agent.memory
  PROVE  Mine(p) \in Slots
<1>1. handle[p].agent \in Agents /\ run[p].session \in Sessions
  BY DEF HandleInv, Placed, Busy
<1> QED BY <1>1, SlotType DEF Mine

LEMMA HandleTyped ==
  ASSUME TypeInv, HandleInv, NEW p \in Procs, pc[p] \in Busy
  PROVE  /\ handle[p] \in HandleType /\ handle[p].turn \in Turns
         /\ handle[p].turn \in 1..Len(owner) /\ Len(owner) <= MaxTurns
         /\ handle[p].agent \in Agents /\ run[p].session \in Sessions
         /\ Len(owner) \in Nat
<1>1. owner \in Seq(Owners) /\ Len(owner) <= MaxTurns /\ MaxTurns \in Nat
  BY AgentAssumption DEF TypeInv
<1>2. Len(owner) \in Nat
  BY <1>1
<1> QED BY <1>1, <1>2 DEF TypeInv, HandleInv, Placed, Busy, Turns

LEMMA QuitsTypes ==
  ASSUME TypeInv, HandleInv, NEW p \in Procs, Quits(p)
  PROVE  TypeInv' /\ Len(owner') >= Len(owner)
<1> USE Left
<1>0. /\ owner \in Seq(Owners) /\ Len(owner) \in Nat /\ Len(owner) <= MaxTurns
      /\ MaxTurns \in Nat
  BY AgentAssumption DEF TypeInv
<1>1. owner' \in Seq(Owners) /\ Len(owner') <= MaxTurns /\ Len(owner') >= Len(owner)
  <2>1. CASE owner' = Disowned(p)
    BY <1>0, <2>1, DisownedType
  <2>2. ASSUME NEW a \in Agents, owner' = Append(owner, Owner(p, a)), Len(owner) < MaxTurns
        PROVE  owner' \in Seq(Owners) /\ Len(owner') <= MaxTurns /\ Len(owner') >= Len(owner)
    BY <1>0, <2>2, OwnerType
  <2> QED BY <2>1, <2>2
<1>2. failed' \subseteq Turns
  <2>1. pc[p] \in Unsaved => handle[p].turn \in Turns
    BY HandleTyped DEF Busy, Unsaved
  <2>2. Len(owner) < MaxTurns => Len(owner) + 1 \in Turns
    BY <1>0 DEF Turns
  <2>3. failed \subseteq Turns
    BY DEF TypeInv
  <2> QED BY <2>1, <2>2, <2>3
<1>3. pc[p] = "write" => Mine(p) \in Slots
  BY MineType DEF HandleInv, Placed, InFile, Busy
<1>4. torn' \subseteq Slots
  BY <1>3 DEF TypeInv
<1>5. store' \in [Slots -> Seq(Message)]
  <2>1. store \in [Slots -> Seq(Message)]
    BY DEF TypeInv
  <2>2. ASSUME pc[p] = "write", NEW n \in 0..Len(Updated(handle[p]))
        PROVE  SubSeq(Updated(handle[p]), 1, n) \in Seq(Message)
    <3>1. Updated(handle[p]) \in Seq(Message)
      BY <2>2, HandleTyped, UpdatedType DEF Busy
    <3> QED BY <2>2, <3>1, SubSeqProperties
  <2>3. CASE store' = StoreWithout(p)
    BY <2>3, StoreWithoutType
  <2>4. CASE store' = store
    BY <2>1, <2>4
  <2>5. ASSUME pc[p] = "write", NEW n \in 0..Len(Updated(handle[p])),
               store' = [store EXCEPT ![Mine(p)] = SubSeq(Updated(handle[p]), 1, n)]
        PROVE  store' \in [Slots -> Seq(Message)]
    <3>1. SubSeq(Updated(handle[p]), 1, n) \in Seq(Message)
      BY <2>2, <2>5
    <3> QED BY <2>1, <2>5, <3>1
  <2> QED BY <2>3, <2>4, <2>5
<1>6. readable' \subseteq Slots /\ overlapped' \subseteq Slots
  BY DEF TypeInv
<1>7. /\ pc' \in [Procs -> {"off", "idle"} \cup Busy]
      /\ run' \in [Procs -> [session : Sessions \cup {NoSession}, architecture : Seq(STRING)]]
      /\ handle' \in [Procs -> HandleType]
      /\ emitted' \in [Slots -> Seq(Turns)]
  BY ExitType
<1> QED BY <1>1, <1>2, <1>4, <1>5, <1>6, <1>7 DEF TypeInv

LEMMA PlacedKept ==
  ASSUME NEW q \in Procs, Placed(q), Len(owner) \in Nat,
         pc'[q] = pc[q], run'[q] = run[q], handle'[q] = handle[q],
         Len(owner') \in Nat, Len(owner') >= Len(owner)
  PROVE  Placed(q)'
  BY DEF Placed, InFile

LEMMA QuitsPlaced ==
  ASSUME TypeInv, HandleInv, NEW p \in Procs, Quits(p)
  PROVE  HandleInv'
<1>1. /\ pc' = [pc EXCEPT ![p] = "off"] /\ run' = [run EXCEPT ![p] = NoRun]
      /\ handle' = [handle EXCEPT ![p] = NoHandle]
  BY Left DEF Exit, Goto
<1>2. /\ pc \in [Procs -> {"off", "idle"} \cup Busy] /\ DOMAIN run = Procs
      /\ DOMAIN handle = Procs /\ Len(owner) \in Nat
  BY DEF TypeInv
<1>3. Len(owner') \in Nat /\ Len(owner') >= Len(owner)
  <2>1. TypeInv' /\ Len(owner') >= Len(owner)
    BY QuitsTypes
  <2>2. owner' \in Seq(Owners')
    BY <2>1 DEF TypeInv
  <2> QED BY <2>1, <2>2, LenProperties
<1> SUFFICES ASSUME NEW q \in Procs PROVE Placed(q)'
  BY DEF HandleInv
<1>4. CASE q = p
  <2>1. pc'[q] = "off" /\ run'[q] = NoRun /\ handle'[q] = NoHandle
    BY <1>1, <1>2, <1>4
  <2> QED BY <2>1 DEF Placed, NoHandle, Busy
<1>5. CASE q # p
  BY <1>1, <1>2, <1>3, <1>5, PlacedKept DEF HandleInv
<1> QED BY <1>4, <1>5

\* A step that only moves p on and may change its locals.
LEMMA MovesPlaced ==
  ASSUME TypeInv, HandleInv, NEW p \in Procs,
         NEW where \in Busy, pc' = [pc EXCEPT ![p] = where], UNCHANGED <<run, owner>>,
         NEW h \in HandleType, handle' = [handle EXCEPT ![p] = h],
         run[p].session \in Sessions, h.agent \in Agents, h.turn \in 1..Len(owner),
         h.answered <= Len(h.request),
         where = "tools" => h.round < MaxToolIterations /\ h.agent.tools # {},
         DOMAIN h.request \subseteq UNION {DOMAIN calls : calls \in Requests},
         where = "write" => h.agent.memory /\ run[p].session # NoSession
  PROVE  /\ HandleInv' /\ handle' \in [Procs -> HandleType]
         /\ pc' \in [Procs -> {"off", "idle"} \cup Busy]
<1>1. /\ pc \in [Procs -> {"off", "idle"} \cup Busy] /\ DOMAIN run = Procs
      /\ handle \in [Procs -> HandleType] /\ Len(owner) \in Nat
  BY DEF TypeInv
<1>2. /\ handle' \in [Procs -> HandleType]
      /\ pc' \in [Procs -> {"off", "idle"} \cup Busy]
  BY <1>1
<1>3. ASSUME NEW q \in Procs PROVE Placed(q)'
  <2>1. CASE q = p
    <3>1. pc'[q] = where /\ handle'[q] = h /\ run'[q] = run[p] /\ owner' = owner
      BY <1>1, <2>1
    <3>2. where # "off"
      BY DEF Busy
    <3> QED BY <3>1, <3>2, <2>1 DEF Placed, InFile
  <2>2. CASE q # p
    BY <1>1, <2>2, PlacedKept DEF HandleInv
  <2> QED BY <2>1, <2>2
<1> QED BY <1>2, <1>3 DEF HandleInv

\* What each change of the locals comes to.
LEMMA Asked ==
  ASSUME TypeInv, HandleInv, NEW p \in Procs, ModelAsksForTools(p)
  PROVE  \E h \in HandleType, calls \in Seq(Call), m \in Message :
           /\ handle' = [handle EXCEPT ![p] = h]
           /\ h.agent = handle[p].agent /\ h.turn = handle[p].turn
           /\ h.round = handle[p].round /\ h.history = handle[p].history
           /\ h.request = calls /\ h.answered = 0
           /\ h.messages = Append(handle[p].messages, m)
           /\ m.role = "assistant" /\ m.calls = calls
           /\ \E request \in Requests : DOMAIN calls = DOMAIN request
<1>1. pc[p] \in Busy
  BY DEF ModelAsksForTools, Busy
<1>2. handle \in [Procs -> HandleType] /\ handle[p] \in HandleType /\ handle[p].turn \in Turns
  BY <1>1, HandleTyped DEF TypeInv
<1>3. PICK request \in Requests :
        handle' = [handle EXCEPT
           ![p].request = fromMessage(Provider(p), request), ![p].answered = 0,
           ![p].messages = Append(@, [Plain("assistant", handle[p].turn)
                              EXCEPT !.calls = fromMessage(Provider(p), request)])]
  BY DEF ModelAsksForTools
<1>4. PICK calls \in Seq(Call) :
        calls = fromMessage(Provider(p), request) /\ DOMAIN calls = DOMAIN request
  BY CallsType
<1>5. [Plain("assistant", handle[p].turn) EXCEPT !.calls = calls]
        = [role |-> "assistant", turn |-> handle[p].turn, calls |-> calls, id |-> NoId]
  BY DEF Plain
<1>6. PICK m \in Message :
        /\ m = [role |-> "assistant", turn |-> handle[p].turn, calls |-> calls, id |-> NoId]
        /\ m.role = "assistant" /\ m.calls = calls
  <2>1. calls \in Seq([id : Ids, name : STRING]) /\ NoId \in Ids
    BY <1>4 DEF Call, Ids
  <2>2. [role |-> "assistant", turn |-> handle[p].turn, calls |-> calls, id |-> NoId]
          \in Message
    BY <1>2, <2>1 DEF Message
  <2> QED BY <2>2
<1>7. PICK said \in Seq(Message) : said = Append(handle[p].messages, m)
  <2>1. handle[p].messages \in Seq(Message)
    BY <1>2 DEF HandleType
  <2> QED BY <2>1, AppendProperties
<1>8. handle' = [handle EXCEPT ![p].request = calls, ![p].answered = 0,
                               ![p].messages = said]
  BY <1>2, <1>3, <1>4, <1>5, <1>6, <1>7
<1> DEFINE h == [handle[p] EXCEPT !.request = calls, !.answered = 0, !.messages = said]
<1>9. handle' = [handle EXCEPT ![p] = h]
  BY <1>2, <1>8
<1>10. /\ h \in HandleType /\ h.agent = handle[p].agent /\ h.turn = handle[p].turn
       /\ h.round = handle[p].round /\ h.history = handle[p].history
       /\ h.request = calls /\ h.answered = 0 /\ h.messages = said
  BY <1>2 DEF HandleType
<1> HIDE DEF h
<1> QED BY <1>4, <1>6, <1>7, <1>9, <1>10

LEMMA ToolRun ==
  ASSUME TypeInv, HandleInv, NEW p \in Procs, RunTool(p)
  PROVE  \E h \in HandleType, m \in Message :
           /\ handle' = [handle EXCEPT ![p] = h]
           /\ h.agent = handle[p].agent /\ h.turn = handle[p].turn
           /\ h.round = handle[p].round /\ h.history = handle[p].history
           /\ h.request = handle[p].request /\ h.answered = handle[p].answered + 1
           /\ h.messages = Append(handle[p].messages, m)
           /\ m.role = "tool" /\ m.calls = <<>> /\ m.id # NoId
           /\ NextCall(handle[p]).id \in {NoId, m.id}
<1>1. /\ pc[p] = "tools" /\ handle[p].answered < Len(handle[p].request)
      /\ handle' = [handle EXCEPT ![p].answered = @ + 1,
                                  ![p].messages = Append(@, ToolResult(handle[p]))]
  BY DEF RunTool, MoreCalls
<1>2. /\ handle \in [Procs -> HandleType] /\ handle[p] \in HandleType
      /\ handle[p].turn \in Turns
  BY <1>1, HandleTyped DEF TypeInv, Busy
<1>3. PICK m \in Message :
        /\ m = ToolResult(handle[p])
        /\ m.role = "tool" /\ m.calls = <<>> /\ m.id # NoId
        /\ NextCall(handle[p]).id \in {NoId, m.id}
  BY <1>1, <1>2, ResultType DEF HandleInv, Placed
<1>4. PICK n \in Nat : n = handle[p].answered + 1
  BY <1>2 DEF HandleType
<1>5. PICK said \in Seq(Message) : said = Append(handle[p].messages, m)
  <2>1. handle[p].messages \in Seq(Message)
    BY <1>2 DEF HandleType
  <2> QED BY <2>1, AppendProperties
<1>6. handle' = [handle EXCEPT ![p].answered = n, ![p].messages = said]
  BY <1>1, <1>2, <1>3, <1>4, <1>5
<1> DEFINE h == [handle[p] EXCEPT !.answered = n, !.messages = said]
<1>7. handle' = [handle EXCEPT ![p] = h]
  BY <1>2, <1>6
<1>8. /\ h \in HandleType /\ h.agent = handle[p].agent /\ h.turn = handle[p].turn
      /\ h.round = handle[p].round /\ h.history = handle[p].history
      /\ h.request = handle[p].request /\ h.answered = n /\ h.messages = said
  BY <1>2 DEF HandleType
<1> HIDE DEF h
<1> QED BY <1>3, <1>4, <1>5, <1>7, <1>8

LEMMA RoundOver ==
  ASSUME TypeInv, HandleInv, NEW p \in Procs, NextRound(p)
  PROVE  \E h \in HandleType :
           /\ handle' = [handle EXCEPT ![p] = h]
           /\ h.agent = handle[p].agent /\ h.turn = handle[p].turn
           /\ h.history = handle[p].history /\ h.messages = handle[p].messages
           /\ h.request = <<>> /\ h.answered = 0
<1>1. /\ pc[p] = "tools"
      /\ handle' = [handle EXCEPT ![p].round = @ + 1, ![p].request = <<>>,
                                  ![p].answered = 0]
  BY DEF NextRound
<1>2. handle \in [Procs -> HandleType] /\ handle[p] \in HandleType
  BY <1>1, HandleTyped DEF TypeInv, Busy
<1>3. PICK r \in 0..MaxToolIterations : r = handle[p].round + 1
  BY AgentAssumption, <1>1, <1>2 DEF HandleInv, Placed, HandleType
<1>4. handle' = [handle EXCEPT ![p].round = r, ![p].request = <<>>, ![p].answered = 0]
  BY <1>1, <1>3
<1> DEFINE h == [handle[p] EXCEPT !.round = r, !.request = <<>>, !.answered = 0]
<1>5. handle' = [handle EXCEPT ![p] = h]
  BY <1>2, <1>4
<1>6. /\ h \in HandleType /\ h.agent = handle[p].agent /\ h.turn = handle[p].turn
      /\ h.history = handle[p].history /\ h.messages = handle[p].messages
      /\ h.request = <<>> /\ h.answered = 0
  <2>1. <<>> \in Seq(Call)
    OBVIOUS
  <2> QED BY <1>2, <2>1 DEF HandleType
<1> HIDE DEF h
<1> QED BY <1>5, <1>6

\* The locals at the start of a Handle call.
LEMMA Begun ==
  ASSUME TypeInv, HandleInv, NEW p \in Procs, NEW a \in MyAgents(p), Handle(p, a)
  PROVE  /\ pc[p] = "idle" /\ pc' = [pc EXCEPT ![p] = "model"] /\ Len(owner) < MaxTurns
         /\ owner' = Append(owner, Owner(p, a)) /\ Len(owner) + 1 \in Turns
         /\ UNCHANGED <<run, storeVars, faults, emitted, failed, torn>>
         /\ a \in Agents /\ run[p].session \in Sessions
         /\ \E h \in HandleType :
              /\ handle' = [handle EXCEPT ![p] = h]
              /\ h.agent = a /\ h.turn = Len(owner) + 1
              /\ h.history = Loaded(p, a)
              /\ h.messages = Loaded(p, a) \o Question(Len(owner) + 1)
              /\ h.request = <<>> /\ h.answered = 0 /\ h.round = 0
<1> DEFINE turn == Len(owner) + 1
           said == Loaded(p, a) \o Question(turn)
           h == [agent |-> a, turn |-> turn, history |-> Loaded(p, a), messages |-> said,
                 request |-> <<>>, answered |-> 0, round |-> 0]
<1>0. Len(owner) \in Nat /\ MaxTurns \in Nat /\ MaxToolIterations \in Nat
  BY AgentAssumption, LenProperties DEF TypeInv
<1>1. /\ pc[p] = "idle" /\ pc' = [pc EXCEPT ![p] = "model"] /\ Len(owner) < MaxTurns
      /\ owner' = Append(owner, Owner(p, a))
      /\ UNCHANGED <<run, storeVars, faults, emitted, failed, torn>>
  BY DEF Handle, Goto
<1>2. a \in Agents /\ run[p].session \in Sessions
  BY <1>1 DEF MyAgents, HandleInv, Placed
<1>3. Loaded(p, a) \in Seq(Message)
  BY <1>2, SlotType DEF Loaded, TypeInv
<1>4. turn \in Turns /\ turn \in 0..MaxTurns
  BY <1>0, <1>1 DEF Turns
<1> HIDE DEF turn
<1>5. Plain("user", turn) \in Message
  BY <1>4, PlainType
<1>6. Question(turn) \in Seq(Message)
  BY <1>5 DEF Question
<1>7. said \in Seq(Message)
  BY <1>3, <1>6
<1> HIDE DEF said
<1>8. handle' = [handle EXCEPT ![p] = h]
  <2>1. handle' = [handle EXCEPT ![p] =
          [NoHandle EXCEPT !.agent = a, !.turn = turn, !.history = Loaded(p, a),
                           !.messages = said]]
    BY DEF Handle, turn, said
  <2>2. PICK g : g = NoHandle
    OBVIOUS
  <2>3. PICK new : new = [g EXCEPT !.agent = a, !.turn = turn, !.history = Loaded(p, a),
                                   !.messages = said]
    OBVIOUS
  <2>4. new = h
    BY <2>2, <2>3 DEF NoHandle
  <2> HIDE DEF h
  <2> QED BY <2>1, <2>2, <2>3, <2>4
<1> HIDE DEF h
<1>9. /\ h \in HandleType /\ h.agent = a /\ h.turn = turn /\ h.history = Loaded(p, a)
      /\ h.messages = said /\ h.request = <<>> /\ h.answered = 0 /\ h.round = 0
  BY <1>0, <1>2, <1>3, <1>4, <1>7 DEF HandleType, h
<1> QED BY <1>1, <1>2, <1>4, <1>8, <1>9 DEF turn, said

LEMMA RunTypes ==
  ASSUME TypeInv, HandleInv, NEW p \in Procs,
         StartRun(p) \/ \E a \in MyAgents(p) : Handle(p, a)
  PROVE  TypeInv' /\ HandleInv'
<1>0. /\ pc \in [Procs -> {"off", "idle"} \cup Busy] /\ handle \in [Procs -> HandleType]
      /\ run \in [Procs -> [session : Sessions \cup {NoSession}, architecture : Seq(STRING)]]
      /\ owner \in Seq(Owners) /\ Len(owner) \in Nat /\ Len(owner) <= MaxTurns
      /\ MaxTurns \in Nat
  BY AgentAssumption DEF TypeInv
<1>1. CASE StartRun(p)
  <2>1. PICK s \in Sessions, a \in Agents :
          run' = [run EXCEPT ![p] = [session |-> s, architecture |-> a.architecture]]
    BY <1>1 DEF StartRun
  <2>2. /\ pc' = [pc EXCEPT ![p] = "idle"] /\ pc[p] = "off"
        /\ UNCHANGED <<handle, storeVars, faults, historyVars>>
    BY <1>1 DEF StartRun, Goto
  <2>3. a.architecture \in Seq(STRING)
    BY AgentAssumption DEF Agent
  <2>4. TypeInv'
    BY <1>0, <2>1, <2>2, <2>3 DEF TypeInv, storeVars, historyVars
  <2>5. ASSUME NEW q \in Procs PROVE Placed(q)'
    <3>1. handle' = handle /\ owner' = owner
      BY <2>2 DEF historyVars
    <3>2. CASE q = p
      <4>1. pc'[q] = "idle" /\ run'[q].session = s
        BY <1>0, <2>1, <2>2, <3>2
      <4>2. handle[q] = NoHandle /\ Placed(q)
        BY <2>2, <3>2 DEF HandleInv, Placed, Busy
      <4> QED BY <2>1, <3>1, <4>1, <4>2 DEF Placed, Busy
    <3>3. CASE q # p
      BY <1>0, <2>1, <2>2, <3>1, <3>3, PlacedKept DEF HandleInv
    <3> QED BY <3>2, <3>3
  <2> QED BY <2>4, <2>5 DEF HandleInv
<1>2. ASSUME NEW a \in MyAgents(p), Handle(p, a)
      PROVE  TypeInv' /\ HandleInv'
  <2> DEFINE turn == Len(owner) + 1
  <2>1. /\ pc[p] = "idle" /\ pc' = [pc EXCEPT ![p] = "model"] /\ Len(owner) < MaxTurns
        /\ owner' = Append(owner, Owner(p, a))
        /\ overlapped' \in {overlapped, overlapped \cup {Slot(p, a)}}
        /\ UNCHANGED <<run, storeVars, faults, emitted, failed, torn>>
    BY <1>2, Begun DEF Handle
  <2>2. a \in Agents /\ run[p].session \in Sessions
    BY <1>2, Begun
  <2>7. PICK h \in HandleType :
          /\ handle' = [handle EXCEPT ![p] = h]
          /\ h.agent = a /\ h.turn = turn /\ h.request = <<>> /\ h.answered = 0
    BY <1>2, Begun
  <2>8. /\ owner' \in Seq(Owners) /\ Len(owner') = turn
    BY <1>0, <2>1, <2>2, OwnerType
  <2>9. overlapped' \subseteq Slots
    <3>1. a.memory => Slot(p, a) \in Slots
      BY <2>2, SlotType
    <3>2. overlapped' # overlapped => a.memory
      BY <1>2 DEF Handle
    <3> QED BY <2>1, <3>1, <3>2 DEF TypeInv
  <2>10. TypeInv'
    BY <1>0, <2>1, <2>7, <2>8, <2>9 DEF TypeInv, storeVars, Busy
  <2>11. ASSUME NEW q \in Procs PROVE Placed(q)'
    <3>1. CASE q = p
      <4>1. pc'[q] = "model" /\ handle'[q] = h /\ run'[q] = run[p]
        BY <1>0, <2>1, <2>7, <3>1
      <4>2. turn \in 1..Len(owner')
        BY <1>0, <2>8
      <4> QED BY <2>2, <2>7, <4>1, <4>2 DEF Placed, Busy
    <3>2. CASE q # p
      <4>1. pc'[q] = pc[q] /\ run'[q] = run[q] /\ handle'[q] = handle[q]
        BY <1>0, <2>1, <2>7, <3>2
      <4>2. Len(owner') \in Nat /\ Len(owner') >= Len(owner)
        BY <1>0, <2>8
      <4> QED BY <1>0, <4>1, <4>2, PlacedKept DEF HandleInv
    <3> QED BY <3>1, <3>2
  <2> QED BY <2>10, <2>11 DEF HandleInv
<1> QED BY <1>1, <1>2

LEMMA StepTypes ==
  ASSUME TypeInv, HandleInv, NEW p \in Procs, Step(p), ~IterationsExceeded(p)
  PROVE  TypeInv' /\ HandleInv'
<1>0. /\ pc \in [Procs -> {"off", "idle"} \cup Busy] /\ handle \in [Procs -> HandleType]
      /\ store \in [Slots -> Seq(Message)]
  BY DEF TypeInv
<1>h. /\ pc[p] \in Busy
      /\ handle[p] \in HandleType /\ handle[p].turn \in Turns /\ Placed(p)
      /\ handle[p].turn \in 1..Len(owner) /\ handle[p].agent \in Agents
      /\ run[p].session \in Sessions
  <2>1. pc[p] \in Busy
    BY DEF Step, ModelAnswers, ModelAsksForTools, RunTool, MoreCalls, NextRound,
           SaveInMemory, Truncate, Write, Emit, Busy
  <2> QED BY <2>1, HandleTyped DEF HandleInv
<1>s. handle = [handle EXCEPT ![p] = handle[p]]
  BY <1>0
<1>1. CASE ModelAnswers(p)
  <2>1. /\ pc' = [pc EXCEPT ![p] = "save"] /\ handle' = handle
        /\ UNCHANGED <<run, storeVars, faults, historyVars>>
    BY <1>1 DEF ModelAnswers, Goto
  <2>2. /\ HandleInv' /\ handle' \in [Procs -> HandleType]
        /\ pc' \in [Procs -> {"off", "idle"} \cup Busy]
    BY <1>h, <1>s, <2>1, MovesPlaced DEF Placed, historyVars, Busy
  <2> QED BY <2>1, <2>2 DEF TypeInv, storeVars, historyVars
<1>2. CASE ModelAsksForTools(p)
  <2>1. PICK h \in HandleType, calls \in Seq(Call), m \in Message :
           /\ handle' = [handle EXCEPT ![p] = h]
           /\ h.agent = handle[p].agent /\ h.turn = handle[p].turn
           /\ h.round = handle[p].round
           /\ h.request = calls /\ h.answered = 0
           /\ \E request \in Requests : DOMAIN calls = DOMAIN request
    BY <1>2, Asked
  <2>2. /\ pc' = [pc EXCEPT ![p] = "tools"] /\ MoreRounds(handle[p])
        /\ handle[p].agent.tools # {}
        /\ UNCHANGED <<run, storeVars, faults, historyVars>>
    BY <1>2 DEF ModelAsksForTools, Goto
  <2>3. h.round < MaxToolIterations
    BY <2>1, <2>2 DEF MoreRounds
  <2>4. /\ "tools" \in Busy /\ owner' = owner /\ run' = run
        /\ h.answered <= Len(h.request)
        /\ DOMAIN h.request \subseteq UNION {DOMAIN c : c \in Requests}
    BY <2>1, <2>2, LenProperties DEF Busy, historyVars
  <2>5. /\ HandleInv' /\ handle' \in [Procs -> HandleType]
        /\ pc' \in [Procs -> {"off", "idle"} \cup Busy]
    BY <1>h, <2>1, <2>2, <2>3, <2>4, MovesPlaced
  <2> QED BY <2>2, <2>5 DEF TypeInv, storeVars, historyVars
<1>3. CASE RunTool(p)
  <2>1. PICK h \in HandleType :
           /\ handle' = [handle EXCEPT ![p] = h]
           /\ h.agent = handle[p].agent /\ h.turn = handle[p].turn
           /\ h.round = handle[p].round
           /\ h.request = handle[p].request /\ h.answered = handle[p].answered + 1
    BY <1>3, ToolRun
  <2>2. /\ pc[p] = "tools" /\ handle[p].answered < Len(handle[p].request)
        /\ UNCHANGED <<pc, run, storeVars, faults, historyVars>>
    BY <1>3 DEF RunTool, MoreCalls
  <2>3. /\ pc' = [pc EXCEPT ![p] = "tools"] /\ "tools" \in Busy
        /\ owner' = owner /\ run' = run
    BY <1>0, <2>2 DEF Busy, historyVars
  <2>4. h.answered <= Len(h.request)
    <3>1. handle[p].answered \in Nat /\ Len(handle[p].request) \in Nat
      BY <1>h, LenProperties DEF HandleType
    <3> QED BY <2>1, <2>2, <3>1
  <2>5. /\ h.round < MaxToolIterations /\ h.agent.tools # {}
        /\ DOMAIN h.request \subseteq UNION {DOMAIN c : c \in Requests}
    BY <1>h, <2>1, <2>2 DEF Placed
  <2>6. /\ HandleInv' /\ handle' \in [Procs -> HandleType]
        /\ pc' \in [Procs -> {"off", "idle"} \cup Busy]
    BY <1>h, <2>1, <2>3, <2>4, <2>5, MovesPlaced
  <2> QED BY <2>2, <2>6 DEF TypeInv, storeVars, historyVars
<1>4. CASE NextRound(p)
  <2>1. PICK h \in HandleType :
           /\ handle' = [handle EXCEPT ![p] = h]
           /\ h.agent = handle[p].agent /\ h.turn = handle[p].turn
           /\ h.request = <<>> /\ h.answered = 0
    BY <1>4, RoundOver
  <2>2. /\ pc' = [pc EXCEPT ![p] = "model"]
        /\ UNCHANGED <<run, storeVars, faults, historyVars>>
    BY <1>4 DEF NextRound, Goto
  <2>3. /\ "model" \in Busy /\ owner' = owner /\ run' = run
        /\ h.answered <= Len(h.request)
        /\ DOMAIN h.request \subseteq UNION {DOMAIN c : c \in Requests}
    BY <2>1, <2>2 DEF Busy, historyVars
  <2>4. /\ HandleInv' /\ handle' \in [Procs -> HandleType]
        /\ pc' \in [Procs -> {"off", "idle"} \cup Busy]
    BY <1>h, <2>1, <2>2, <2>3, MovesPlaced
  <2> QED BY <2>2, <2>4 DEF TypeInv, storeVars, historyVars
<1>5. CASE SaveInMemory(p)
  <2>1. /\ pc' = [pc EXCEPT ![p] = "emit"] /\ handle' = handle
        /\ store' = IF handle[p].agent.memory
                      THEN [store EXCEPT ![Mine(p)] = Updated(handle[p])] ELSE store
        /\ UNCHANGED <<run, readable, faults, historyVars>>
    BY <1>5 DEF SaveInMemory, Goto
  <2>2. store' \in [Slots -> Seq(Message)]
    <3>1. Updated(handle[p]) \in Seq(Message)
      BY <1>h, UpdatedType
    <3>2. CASE handle[p].agent.memory
      BY <1>0, <2>1, <3>1, <3>2
    <3>3. CASE ~handle[p].agent.memory
      BY <1>0, <2>1, <3>3
    <3> QED BY <3>2, <3>3
  <2>3. /\ HandleInv' /\ handle' \in [Procs -> HandleType]
        /\ pc' \in [Procs -> {"off", "idle"} \cup Busy]
    BY <1>h, <1>s, <2>1, MovesPlaced DEF Placed, historyVars, Busy
  <2> QED BY <2>1, <2>2, <2>3 DEF TypeInv, historyVars
<1>6. CASE Truncate(p)
  <2>1. /\ pc' = [pc EXCEPT ![p] = "write"] /\ handle' = handle /\ InFile(p)
        /\ store' = [store EXCEPT ![Mine(p)] = <<>>]
        /\ readable' = readable \cup {Mine(p)}
        /\ UNCHANGED <<run, faults, historyVars>>
    BY <1>6 DEF Truncate, Goto
  <2>2. store' \in [Slots -> Seq(Message)]
    <3>1. <<>> \in Seq(Message)
      OBVIOUS
    <3> QED BY <1>0, <2>1, <3>1
  <2>3. /\ HandleInv' /\ handle' \in [Procs -> HandleType]
        /\ pc' \in [Procs -> {"off", "idle"} \cup Busy]
    BY <1>h, <1>s, <2>1, MovesPlaced DEF Placed, historyVars, Busy, InFile
  <2>4. Mine(p) \in Slots
    BY <1>h, <2>1, MineType DEF InFile
  <2> QED BY <2>1, <2>2, <2>3, <2>4 DEF TypeInv, historyVars
<1>7. CASE Write(p)
  <2>1. /\ pc' = [pc EXCEPT ![p] = "emit"] /\ handle' = handle
        /\ readable' \subseteq readable
        /\ UNCHANGED <<run, faults, historyVars>>
    BY <1>7 DEF Write, Goto
  <2>2. Mine(p) \in Slots
    BY <1>7, <1>h, MineType DEF Write, Placed, InFile
  <2>3. PICK n \in 1..Len(store[Mine(p)]) + 1 :
          store' = [store EXCEPT ![Mine(p)] =
            Updated(handle[p]) \o SubSeq(store[Mine(p)], n, Len(store[Mine(p)]))]
    BY <1>7 DEF Write
  <2>4. SubSeq(store[Mine(p)], n, Len(store[Mine(p)])) \in Seq(Message)
    <3>1. store[Mine(p)] \in Seq(Message)
      BY <1>0, <2>2
    <3>2. Len(store[Mine(p)]) \in Nat /\ n \in Nat \ {0}
      BY <3>1, LenProperties
    <3>3. \A i \in n..Len(store[Mine(p)]) : store[Mine(p)][i] \in Message
      BY <3>1, <3>2, ElementOfSeq
    <3> QED BY <3>2, <3>3, SubSeqProperties
  <2>5. Updated(handle[p]) \in Seq(Message)
    BY <1>h, UpdatedType
  <2>6. Updated(handle[p]) \o SubSeq(store[Mine(p)], n, Len(store[Mine(p)]))
          \in Seq(Message)
    BY <2>4, <2>5, ConcatProperties
  <2>7. store' \in [Slots -> Seq(Message)]
    BY <1>0, <2>3, <2>6
  <2>8. /\ HandleInv' /\ handle' \in [Procs -> HandleType]
        /\ pc' \in [Procs -> {"off", "idle"} \cup Busy]
    BY <1>h, <1>s, <2>1, MovesPlaced DEF Placed, historyVars, Busy
  <2> QED BY <2>1, <2>7, <2>8 DEF TypeInv, historyVars
<1>8. CASE Emit(p)
  <2>1. /\ pc' = [pc EXCEPT ![p] = "idle"] /\ handle' = [handle EXCEPT ![p] = NoHandle]
        /\ emitted' = IF handle[p].agent.memory
             THEN [emitted EXCEPT ![Mine(p)] = Append(@, handle[p].turn)] ELSE emitted
        /\ UNCHANGED <<run, storeVars, faults, owner, failed, torn, overlapped>>
    BY <1>8 DEF Emit, Goto
  <2>2. NoHandle \in HandleType
    BY AgentAssumption DEF NoHandle, HandleType
  <2>3. emitted' \in [Slots -> Seq(Turns)]
    <3>1. emitted \in [Slots -> Seq(Turns)]
      BY DEF TypeInv
    <3>2. handle[p].agent.memory => Mine(p) \in Slots
      BY <1>h, MineType
    <3>3. handle[p].agent.memory => Append(emitted[Mine(p)], handle[p].turn) \in Seq(Turns)
      BY <1>h, <3>1, <3>2
    <3> QED BY <2>1, <3>1, <3>3
  <2>4. TypeInv'
    BY <1>0, <2>1, <2>2, <2>3 DEF TypeInv, storeVars
  <2>5. ASSUME NEW q \in Procs PROVE Placed(q)'
    <3>1. CASE q = p
      <4>1. pc'[q] = "idle" /\ handle'[q] = NoHandle /\ run'[q] = run[p]
        BY <1>0, <2>1, <3>1
      <4> QED BY <1>h, <4>1 DEF Placed, NoHandle, Busy
    <3>2. CASE q # p
      BY <1>0, <2>1, <3>2, PlacedKept, LenProperties DEF HandleInv, TypeInv
    <3> QED BY <3>1, <3>2
  <2> QED BY <2>4, <2>5 DEF HandleInv
<1> QED BY <1>1, <1>2, <1>3, <1>4, <1>5, <1>6, <1>7, <1>8 DEF Step

LEMMA InitTypes ==
  Init => TypeInv /\ HandleInv
<1> SUFFICES ASSUME Init PROVE TypeInv /\ HandleInv
  OBVIOUS
<1>1. NoHandle \in HandleType
  BY AgentAssumption DEF NoHandle, HandleType
<1>2. NoRun \in [session : Sessions \cup {NoSession}, architecture : Seq(STRING)]
  BY DEF NoRun
<1>3. MaxFaults \in Nat /\ MaxTurns \in Nat
  BY AgentAssumption
<1>4. TypeInv
  BY <1>1, <1>2, <1>3 DEF Init, TypeInv
<1>5. HandleInv
  BY DEF Init, HandleInv, Placed, Busy, NoHandle
<1> QED BY <1>4, <1>5

LEMMA NextTypes ==
  TypeInv /\ HandleInv /\ [Next]_vars => TypeInv' /\ HandleInv'
<1> SUFFICES ASSUME TypeInv, HandleInv, [Next]_vars PROVE TypeInv' /\ HandleInv'
  OBVIOUS
<1>1. CASE UNCHANGED vars
  <2>1. TypeInv'
    BY <1>1 DEF TypeInv, vars, storeVars, historyVars
  <2>2. HandleInv'
    BY <1>1 DEF HandleInv, Placed, InFile, vars, storeVars, historyVars
  <2> QED BY <2>1, <2>2
<1>2. ASSUME NEW p \in Procs, StartRun(p) \/ \E a \in MyAgents(p) : Handle(p, a)
      PROVE  TypeInv' /\ HandleInv'
  BY <1>2, RunTypes
<1>3. ASSUME NEW p \in Procs, Quits(p)
      PROVE  TypeInv' /\ HandleInv'
  BY <1>3, QuitsTypes, QuitsPlaced
<1>4. ASSUME NEW p \in Procs, Step(p), ~IterationsExceeded(p)
      PROVE  TypeInv' /\ HandleInv'
  BY <1>4, StepTypes
<1> QED BY <1>1, <1>2, <1>3, <1>4 DEF Next, Quits

LEMMA TypesHold == Spec => [](TypeInv /\ HandleInv)
  BY InitTypes, NextTypes, PTL DEF Spec

\* Every reachable state is of the types TypeOK names: no turn is numbered, no
\* round counted and no fault spent beyond its bound, and what is stored,
\* loaded and said is messages (agent.go, memory.go).
THEOREM TypeCorrect == Spec => []TypeOK
<1>1. ASSUME TypeInv, HandleInv PROVE TypeOK
  <2>1. pc \in [Procs -> {"off", "idle", "model", "tools", "save", "write", "emit"}]
    BY <1>1 DEF TypeInv, Busy
  <2>2. ASSUME NEW p \in Procs
        PROVE  /\ handle[p].turn \in 0..MaxTurns /\ handle[p].round \in 0..MaxToolIterations
               /\ handle[p].history \in Seq(Message) /\ handle[p].messages \in Seq(Message)
               /\ handle[p].answered \in 0..Len(handle[p].request)
    <3>1. handle[p] \in HandleType /\ handle[p].answered <= Len(handle[p].request)
      BY <1>1 DEF TypeInv, HandleInv, Placed
    <3>2. Len(handle[p].request) \in Nat
      BY <3>1, LenProperties DEF HandleType
    <3> QED BY <3>1, <3>2 DEF HandleType
  <2>3. \A s \in Slots : store[s] \in Seq(Message) /\ emitted[s] \in Seq(Turns)
    BY <1>1 DEF TypeInv
  <2> QED BY <1>1, <2>1, <2>2, <2>3 DEF TypeOK, TypeInv
<1> QED BY <1>1, TypesHold, PTL

------------------------------------------------------------------------------
(* Where what is stored and what is loaded come from. *)

\* A message of the new turn, without the tool calls.
New(h) == {Plain("user", h.turn), Plain("assistant", h.turn)}

\* What a save of p puts in place of the history.
From(msgs, p) ==
  \A k \in DOMAIN msgs :
    \/ \E i \in DOMAIN store[Mine(p)] : msgs[k] = store[Mine(p)][i]
    \/ \E i \in DOMAIN handle[p].history : msgs[k] = handle[p].history[i]
    \/ msgs[k] \in New(handle[p])

LEMMA NewTurnIs ==
  ASSUME NEW h \in HandleType, h.turn \in Turns
  PROVE  /\ Len(NewTurn(h)) \in {1, 2} /\ NewTurn(h) \in Seq(Message)
         /\ NewTurn(h)[Len(NewTurn(h))] = Plain("assistant", h.turn)
         /\ Len(NewTurn(h)) = 2 => NewTurn(h)[1] = Plain("user", h.turn)
         /\ \A i \in 1..Len(NewTurn(h)) : NewTurn(h)[i] \in New(h)
         /\ Plain("user", h.turn).turn = h.turn /\ Plain("assistant", h.turn).turn = h.turn
         /\ Plain("user", h.turn).role = "user"
         /\ Plain("assistant", h.turn).role = "assistant"
         /\ Plain("user", h.turn).calls = <<>> /\ Plain("assistant", h.turn).calls = <<>>
<1> DEFINE u == Plain("user", h.turn)
           a == Plain("assistant", h.turn)
<1>1. u \in Message /\ a \in Message
  BY PlainType
<1>2. NewTurn(h) = IF h.turn \in Silent THEN <<>> \o <<a>> ELSE <<u>> \o <<a>>
  BY DEF NewTurn, Question
<1>3. /\ u.turn = h.turn /\ a.turn = h.turn /\ u.role = "user" /\ a.role = "assistant"
      /\ u.calls = <<>> /\ a.calls = <<>> /\ New(h) = {u, a}
  BY DEF Plain, New
<1> HIDE DEF u, a
<1>4. /\ <<a>> \in Seq(Message) /\ Len(<<a>>) = 1 /\ <<a>>[1] = a
      /\ <<u>> \in Seq(Message) /\ Len(<<u>>) = 1 /\ <<u>>[1] = u
      /\ <<>> \in Seq(Message) /\ Len(<<>>) = 0
  BY <1>1
<1>5. CASE NewTurn(h) = <<>> \o <<a>>
  <2>1. Len(NewTurn(h)) = 1 /\ NewTurn(h) \in Seq(Message) /\ NewTurn(h)[1] = a
    BY <1>4, <1>5, ConcatProperties
  <2> QED BY <1>3, <2>1 DEF u, a
<1>6. CASE NewTurn(h) = <<u>> \o <<a>>
  <2>1. /\ Len(NewTurn(h)) = 2 /\ NewTurn(h) \in Seq(Message)
        /\ NewTurn(h)[1] = u /\ NewTurn(h)[2] = a
    BY <1>4, <1>6, ConcatProperties
  <2> QED BY <1>3, <2>1 DEF u, a
<1> QED BY <1>2, <1>5, <1>6

LEMMA UpdatedIs ==
  ASSUME NEW h \in HandleType, h.turn \in Turns
  PROVE  /\ Len(Updated(h)) = Len(h.history) + Len(NewTurn(h))
         /\ Len(h.history) \in Nat /\ h.history \in Seq(Message)
         /\ DOMAIN h.history = 1..Len(h.history)
         /\ DOMAIN Updated(h) = 1..Len(Updated(h))
         /\ \A k \in 1..Len(h.history) : Updated(h)[k] = h.history[k]
         /\ \A k \in 1..Len(NewTurn(h)) : Updated(h)[Len(h.history) + k] = NewTurn(h)[k]
<1>1. h.history \in Seq(Message) /\ NewTurn(h) \in Seq(Message)
  BY UpdatedType DEF HandleType
<1>2. Updated(h) = h.history \o NewTurn(h)
  BY DEF Updated
<1> QED BY <1>1, <1>2, ConcatProperties, LenProperties

LEMMA UpdatedFrom ==
  ASSUME NEW h \in HandleType, h.turn \in Turns, NEW k \in 1..Len(Updated(h))
  PROVE  \/ \E i \in DOMAIN h.history : Updated(h)[k] = h.history[i]
         \/ Updated(h)[k] \in New(h)
<1>1. CASE k <= Len(h.history)
  BY <1>1, UpdatedIs
<1>2. CASE k > Len(h.history)
  <2>1. /\ k - Len(h.history) \in 1..Len(NewTurn(h))
        /\ k = Len(h.history) + (k - Len(h.history))
    BY <1>2, UpdatedIs, NewTurnIs
  <2> QED BY <2>1, UpdatedIs, NewTurnIs
<1> QED BY <1>1, <1>2, UpdatedIs

LEMMA StoreEffect ==
  ASSUME TypeInv, HandleInv, [Next]_vars
  PROVE  \/ store' = store
         \/ \E p \in Procs : Quits(p) /\ store' = StoreWithout(p)
         \/ \E p \in Procs :
              /\ pc[p] \in {"save", "write"} /\ handle[p].agent.memory
              /\ \E msgs \in Seq(Message) :
                   /\ From(msgs, p) /\ store' = [store EXCEPT ![Mine(p)] = msgs]
                   /\ pc'[p] \in Unsaved => msgs = <<>>
<1>0. pc \in [Procs -> {"off", "idle"} \cup Busy]
  BY DEF TypeInv
<1>1. CASE UNCHANGED vars
  BY <1>1 DEF vars, storeVars
<1>2. ASSUME NEW p \in Procs, StartRun(p) \/ \E a \in MyAgents(p) : Handle(p, a)
      PROVE  store' = store
  BY <1>2 DEF StartRun, Handle, storeVars
<1> DEFINE Saved(p) ==
      /\ pc[p] \in {"save", "write"} /\ handle[p].agent.memory
      /\ \E msgs \in Seq(Message) :
           /\ From(msgs, p) /\ store' = [store EXCEPT ![Mine(p)] = msgs]
           /\ pc'[p] \in Unsaved => msgs = <<>>
<1>u. ASSUME NEW p \in Procs, pc[p] \in {"save", "write"}
      PROVE  /\ handle[p] \in HandleType /\ handle[p].turn \in Turns
             /\ Updated(handle[p]) \in Seq(Message) /\ From(Updated(handle[p]), p)
             /\ Len(Updated(handle[p])) \in Nat
  <2>1. handle[p] \in HandleType /\ handle[p].turn \in Turns
    BY <1>u, HandleTyped DEF Busy
  <2>2. Updated(handle[p]) \in Seq(Message)
    BY <2>1, UpdatedType
  <2>3. From(Updated(handle[p]), p)
    BY <2>1, UpdatedIs, UpdatedFrom DEF From
  <2> QED BY <2>1, <2>2, <2>3, LenProperties
<1>3. ASSUME NEW p \in Procs, Quits(p)
      PROVE  store' \in {store, StoreWithout(p)} \/ Saved(p)
  <2>1. ASSUME pc[p] = "write", NEW n \in 0..Len(Updated(handle[p])),
               store' = [store EXCEPT ![Mine(p)] = SubSeq(Updated(handle[p]), 1, n)]
        PROVE  Saved(p)
    <3>1. n \in Nat /\ n <= Len(Updated(handle[p])) /\ Len(Updated(handle[p])) \in Nat
      BY <1>u, <2>1
    <3>2. /\ SubSeq(Updated(handle[p]), 1, n) \in Seq(Message)
          /\ Len(SubSeq(Updated(handle[p]), 1, n)) = n
          /\ \A i \in 1..n : SubSeq(Updated(handle[p]), 1, n)[i] = Updated(handle[p])[i]
      <4>1. \A i \in 1..n : Updated(handle[p])[i] \in Message
        BY <1>u, <2>1, <3>1, ElementOfSeq
      <4> QED BY <3>1, <4>1, SubSeqProperties
    <3>3. From(SubSeq(Updated(handle[p]), 1, n), p)
      <4>1. DOMAIN SubSeq(Updated(handle[p]), 1, n) = 1..n
        BY <3>2, LenProperties
      <4>2. \A i \in 1..n : i \in DOMAIN Updated(handle[p])
        BY <1>u, <2>1, <3>1, LenProperties
      <4> QED BY <1>u, <2>1, <3>2, <4>1, <4>2 DEF From
    <3>4. handle[p].agent.memory
      BY <2>1 DEF HandleInv, Placed, InFile
    <3>5. pc'[p] = "off"
      BY <1>0, <1>3, Left DEF Exit, Goto
    <3> QED BY <2>1, <3>2, <3>3, <3>4, <3>5 DEF Unsaved
  <2> QED BY <1>3, <2>1, Left
<1>4. ASSUME NEW p \in Procs, Step(p), ~IterationsExceeded(p)
      PROVE  store' = store \/ Saved(p)
  <2>1. CASE SaveInMemory(p)
    BY <1>0, <1>u, <2>1 DEF SaveInMemory, Goto, Unsaved
  <2>2. CASE Truncate(p)
    <3>1. From(<<>>, p) /\ <<>> \in Seq(Message)
      BY DEF From
    <3> QED BY <2>2, <3>1 DEF Truncate, InFile
  <2>3. CASE Write(p)
    <3> DEFINE found == store[Mine(p)]
               rest(n) == SubSeq(found, n, Len(found))
    <3>1. /\ pc[p] = "write" /\ handle[p].agent.memory
          /\ \E n \in 1..Len(found) + 1 :
               store' = [store EXCEPT ![Mine(p)] = Updated(handle[p]) \o rest(n)]
      BY <2>3 DEF Write, HandleInv, Placed, InFile
    <3>e. pc'[p] = "emit"
      BY <1>0, <2>3 DEF Write, Goto
    <3>2. found \in Seq(Message) /\ Len(found) \in Nat
      BY <3>1, MineType, LenProperties DEF TypeInv, Busy
    <3>3. ASSUME NEW n \in 1..Len(found) + 1
          PROVE  /\ Updated(handle[p]) \o rest(n) \in Seq(Message)
                 /\ From(Updated(handle[p]) \o rest(n), p)
      <4>1. \A i \in n..Len(found) : found[i] \in Message /\ i \in DOMAIN found
        BY <3>2, ElementOfSeq, LenProperties
      <4>2. n \in Int /\ Len(found) \in Int
        BY <3>2
      <4>3. /\ rest(n) \in Seq(Message)
            /\ \A i \in 1..Len(found) - n + 1 : rest(n)[i] = found[n + i - 1]
            /\ Len(rest(n)) = IF n <= Len(found) THEN Len(found) - n + 1 ELSE 0
        BY <4>1, <4>2, SubSeqProperties
      <4> HIDE DEF rest
      <4>4. \A i \in 1..Len(rest(n)) : \E j \in DOMAIN found : rest(n)[i] = found[j]
        <5> TAKE i \in 1..Len(rest(n))
        <5>1. i \in 1..Len(found) - n + 1 /\ n + i - 1 \in n..Len(found)
          BY <3>2, <4>3
        <5> QED BY <4>1, <4>3, <5>1
      <4> HIDE DEF found
      <4>u. Updated(handle[p]) \in Seq(Message) /\ Len(Updated(handle[p])) \in Nat
        BY <1>u, <3>1
      <4>5. /\ Updated(handle[p]) \o rest(n) \in Seq(Message)
            /\ Len(Updated(handle[p]) \o rest(n)) = Len(Updated(handle[p])) + Len(rest(n))
            /\ \A i \in 1..Len(Updated(handle[p])) + Len(rest(n)) :
                 (Updated(handle[p]) \o rest(n))[i] =
                   IF i <= Len(Updated(handle[p])) THEN Updated(handle[p])[i]
                   ELSE rest(n)[i - Len(Updated(handle[p]))]
        BY <4>u, <4>3, ConcatProperties
      <4>6. ASSUME NEW k \in DOMAIN (Updated(handle[p]) \o rest(n))
            PROVE  \/ \E i \in DOMAIN found : (Updated(handle[p]) \o rest(n))[k] = found[i]
                   \/ \E i \in DOMAIN handle[p].history :
                        (Updated(handle[p]) \o rest(n))[k] = handle[p].history[i]
                   \/ (Updated(handle[p]) \o rest(n))[k] \in New(handle[p])
        <5>1. k \in 1..Len(Updated(handle[p])) + Len(rest(n)) /\ Len(rest(n)) \in Nat
          BY <4>3, <4>5, LenProperties
        <5>2. CASE k <= Len(Updated(handle[p]))
          <6>1. (Updated(handle[p]) \o rest(n))[k] = Updated(handle[p])[k]
            BY <4>5, <5>1, <5>2
          <6>2. k \in 1..Len(Updated(handle[p]))
            BY <4>u, <5>1, <5>2
          <6> QED BY <1>u, <3>1, <6>1, <6>2, UpdatedFrom
        <5>3. CASE ~(k <= Len(Updated(handle[p])))
          <6>1. (Updated(handle[p]) \o rest(n))[k] = rest(n)[k - Len(Updated(handle[p]))]
            BY <4>5, <5>1, <5>3
          <6>2. k - Len(Updated(handle[p])) \in 1..Len(rest(n))
            BY <4>u, <5>1, <5>3
          <6> QED BY <4>4, <6>1, <6>2
        <5> QED BY <5>2, <5>3
      <4> QED BY <4>5, <4>6 DEF From, found
    <3> QED BY <3>1, <3>3, <3>e DEF Unsaved
  <2> QED BY <1>4, <2>1, <2>2, <2>3
       DEF Step, ModelAnswers, ModelAsksForTools, RunTool, NextRound, Emit, storeVars
<1> HIDE DEF Saved
<1>5. CASE Next
  BY <1>2, <1>3, <1>4, <1>5 DEF Next, Quits, Saved
<1> QED BY <1>1, <1>5

LEMMA StoreFrom ==
  ASSUME TypeInv, HandleInv, [Next]_vars, NEW s \in Slots, NEW k \in DOMAIN store'[s]
  PROVE  \/ \E i \in DOMAIN store[s] : store'[s][k] = store[s][i]
         \/ \E p \in Procs :
              /\ pc[p] \in {"save", "write"} /\ handle[p].agent.memory /\ Mine(p) = s
              /\ pc'[p] \notin Unsaved
              /\ \/ \E i \in DOMAIN handle[p].history :
                      store'[s][k] = handle[p].history[i]
                 \/ store'[s][k] \in New(handle[p])
<1>1. DOMAIN store = Slots
  BY DEF TypeInv
<1>2. CASE store' = store
  BY <1>2
<1>3. ASSUME NEW p \in Procs, store' = StoreWithout(p)
      PROVE  \E i \in DOMAIN store[s] : store'[s][k] = store[s][i]
  <2>1. store'[s] = IF s[1] = p THEN <<>> ELSE store[s]
    BY <1>3 DEF StoreWithout
  <2>2. store'[s] # <<>>
    OBVIOUS
  <2> QED BY <2>1, <2>2
<1>4. ASSUME NEW p \in Procs, pc[p] \in {"save", "write"}, handle[p].agent.memory,
             NEW msgs \in Seq(Message), From(msgs, p),
             store' = [store EXCEPT ![Mine(p)] = msgs],
             pc'[p] \in Unsaved => msgs = <<>>
      PROVE  \/ \E i \in DOMAIN store[s] : store'[s][k] = store[s][i]
             \/ /\ Mine(p) = s /\ pc'[p] \notin Unsaved
                /\ \/ \E i \in DOMAIN handle[p].history :
                        store'[s][k] = handle[p].history[i]
                   \/ store'[s][k] \in New(handle[p])
  <2>1. CASE Mine(p) = s
    <3>1. store'[s] = msgs
      BY <1>1, <1>4, <2>1
    <3>2. pc'[p] \notin Unsaved
      BY <1>4, <3>1
    <3> QED BY <1>4, <2>1, <3>1, <3>2 DEF From
  <2>2. CASE Mine(p) # s
    BY <1>1, <1>4, <2>2
  <2> QED BY <2>1, <2>2
<1> QED BY <1>2, <1>3, <1>4, StoreEffect

LEMMA HandleEffect ==
  ASSUME TypeInv, HandleInv, [Next]_vars, NEW q \in Procs
  PROVE  \/ /\ pc[q] \in Busy /\ pc'[q] \in Busy /\ run'[q] = run[q]
            /\ handle'[q].agent = handle[q].agent /\ handle'[q].turn = handle[q].turn
            /\ handle'[q].history = handle[q].history
            /\ pc[q] = "emit" => pc'[q] = "emit"
         \/ pc'[q] \notin Busy /\ handle'[q] = NoHandle
         \/ \E a \in MyAgents(q) : Handle(q, a)
<1> DEFINE Same == /\ pc[q] \in Busy /\ pc'[q] \in Busy /\ run'[q] = run[q]
                   /\ handle'[q].agent = handle[q].agent
                   /\ handle'[q].turn = handle[q].turn
                   /\ handle'[q].history = handle[q].history
                   /\ pc[q] = "emit" => pc'[q] = "emit"
           Free == pc'[q] \notin Busy /\ handle'[q] = NoHandle
<1>0. /\ pc \in [Procs -> {"off", "idle"} \cup Busy] /\ handle \in [Procs -> HandleType]
      /\ DOMAIN run = Procs
      /\ pc[q] \notin Busy => handle[q] = NoHandle
  BY DEF TypeInv, HandleInv, Placed
<1>1. ASSUME pc'[q] = pc[q], handle'[q] = handle[q], run'[q] = run[q]
      PROVE  Same \/ Free
  BY <1>0, <1>1
<1>2. CASE UNCHANGED vars
  BY <1>1, <1>2 DEF vars
<1>3. ASSUME NEW p \in Procs, StartRun(p)
      PROVE  Same \/ Free
  <2>1. /\ pc' = [pc EXCEPT ![p] = "idle"] /\ handle' = handle /\ pc[p] = "off"
        /\ \E x : run' = [run EXCEPT ![p] = x]
    BY <1>3 DEF StartRun, Goto
  <2>2. CASE p = q
    BY <1>0, <2>1, <2>2 DEF Busy
  <2>3. CASE p # q
    BY <1>0, <1>1, <2>1, <2>3
  <2> QED BY <2>2, <2>3
<1>4. ASSUME NEW p \in Procs, NEW a \in MyAgents(p), Handle(p, a), p # q
      PROVE  Same \/ Free
  <2>1. /\ pc' = [pc EXCEPT ![p] = "model"] /\ run' = run
        /\ \E x : handle' = [handle EXCEPT ![p] = x]
    BY <1>4 DEF Handle, Goto
  <2> QED BY <1>0, <1>1, <1>4, <2>1
<1>5. ASSUME NEW p \in Procs, Quits(p)
      PROVE  Same \/ Free
  <2>1. /\ pc' = [pc EXCEPT ![p] = "off"] /\ run' = [run EXCEPT ![p] = NoRun]
        /\ handle' = [handle EXCEPT ![p] = NoHandle]
    BY <1>5, Left DEF Exit, Goto
  <2>2. CASE p = q
    BY <1>0, <2>1, <2>2 DEF Busy
  <2>3. CASE p # q
    BY <1>0, <1>1, <2>1, <2>3
  <2> QED BY <2>2, <2>3
<1>6. ASSUME NEW p \in Procs, Step(p), ~IterationsExceeded(p)
      PROVE  Same \/ Free
  <2>1. ASSUME NEW where \in Busy, NEW h \in HandleType, pc[p] \in Busy \ {"emit"},
               pc' = [pc EXCEPT ![p] = where], run' = run,
               handle' = [handle EXCEPT ![p] = h],
               h.agent = handle[p].agent, h.turn = handle[p].turn,
               h.history = handle[p].history
        PROVE  Same \/ Free
    <3>1. CASE p = q
      BY <1>0, <2>1, <3>1
    <3>2. CASE p # q
      BY <1>0, <1>1, <2>1, <3>2
    <3> QED BY <3>1, <3>2
  <2>2. handle[p] \in HandleType /\ handle = [handle EXCEPT ![p] = handle[p]]
    BY <1>0
  <2>3. CASE ModelAnswers(p) \/ SaveInMemory(p) \/ Truncate(p) \/ Write(p)
    <3>1. /\ pc[p] \in Busy \ {"emit"} /\ handle' = handle /\ run' = run
          /\ \E where \in Busy : pc' = [pc EXCEPT ![p] = where]
      BY <2>3 DEF ModelAnswers, SaveInMemory, Truncate, Write, Goto, Busy
    <3> QED BY <2>1, <2>2, <3>1
  <2>4. CASE ModelAsksForTools(p)
    <3>1. pc[p] \in Busy \ {"emit"} /\ pc' = [pc EXCEPT ![p] = "tools"] /\ run' = run /\ "tools" \in Busy
      BY <2>4 DEF ModelAsksForTools, Goto, Busy
    <3> QED BY <2>1, <2>4, <3>1, Asked
  <2>5. CASE RunTool(p)
    <3>1. pc[p] \in Busy \ {"emit"} /\ pc' = [pc EXCEPT ![p] = pc[p]] /\ run' = run
      BY <1>0, <2>5 DEF RunTool, MoreCalls, Busy
    <3> QED BY <2>1, <2>5, <3>1, ToolRun
  <2>6. CASE NextRound(p)
    <3>1. pc[p] \in Busy \ {"emit"} /\ pc' = [pc EXCEPT ![p] = "model"] /\ run' = run /\ "model" \in Busy
      BY <2>6 DEF NextRound, Goto, Busy
    <3> QED BY <2>1, <2>6, <3>1, RoundOver
  <2>7. CASE Emit(p)
    <3>1. /\ pc' = [pc EXCEPT ![p] = "idle"] /\ run' = run
          /\ handle' = [handle EXCEPT ![p] = NoHandle]
      BY <2>7 DEF Emit, Goto
    <3>2. CASE p = q
      BY <1>0, <3>1, <3>2 DEF Busy
    <3>3. CASE p # q
      BY <1>0, <1>1, <3>1, <3>3
    <3> QED BY <3>2, <3>3
  <2> QED BY <1>6, <2>3, <2>4, <2>5, <2>6, <2>7 DEF Step
<1> HIDE DEF Same, Free
<1>7. CASE Next
  BY <1>3, <1>4, <1>5, <1>6, <1>7 DEF Next, Quits, Same, Free
<1> QED BY <1>2, <1>7 DEF Same, Free

------------------------------------------------------------------------------
(* The order of the turns. *)

OrderInv ==
  /\ failed \subseteq 1..Len(owner)
  /\ \A s \in Slots : \A k \in DOMAIN store[s] : store[s][k].turn \in 1..Len(owner)
  /\ \A p \in Procs : \A k \in DOMAIN handle[p].history :
       handle[p].history[k].turn \in 1..Len(owner)
         /\ handle[p].history[k].turn < handle[p].turn

LEMMA AppendIs ==
  ASSUME NEW S, NEW msgs \in Seq(S), NEW m \in S
  PROVE  /\ DOMAIN msgs = 1..Len(msgs) /\ Len(msgs) \in Nat
         /\ DOMAIN Append(msgs, m) = 1..(Len(msgs) + 1)
         /\ Len(Append(msgs, m)) = Len(msgs) + 1
         /\ \A k \in 1..Len(msgs) : Append(msgs, m)[k] = msgs[k]
         /\ Append(msgs, m)[Len(msgs) + 1] = m
  BY AppendProperties, LenProperties

\* The turns get their owners in order; those of a process that quits are
\* given up.
LEMMA OwnerEffect ==
  ASSUME TypeInv, HandleInv, [Next]_vars
  PROVE  \/ owner' = owner
         \/ \E p \in Procs : Quits(p) /\ owner' = Disowned(p)
         \/ \E p \in Procs, a \in Agents : owner' = Append(owner, Owner(p, a))
<1>1. CASE UNCHANGED vars
  BY <1>1 DEF vars, historyVars
<1>2. ASSUME NEW p \in Procs, StartRun(p)
      PROVE  owner' = owner
  BY <1>2 DEF StartRun, historyVars
<1>3. ASSUME NEW p \in Procs, NEW a \in MyAgents(p), Handle(p, a)
      PROVE  \E b \in Agents : owner' = Append(owner, Owner(p, b))
  BY <1>3, Begun
<1>4. ASSUME NEW p \in Procs, Step(p), ~IterationsExceeded(p)
      PROVE  owner' = owner
  BY <1>4 DEF Step, ModelAnswers, ModelAsksForTools, RunTool, NextRound,
              SaveInMemory, Truncate, Write, Emit, historyVars
<1>5. ASSUME NEW p \in Procs, Quits(p)
      PROVE  owner' = Disowned(p) \/ \E b \in Agents : owner' = Append(owner, Owner(p, b))
  BY <1>5, Left
<1>6. CASE Next
  BY <1>2, <1>3, <1>4, <1>5, <1>6 DEF Next, Quits
<1> QED BY <1>1, <1>6

\* A turn keeps its owner unless that is a process that quits.
LEMMA OwnerKept ==
  ASSUME TypeInv, HandleInv, [Next]_vars, NEW t \in 1..Len(owner)
  PROVE  /\ t \in 1..Len(owner')
         /\ owner'[t] = owner[t] \/ \E p \in Procs : Quits(p) /\ owner[t][1] = p
<1>0. owner \in Seq(Owners) /\ Len(owner) \in Nat
  BY LenProperties DEF TypeInv
<1>1. CASE owner' = owner
  BY <1>1
<1>2. ASSUME NEW p \in Procs, Quits(p), owner' = Disowned(p)
      PROVE  t \in 1..Len(owner') /\ (owner'[t] = owner[t] \/ owner[t][1] = p)
  BY <1>2, DisownedType
<1>3. ASSUME NEW p \in Procs, NEW a \in Agents, owner' = Append(owner, Owner(p, a))
      PROVE  t \in 1..Len(owner') /\ owner'[t] = owner[t]
  <2>1. Owner(p, a) \in Owners
    BY OwnerType
  <2>2. Len(owner') = Len(owner) + 1 /\ \A k \in 1..Len(owner) : owner'[k] = owner[k]
    BY <1>0, <1>3, <2>1, AppendIs
  <2> QED BY <1>0, <2>2
<1> QED BY <1>1, <1>2, <1>3, OwnerEffect

LEMMA FailedEffect ==
  ASSUME TypeInv, HandleInv, [Next]_vars
  PROVE  \/ failed' = failed
         \/ \E p \in Procs : /\ Quits(p) /\ pc[p] \in Unsaved
                             /\ failed' = failed \cup {handle[p].turn}
         \/ /\ \E p \in Procs, a \in Agents : owner' = Append(owner, Owner(p, a))
            /\ failed' = failed \cup {Len(owner) + 1}
<1>1. CASE UNCHANGED vars
  BY <1>1 DEF vars, historyVars
<1>2. ASSUME NEW p \in Procs, StartRun(p)
      PROVE  failed' = failed
  BY <1>2 DEF StartRun, historyVars
<1>3. ASSUME NEW p \in Procs, NEW a \in MyAgents(p), Handle(p, a)
      PROVE  failed' = failed
  BY <1>3 DEF Handle
<1>4. ASSUME NEW p \in Procs, Step(p), ~IterationsExceeded(p)
      PROVE  failed' = failed
  BY <1>4, Zenon DEF Step, ModelAnswers, ModelAsksForTools, RunTool, NextRound,
              SaveInMemory, Truncate, Write, Emit, historyVars
<1>5. ASSUME NEW p \in Procs, Quits(p)
      PROVE  \/ failed' = failed
             \/ pc[p] \in Unsaved /\ failed' = failed \cup {handle[p].turn}
             \/ /\ \E a \in Agents : owner' = Append(owner, Owner(p, a))
                /\ failed' = failed \cup {Len(owner) + 1}
  BY <1>5, Left
<1>6. CASE Next
  BY <1>2, <1>3, <1>4, <1>5, <1>6 DEF Next, Quits
<1> QED BY <1>1, <1>6

LEMMA StoredOrder ==
  ASSUME TypeInv, HandleInv, OrderInv, [Next]_vars, NEW s \in Slots, NEW k \in DOMAIN store'[s]
  PROVE  store'[s][k].turn \in 1..Len(owner)
<1>1. ASSUME NEW p \in Procs, pc[p] \in {"save", "write"}, store'[s][k] \in New(handle[p])
      PROVE  store'[s][k].turn \in 1..Len(owner)
  <2>1. handle[p] \in HandleType /\ handle[p].turn \in Turns /\ handle[p].turn \in 1..Len(owner)
    BY <1>1, HandleTyped DEF Busy
  <2> QED BY <1>1, <2>1, NewTurnIs DEF New
<1> QED BY <1>1, StoreFrom DEF OrderInv

LEMMA OrderNext ==
  ASSUME TypeInv, HandleInv, OrderInv, [Next]_vars
  PROVE  OrderInv'
<1>0. Len(owner) \in Nat /\ \A t \in 1..Len(owner) : t \in 1..Len(owner')
  BY OwnerKept, LenProperties DEF TypeInv
<1>1. failed' \subseteq 1..Len(owner')
  <2>1. CASE failed' = failed
    BY <1>0, <2>1 DEF OrderInv
  <2>2. ASSUME NEW p \in Procs, pc[p] \in Unsaved, failed' = failed \cup {handle[p].turn}
        PROVE  failed' \subseteq 1..Len(owner')
    <3>1. handle[p].turn \in 1..Len(owner)
      BY <2>2, HandleTyped DEF Busy, Unsaved
    <3> QED BY <1>0, <2>2, <3>1 DEF OrderInv
  <2>3. ASSUME NEW p \in Procs, NEW a \in Agents, owner' = Append(owner, Owner(p, a)),
               failed' = failed \cup {Len(owner) + 1}
        PROVE  failed' \subseteq 1..Len(owner')
    <3>1. Owner(p, a) \in Owners /\ owner \in Seq(Owners)
      BY OwnerType DEF TypeInv
    <3>2. Len(owner') = Len(owner) + 1
      BY <2>3, <3>1, AppendIs
    <3>3. Len(owner) + 1 \in 1..Len(owner')
      BY <1>0, <3>2
    <3> QED BY <1>0, <2>3, <3>3 DEF OrderInv
  <2> QED BY <2>1, <2>2, <2>3, FailedEffect
<1>2. ASSUME NEW s \in Slots, NEW k \in DOMAIN store'[s]
      PROVE  store'[s][k].turn \in 1..Len(owner')
  BY <1>0, StoredOrder
<1>3. ASSUME NEW p \in Procs, NEW k \in DOMAIN handle'[p].history
      PROVE  /\ handle'[p].history[k].turn \in 1..Len(owner')
             /\ handle'[p].history[k].turn < handle'[p].turn
  <2>1. CASE handle'[p].history = handle[p].history /\ handle'[p].turn = handle[p].turn
    BY <1>0, <2>1 DEF OrderInv
  <2>2. CASE handle'[p] = NoHandle
    BY <2>2 DEF NoHandle
  <2>3. ASSUME NEW a \in MyAgents(p), Handle(p, a)
        PROVE  /\ handle'[p].history[k].turn \in 1..Len(owner)
               /\ handle'[p].turn = Len(owner) + 1
    <3>1. /\ handle'[p].history = Loaded(p, a) /\ a \in Agents /\ run[p].session \in Sessions
          /\ handle'[p].turn = Len(owner) + 1
      BY <2>3, Begun DEF TypeInv
    <3>2. CASE a.memory
      BY <3>1, <3>2, SlotType DEF Loaded, OrderInv
    <3>3. CASE ~a.memory
      BY <3>1, <3>3 DEF Loaded
    <3> QED BY <3>1, <3>2, <3>3
  <2>4. ASSUME NEW a \in MyAgents(p), Handle(p, a)
        PROVE  /\ handle'[p].history[k].turn \in 1..Len(owner')
               /\ handle'[p].history[k].turn < handle'[p].turn
    BY <1>0, <2>3, <2>4
  <2> QED BY <2>1, <2>2, <2>4, HandleEffect
<1> QED BY <1>1, <1>2, <1>3 DEF OrderInv

LEMMA OrderHolds == Spec => [](TypeInv /\ HandleInv /\ OrderInv)
<1>1. Init => OrderInv
  BY DEF Init, OrderInv, NoHandle
<1>2. TypeInv /\ HandleInv /\ OrderInv /\ [Next]_vars => OrderInv'
  BY OrderNext
<1> QED BY <1>1, <1>2, TypesHold, PTL DEF Spec

------------------------------------------------------------------------------
(* Messages (ToolCallsAnswered). *)

\* What is kept of a turn is what was said, without the tool calls.
Spoken(m) == m.role \in {"user", "assistant"} /\ m.calls = <<>>

SpokenInv ==
  /\ \A s \in Slots : \A k \in DOMAIN store[s] : Spoken(store[s][k])
  /\ \A p \in Procs : \A k \in DOMAIN handle[p].history : Spoken(handle[p].history[k])

\* The result of call j of message k has its place right behind it.
Answered(msgs, k, j) ==
  /\ k + j \in DOMAIN msgs /\ msgs[k + j].role = "tool"
  /\ msgs[k].calls[j].id \in {NoId, msgs[k + j].id} /\ msgs[k + j].id # NoId

\* All calls are answered but those of the message at `last`, which are as
\* far as the first `n` of them.
Conversation(msgs, last, n) ==
  /\ \A k \in DOMAIN msgs : \A j \in DOMAIN msgs[k].calls :
       Answered(msgs, k, j) \/ (k = last /\ j > n)
  /\ \A i \in DOMAIN msgs : msgs[i].role = "tool" =>
       \E k \in DOMAIN msgs : i - k \in DOMAIN msgs[k].calls

CallsInv ==
  \A p \in Procs : LET h == handle[p] IN
    /\ pc[p] = "model" => Conversation(h.messages, 0, 0)
    /\ pc[p] = "tools" =>
         LET last == Len(h.messages) - h.answered IN
         /\ Conversation(h.messages, last, h.answered)
         /\ last \in DOMAIN h.messages /\ h.messages[last].calls = h.request

LEMMA SpokenNext ==
  ASSUME TypeInv, HandleInv, SpokenInv, [Next]_vars
  PROVE  SpokenInv'
<1>1. ASSUME NEW s \in Slots, NEW k \in DOMAIN store'[s]
      PROVE  Spoken(store'[s][k])
  <2>1. ASSUME NEW p \in Procs, pc[p] \in {"save", "write"}, NEW m \in New(handle[p])
        PROVE  Spoken(m)
    <3>1. handle[p] \in HandleType /\ handle[p].turn \in Turns
      BY <2>1, HandleTyped DEF Busy
    <3> QED BY <2>1, <3>1, NewTurnIs DEF New, Spoken
  <2> QED BY <2>1, StoreFrom DEF SpokenInv
<1>2. ASSUME NEW p \in Procs, NEW k \in DOMAIN handle'[p].history
      PROVE  Spoken(handle'[p].history[k])
  <2>1. CASE handle'[p].history = handle[p].history
    BY <2>1 DEF SpokenInv
  <2>2. CASE handle'[p] = NoHandle
    BY <2>2 DEF NoHandle
  <2>3. ASSUME NEW a \in MyAgents(p), Handle(p, a)
        PROVE  Spoken(handle'[p].history[k])
    <3>1. handle'[p].history = Loaded(p, a) /\ a \in Agents /\ run[p].session \in Sessions
      BY <2>3, Begun DEF TypeInv
    <3>2. CASE a.memory
      BY <3>1, <3>2, SlotType DEF Loaded, SpokenInv
    <3>3. CASE ~a.memory
      BY <3>1, <3>3 DEF Loaded
    <3> QED BY <3>2, <3>3
  <2> QED BY <2>1, <2>2, <2>3, HandleEffect
<1> QED BY <1>1, <1>2 DEF SpokenInv

\* Without tool calls there is nothing to answer.
LEMMA SpokenConversation ==
  ASSUME NEW msgs, \A k \in DOMAIN msgs : Spoken(msgs[k])
  PROVE  Conversation(msgs, 0, 0)
<1>1. \A k \in DOMAIN msgs : msgs[k].role # "tool" /\ DOMAIN msgs[k].calls = {}
  BY DEF Spoken
<1> QED BY <1>1 DEF Conversation

\* The calls of a message, by their number.
LEMMA CallsAre ==
  ASSUME NEW msgs \in Seq(Message), NEW k \in DOMAIN msgs
  PROVE  DOMAIN msgs[k].calls = 1..Len(msgs[k].calls) /\ Len(msgs[k].calls) \in Nat
<1>1. msgs[k] \in Message
  BY ElementOfSeq, LenProperties
<1>2. msgs[k].calls \in Seq([id : Ids, name : STRING])
  BY <1>1 DEF Message
<1> QED BY <1>2, LenProperties

LEMMA ConversationAsks ==
  ASSUME NEW msgs \in Seq(Message), NEW m \in Message, m.role = "assistant",
         Conversation(msgs, 0, 0)
  PROVE  Conversation(Append(msgs, m), Len(msgs) + 1, 0)
<1> DEFINE new == Append(msgs, m)
<1>1. /\ DOMAIN msgs = 1..Len(msgs) /\ Len(msgs) \in Nat /\ DOMAIN new = 1..(Len(msgs) + 1)
      /\ \A k \in 1..Len(msgs) : new[k] = msgs[k]
      /\ new[Len(msgs) + 1] = m /\ new \in Seq(Message)
  BY AppendIs, AppendProperties
<1> HIDE DEF new
<1>2. ASSUME NEW k \in DOMAIN new, NEW j \in DOMAIN new[k].calls
      PROVE  Answered(new, k, j) \/ (k = Len(msgs) + 1 /\ j > 0)
  <2>1. CASE k = Len(msgs) + 1
    <3>1. j \in 1..Len(new[k].calls)
      BY <1>1, CallsAre
    <3> QED BY <2>1, <3>1
  <2>2. CASE k # Len(msgs) + 1
    <3>1. k \in DOMAIN msgs /\ new[k] = msgs[k] /\ k # 0
      BY <1>1, <2>2
    <3>2. Answered(msgs, k, j)
      BY <3>1 DEF Conversation
    <3>3. k + j \in DOMAIN msgs /\ new[k + j] = msgs[k + j] /\ k + j \in DOMAIN new
      BY <1>1, <3>2 DEF Answered
    <3> QED BY <3>1, <3>2, <3>3 DEF Answered
  <2> QED BY <2>1, <2>2
<1>3. ASSUME NEW i \in DOMAIN new, new[i].role = "tool"
      PROVE  \E k \in DOMAIN new : i - k \in DOMAIN new[k].calls
  <2>1. i \in DOMAIN msgs /\ new[i] = msgs[i]
    BY <1>1, <1>3
  <2>2. PICK k \in DOMAIN msgs : i - k \in DOMAIN msgs[k].calls
    BY <1>3, <2>1 DEF Conversation
  <2>3. k \in DOMAIN new /\ new[k] = msgs[k]
    BY <1>1
  <2> QED BY <2>2, <2>3
<1> QED BY <1>2, <1>3 DEF Conversation, new

LEMMA ConversationRuns ==
  ASSUME NEW msgs \in Seq(Message), NEW m \in Message, NEW n \in Nat, n < Len(msgs),
         m.role = "tool", m.calls = <<>>, m.id # NoId,
         Conversation(msgs, Len(msgs) - n, n),
         n + 1 \in DOMAIN msgs[Len(msgs) - n].calls,
         msgs[Len(msgs) - n].calls[n + 1].id \in {NoId, m.id}
  PROVE  Conversation(Append(msgs, m), Len(msgs) - n, n + 1)
<1> DEFINE new == Append(msgs, m)
           last == Len(msgs) - n
<1>1. /\ DOMAIN msgs = 1..Len(msgs) /\ Len(msgs) \in Nat /\ DOMAIN new = 1..(Len(msgs) + 1)
      /\ \A k \in 1..Len(msgs) : new[k] = msgs[k]
      /\ new[Len(msgs) + 1] = m /\ new \in Seq(Message)
  BY AppendIs, AppendProperties
<1> HIDE DEF new
<1>2. last \in DOMAIN msgs /\ new[last] = msgs[last] /\ last + (n + 1) = Len(msgs) + 1
  BY <1>1
<1>3. ASSUME NEW k \in DOMAIN new, NEW j \in DOMAIN new[k].calls
      PROVE  Answered(new, k, j) \/ (k = last /\ j > n + 1)
  <2>0. j \in Nat
    <3>1. j \in 1..Len(new[k].calls) /\ Len(new[k].calls) \in Nat
      BY <1>1, CallsAre
    <3> QED BY <3>1
  <2>1. k # Len(msgs) + 1
    BY <1>1
  <2>2. k \in DOMAIN msgs /\ new[k] = msgs[k]
    <3>1. k \in 1..(Len(msgs) + 1)
      BY <1>1
    <3>2. k \in 1..Len(msgs)
      BY <1>1, <2>1, <3>1
    <3> QED BY <1>1, <3>2
  <2>3. CASE Answered(msgs, k, j)
    <3>1. k + j \in DOMAIN msgs /\ new[k + j] = msgs[k + j] /\ k + j \in DOMAIN new
      BY <1>1, <2>3 DEF Answered
    <3> QED BY <2>2, <2>3, <3>1 DEF Answered
  <2>4. CASE k = last /\ j = n + 1
    <3>1. k + j = Len(msgs) + 1 /\ new[k + j] = m /\ k + j \in DOMAIN new
      BY <1>1, <1>2, <2>4
    <3>2. new[k].calls[j].id \in {NoId, m.id}
      BY <2>2, <2>4
    <3> QED BY <3>1, <3>2 DEF Answered
  <2>5. Answered(msgs, k, j) \/ (k = last /\ j > n)
    BY <2>2 DEF Conversation
  <2> QED BY <2>0, <2>3, <2>4, <2>5
<1>4. ASSUME NEW i \in DOMAIN new, new[i].role = "tool"
      PROVE  \E k \in DOMAIN new : i - k \in DOMAIN new[k].calls
  <2>1. CASE i = Len(msgs) + 1
    <3>1. i - last = n + 1 /\ last \in DOMAIN new
      BY <1>1, <1>2, <2>1
    <3> QED BY <1>2, <3>1
  <2>2. CASE i # Len(msgs) + 1
    <3>1. i \in DOMAIN msgs /\ new[i] = msgs[i]
      BY <1>1, <2>2
    <3>2. PICK k \in DOMAIN msgs : i - k \in DOMAIN msgs[k].calls
      BY <1>4, <3>1 DEF Conversation
    <3>3. k \in DOMAIN new /\ new[k] = msgs[k]
      BY <1>1
    <3> QED BY <3>2, <3>3
  <2> QED BY <2>1, <2>2
<1> QED BY <1>3, <1>4 DEF Conversation, new

\* What CallsInv says of one process.
LEMMA CallsNext ==
  ASSUME TypeInv, HandleInv, SpokenInv, CallsInv, [Next]_vars
  PROVE  CallsInv'
<1> DEFINE Told(h, where) ==
      /\ where = "model" => Conversation(h.messages, 0, 0)
      /\ where = "tools" =>
           /\ Conversation(h.messages, Len(h.messages) - h.answered, h.answered)
           /\ Len(h.messages) - h.answered \in DOMAIN h.messages
           /\ h.messages[Len(h.messages) - h.answered].calls = h.request
<1>0. /\ pc \in [Procs -> {"off", "idle"} \cup Busy] /\ handle \in [Procs -> HandleType]
      /\ \A q \in Procs : Told(handle[q], pc[q])
  BY DEF TypeInv, CallsInv
<1>1. SUFFICES ASSUME NEW q \in Procs PROVE Told(handle'[q], pc'[q])
  BY DEF CallsInv
<1>2. ASSUME handle'[q] = handle[q], pc'[q] = pc[q]
      PROVE  Told(handle'[q], pc'[q])
  BY <1>0, <1>2
<1> HIDE DEF Told
<1>3. CASE UNCHANGED vars
  BY <1>2, <1>3 DEF vars
<1>4. ASSUME NEW p \in Procs, StartRun(p)
      PROVE  Told(handle'[q], pc'[q])
  <2>1. pc' = [pc EXCEPT ![p] = "idle"] /\ handle' = handle
    BY <1>4 DEF StartRun, Goto
  <2>2. CASE p = q
    <3>1. pc'[q] = "idle"
      BY <1>0, <2>1, <2>2
    <3> QED BY <3>1 DEF Told
  <2>3. CASE p # q
    BY <1>0, <1>2, <2>1, <2>3
  <2> QED BY <2>2, <2>3
<1>5. ASSUME NEW p \in Procs, NEW a \in MyAgents(p), Handle(p, a)
      PROVE  Told(handle'[q], pc'[q])
  <2>1. PICK h \in HandleType :
          /\ handle' = [handle EXCEPT ![p] = h] /\ h.history = Loaded(p, a)
          /\ h.messages = Loaded(p, a) \o Question(Len(owner) + 1)
    BY <1>5, Begun
  <2>2. /\ pc' = [pc EXCEPT ![p] = "model"] /\ a \in Agents
        /\ run[p].session \in Sessions /\ Len(owner) + 1 \in Turns
    BY <1>5, Begun
  <2>3. CASE p = q
    <3> DEFINE turn == Len(owner) + 1
    <3>1. handle'[q] = h /\ pc'[q] = "model"
      BY <1>0, <2>1, <2>2, <2>3
    <3>2. Loaded(p, a) \in Seq(Message)
      BY <2>1 DEF HandleType
    <3>3. \A k \in DOMAIN Loaded(p, a) : Spoken(Loaded(p, a)[k])
      <4>1. CASE a.memory
        BY <2>2, <4>1, SlotType DEF Loaded, SpokenInv
      <4>2. CASE ~a.memory
        BY <4>2 DEF Loaded
      <4> QED BY <4>1, <4>2
    <3>4. /\ Question(turn) \in Seq(Message)
          /\ \A k \in DOMAIN Question(turn) : Spoken(Question(turn)[k])
      <4>1. Plain("user", turn) \in Message /\ Spoken(Plain("user", turn))
        BY <2>2, PlainType DEF Spoken, Plain
      <4>2. CASE Question(turn) = <<>>
        <5>1. <<>> \in Seq(Message) /\ DOMAIN <<>> = {}
          OBVIOUS
        <5> QED BY <4>2, <5>1
      <4>3. PICK u \in Message : u = Plain("user", turn) /\ Spoken(u)
        BY <4>1
      <4>4. CASE Question(turn) = <<u>>
        <5>1. DOMAIN <<u>> = {1} /\ <<u>>[1] = u /\ <<u>> \in Seq(Message)
          OBVIOUS
        <5> QED BY <4>3, <4>4, <5>1
      <4>5. Question(turn) = <<>> \/ Question(turn) = <<u>>
        BY <4>3 DEF Question
      <4> QED BY <4>2, <4>4, <4>5
    <3> HIDE DEF turn
    <3>5. \A k \in DOMAIN h.messages : Spoken(h.messages[k])
      <4>0. h.messages = Loaded(p, a) \o Question(turn)
        BY <2>1 DEF turn
      <4>1. /\ DOMAIN h.messages = 1..(Len(Loaded(p, a)) + Len(Question(turn)))
            /\ \A i \in 1..(Len(Loaded(p, a)) + Len(Question(turn))) :
                 h.messages[i] = IF i <= Len(Loaded(p, a)) THEN Loaded(p, a)[i]
                                 ELSE Question(turn)[i - Len(Loaded(p, a))]
            /\ DOMAIN Loaded(p, a) = 1..Len(Loaded(p, a))
            /\ DOMAIN Question(turn) = 1..Len(Question(turn))
            /\ Len(Loaded(p, a)) \in Nat /\ Len(Question(turn)) \in Nat
        BY <3>2, <3>4, <4>0, ConcatProperties, LenProperties
      <4>2. ASSUME NEW k \in DOMAIN h.messages PROVE Spoken(h.messages[k])
        <5>1. CASE k <= Len(Loaded(p, a))
          <6>1. k \in DOMAIN Loaded(p, a) /\ h.messages[k] = Loaded(p, a)[k]
            BY <4>1, <5>1
          <6> QED BY <3>3, <6>1
        <5>2. CASE ~(k <= Len(Loaded(p, a)))
          <6>1. /\ k - Len(Loaded(p, a)) \in DOMAIN Question(turn)
                /\ h.messages[k] = Question(turn)[k - Len(Loaded(p, a))]
            BY <4>1, <5>2
          <6> QED BY <3>4, <6>1
        <5> QED BY <5>1, <5>2
      <4> QED BY <4>2
    <3> QED BY <3>1, <3>5, SpokenConversation DEF Told
  <2>4. CASE p # q
    BY <1>0, <1>2, <2>1, <2>2, <2>4
  <2> QED BY <2>3, <2>4
<1>6. ASSUME NEW p \in Procs, Quits(p)
      PROVE  Told(handle'[q], pc'[q])
  <2>1. pc' = [pc EXCEPT ![p] = "off"] /\ handle' = [handle EXCEPT ![p] = NoHandle]
    BY <1>6, Left DEF Exit, Goto
  <2>2. CASE p = q
    <3>1. pc'[q] = "off"
      BY <1>0, <2>1, <2>2
    <3> QED BY <3>1 DEF Told
  <2>3. CASE p # q
    BY <1>0, <1>2, <2>1, <2>3
  <2> QED BY <2>2, <2>3
<1>7. ASSUME NEW p \in Procs, Step(p), ~IterationsExceeded(p)
      PROVE  Told(handle'[q], pc'[q])
  <2>1. CASE ModelAnswers(p) \/ SaveInMemory(p) \/ Truncate(p) \/ Write(p) \/ Emit(p)
    <3>1. /\ \E where \in {"save", "emit", "write", "idle"} : pc' = [pc EXCEPT ![p] = where]
          /\ \E h : handle' = [handle EXCEPT ![p] = h]
      BY <1>0, <2>1 DEF ModelAnswers, SaveInMemory, Truncate, Write, Emit, Goto
    <3>2. CASE p = q
      <4>1. pc'[q] # "model" /\ pc'[q] # "tools"
        BY <1>0, <3>1, <3>2
      <4> QED BY <4>1 DEF Told
    <3>3. CASE p # q
      BY <1>0, <1>2, <3>1, <3>3
    <3> QED BY <3>2, <3>3
  <2>2. CASE ModelAsksForTools(p)
    <3>1. PICK h \in HandleType, calls \in Seq(Call), m \in Message :
            /\ handle' = [handle EXCEPT ![p] = h]
            /\ h.request = calls /\ h.answered = 0
            /\ h.messages = Append(handle[p].messages, m)
            /\ m.role = "assistant" /\ m.calls = calls
      BY <2>2, Asked
    <3>2. pc' = [pc EXCEPT ![p] = "tools"] /\ pc[p] = "model"
      BY <2>2 DEF ModelAsksForTools, Goto
    <3>3. CASE p = q
      <4>1. handle'[q] = h /\ pc'[q] = "tools"
        BY <1>0, <3>1, <3>2, <3>3
      <4>2. handle[p].messages \in Seq(Message) /\ Conversation(handle[p].messages, 0, 0)
        BY <1>0, <3>2 DEF HandleType, Told
      <4>3. /\ Len(h.messages) = Len(handle[p].messages) + 1
            /\ Len(handle[p].messages) \in Nat
            /\ Len(h.messages) \in DOMAIN h.messages
            /\ h.messages[Len(h.messages)] = m
        BY <3>1, <4>2, AppendIs
      <4>4. Conversation(h.messages, Len(h.messages), 0)
        BY <3>1, <4>2, <4>3, ConversationAsks
      <4>5. Len(h.messages) - h.answered = Len(h.messages)
        BY <3>1, <4>3
      <4> QED BY <3>1, <4>1, <4>3, <4>4, <4>5 DEF Told
    <3>4. CASE p # q
      BY <1>0, <1>2, <3>1, <3>2, <3>4
    <3> QED BY <3>3, <3>4
  <2>3. CASE RunTool(p)
    <3>1. PICK h \in HandleType, m \in Message :
            /\ handle' = [handle EXCEPT ![p] = h]
            /\ h.request = handle[p].request /\ h.answered = handle[p].answered + 1
            /\ h.messages = Append(handle[p].messages, m)
            /\ m.role = "tool" /\ m.calls = <<>> /\ m.id # NoId
            /\ NextCall(handle[p]).id \in {NoId, m.id}
      BY <2>3, ToolRun
    <3>2. pc' = pc /\ pc[p] = "tools" /\ handle[p].answered < Len(handle[p].request)
      BY <2>3 DEF RunTool, MoreCalls
    <3>3. CASE p = q
      <4> DEFINE msgs == handle[p].messages
                 n == handle[p].answered
                 last == Len(msgs) - n
      <4>1. handle'[q] = h /\ pc'[q] = "tools"
        BY <1>0, <3>1, <3>2, <3>3
      <4>2. /\ msgs \in Seq(Message) /\ n \in Nat /\ handle[p].request \in Seq(Call)
            /\ Conversation(msgs, last, n) /\ last \in DOMAIN msgs
            /\ msgs[last].calls = handle[p].request
        BY <1>0, <3>2 DEF HandleType, Told
      <4>3. /\ Len(msgs) \in Nat /\ DOMAIN msgs = 1..Len(msgs)
            /\ n + 1 \in DOMAIN handle[p].request
        BY <3>2, <4>2, LenProperties
      <4>4. n < Len(msgs)
        BY <4>2, <4>3
      <4>5. msgs[last].calls[n + 1].id \in {NoId, m.id}
        BY <3>1, <4>2 DEF NextCall
      <4>6. Conversation(Append(msgs, m), last, n + 1)
        BY <3>1, <4>2, <4>3, <4>4, <4>5, ConversationRuns
      <4>7. /\ Len(h.messages) - h.answered = last /\ last \in DOMAIN h.messages
            /\ h.messages[last] = msgs[last]
        BY <3>1, <4>2, <4>3, AppendIs
      <4> QED BY <3>1, <4>1, <4>2, <4>6, <4>7 DEF Told
    <3>4. CASE p # q
      BY <1>0, <1>2, <3>1, <3>2, <3>4
    <3> QED BY <3>3, <3>4
  <2>4. CASE NextRound(p)
    <3>1. PICK h \in HandleType :
            handle' = [handle EXCEPT ![p] = h] /\ h.messages = handle[p].messages
      BY <2>4, RoundOver
    <3>2. /\ pc' = [pc EXCEPT ![p] = "model"] /\ pc[p] = "tools"
          /\ ~(handle[p].answered < Len(handle[p].request))
      BY <2>4 DEF NextRound, MoreCalls, Goto
    <3>3. CASE p = q
      <4> DEFINE msgs == handle[p].messages
                 last == Len(msgs) - handle[p].answered
      <4>1. handle'[q] = h /\ pc'[q] = "model"
        BY <1>0, <3>1, <3>2, <3>3
      <4>2. /\ msgs \in Seq(Message) /\ handle[p].answered \in Nat
            /\ handle[p].request \in Seq(Call)
            /\ Conversation(msgs, last, handle[p].answered)
            /\ msgs[last].calls = handle[p].request
        BY <1>0, <3>2 DEF HandleType, Told
      <4>3. \A j \in DOMAIN handle[p].request : ~(j > handle[p].answered)
        BY <3>2, <4>2, LenProperties
      <4>4. Conversation(msgs, 0, 0)
        BY <4>2, <4>3 DEF Conversation
      <4> QED BY <3>1, <4>1, <4>4 DEF Told
    <3>4. CASE p # q
      BY <1>0, <1>2, <3>1, <3>2, <3>4
    <3> QED BY <3>3, <3>4
  <2> QED BY <1>7, <2>1, <2>2, <2>3, <2>4 DEF Step
<1>8. CASE Next
  BY <1>4, <1>5, <1>6, <1>7, <1>8 DEF Next, Quits
<1> QED BY <1>3, <1>8

LEMMA InitSpoken ==
  Init => SpokenInv /\ CallsInv
  BY DEF Init, SpokenInv, CallsInv, NoHandle

LEMMA SpokenHolds == Spec => [](TypeInv /\ HandleInv /\ SpokenInv /\ CallsInv)
<1>1. /\ TypeInv /\ HandleInv /\ SpokenInv /\ CallsInv /\ [Next]_vars
      => TypeInv' /\ HandleInv' /\ SpokenInv' /\ CallsInv'
  BY NextTypes, SpokenNext, CallsNext
<1> QED BY <1>1, InitTypes, InitSpoken, PTL DEF Spec

\* What Ollama's client makes of a conversation: the same messages and the
\* same calls, without their ids.
LEMMA WireIs ==
  ASSUME NEW provider, NEW msgs \in Seq(Message)
  PROVE  LET wire == toMessages(provider, msgs) IN
         /\ DOMAIN wire = DOMAIN msgs
         /\ provider # "ollama" => wire = msgs
         /\ \A k \in DOMAIN msgs :
              /\ wire[k].role = msgs[k].role
              /\ DOMAIN wire[k].calls = DOMAIN msgs[k].calls
              /\ wire[k].calls = <<>> <=> DOMAIN wire[k].calls = {}
              /\ provider = "ollama" =>
                   \A j \in DOMAIN msgs[k].calls : wire[k].calls[j].id = NoId
<1> DEFINE wire == toMessages(provider, msgs)
<1>1. CASE provider # "ollama"
  <2>1. wire = msgs
    BY <1>1 DEF toMessages
  <2>2. ASSUME NEW k \in DOMAIN msgs
        PROVE  msgs[k].calls = <<>> <=> DOMAIN msgs[k].calls = {}
    <3>1. msgs[k] \in Message
      BY ElementOfSeq, LenProperties
    <3>2. PICK calls \in Seq(Call) : calls = msgs[k].calls
      BY <3>1 DEF Message, Call
    <3>3. DOMAIN calls = {} => calls = <<>>
      BY EmptySeq, LenProperties
    <3>4. calls = <<>> => DOMAIN calls = {}
      OBVIOUS
    <3> QED BY <3>2, <3>3, <3>4
  <2> QED BY <1>1, <2>1, <2>2
<1>2. CASE provider = "ollama"
  <2>1. wire = [k \in DOMAIN msgs |-> [msgs[k] EXCEPT !.id = NoId, !.calls = WithoutIds(@)]]
    BY <1>2 DEF toMessages
  <2>2. ASSUME NEW k \in DOMAIN msgs
        PROVE  /\ wire[k].role = msgs[k].role
               /\ DOMAIN wire[k].calls = DOMAIN msgs[k].calls
               /\ wire[k].calls = <<>> <=> DOMAIN wire[k].calls = {}
               /\ \A j \in DOMAIN msgs[k].calls : wire[k].calls[j].id = NoId
    <3>1. msgs[k] \in Message
      BY ElementOfSeq, LenProperties
    <3>2. PICK calls \in Seq(Call) : calls = msgs[k].calls
      BY <3>1 DEF Message, Call
    <3>3. wire[k] = [msgs[k] EXCEPT !.id = NoId, !.calls = WithoutIds(@)]
      BY <2>1
    <3>4. wire[k].role = msgs[k].role /\ wire[k].calls = WithoutIds(calls)
      BY <3>1, <3>2, <3>3 DEF Message
    <3>5. \A j \in DOMAIN calls : [calls[j] EXCEPT !.id = NoId].id = NoId
      <4> TAKE j \in DOMAIN calls
      <4>1. calls[j] \in Call
        BY ElementOfSeq, LenProperties
      <4> QED BY <4>1 DEF Call
    <3>6. /\ DOMAIN WithoutIds(calls) = DOMAIN calls
          /\ \A j \in DOMAIN calls : WithoutIds(calls)[j].id = NoId
      BY <3>5 DEF WithoutIds
    <3>7. WithoutIds(calls) = <<>> <=> DOMAIN WithoutIds(calls) = {}
      <4>1. DOMAIN calls = {} => calls = <<>>
        BY EmptySeq, LenProperties
      <4>2. calls = <<>> => WithoutIds(calls) = <<>>
        BY DEF WithoutIds
      <4> QED BY <3>6, <4>1, <4>2
    <3> QED BY <3>2, <3>4, <3>6, <3>7
  <2> QED BY <1>2, <2>1, <2>2
<1> QED BY <1>1, <1>2

LEMMA ConversationIsAnswered ==
  ASSUME TypeInv, CallsInv
  PROVE  ToolCallsAnswered
<1> SUFFICES ASSUME NEW p \in Procs, pc[p] = "model"
    PROVE  LET provider == Provider(p)
               wire == toMessages(provider, handle[p].messages)
               asked == {k \in DOMAIN wire : wire[k].calls # <<>>}
               resultOf(k, j) == k + j \in DOMAIN wire /\ wire[k + j].role = "tool"
           IN  /\ \A k \in asked : \A j \in DOMAIN wire[k].calls :
                    /\ resultOf(k, j)
                    /\ wire[k].calls[j].id \in {NoId, wire[k + j].id}
                    /\ provider = "openai" => wire[k + j].id # NoId
               /\ \A i \in DOMAIN wire : wire[i].role = "tool" =>
                    \E k \in asked : i - k \in DOMAIN wire[k].calls
  BY DEF ToolCallsAnswered
<1> DEFINE provider == Provider(p)
           msgs == handle[p].messages
           wire == toMessages(provider, msgs)
<1>1. msgs \in Seq(Message) /\ Conversation(msgs, 0, 0)
  BY DEF TypeInv, HandleType, CallsInv
<1>2. /\ DOMAIN wire = DOMAIN msgs
      /\ provider # "ollama" => wire = msgs
      /\ \A k \in DOMAIN msgs :
           /\ wire[k].role = msgs[k].role
           /\ DOMAIN wire[k].calls = DOMAIN msgs[k].calls
           /\ wire[k].calls = <<>> <=> DOMAIN wire[k].calls = {}
           /\ provider = "ollama" =>
                \A j \in DOMAIN msgs[k].calls : wire[k].calls[j].id = NoId
  BY <1>1, WireIs
<1> HIDE DEF wire, provider
<1>3. ASSUME NEW k \in DOMAIN wire, NEW j \in DOMAIN wire[k].calls
      PROVE  /\ k + j \in DOMAIN wire /\ wire[k + j].role = "tool"
             /\ wire[k].calls[j].id \in {NoId, wire[k + j].id}
             /\ provider = "openai" => wire[k + j].id # NoId
  <2>1. k # 0
    BY <1>1, <1>2, LenProperties
  <2>2. Answered(msgs, k, j)
    BY <1>1, <1>2, <2>1 DEF Conversation
  <2>3. k + j \in DOMAIN wire /\ wire[k + j].role = "tool"
    BY <1>2, <2>2 DEF Answered
  <2>4. CASE provider = "ollama"
    BY <1>2, <2>3, <2>4
  <2>5. CASE provider # "ollama"
    BY <1>2, <2>2, <2>3, <2>5 DEF Answered
  <2> QED BY <2>4, <2>5
<1>4. ASSUME NEW i \in DOMAIN wire, wire[i].role = "tool"
      PROVE  \E k \in DOMAIN wire : wire[k].calls # <<>> /\ i - k \in DOMAIN wire[k].calls
  <2>1. PICK k \in DOMAIN msgs : i - k \in DOMAIN msgs[k].calls
    BY <1>1, <1>2, <1>4 DEF Conversation
  <2> QED BY <1>2, <2>1
<1> QED BY <1>3, <1>4 DEF wire, provider

\* Whenever the model is asked, every tool call of the conversation is
\* followed by its one result, under its id where the provider transmits ids,
\* and no result stands anywhere else, whatever the models asked for and
\* however many rounds and processes there are (handleWithTools, agent.go).
THEOREM ToolCallsAnsweredHolds == Spec => []ToolCallsAnswered
  BY SpokenHolds, ConversationIsAnswered, PTL

------------------------------------------------------------------------------
(* Whose turns they are (SessionsApart). *)

\* The owner o may keep its history in the slot s.
Belongs(s, o) ==
  \E a \in Remembering :
    \/ \E p \in Procs : /\ s = <<p, memoryKey(NoSession, a)>>
                        /\ o = <<p, NoSession, a.architecture, a.component>>
    \/ \E t \in Sessions \ {NoSession} :
         /\ s = <<"file", safeFilename(memoryKey(t, a))>>
         /\ o = <<"file", t, a.architecture, a.component>>

OwnerInv ==
  /\ \A s \in Slots : \A k \in DOMAIN store[s] : Belongs(s, owner[store[s][k].turn])
  /\ \A p \in Procs : pc[p] \in Busy => owner[handle[p].turn] = Owner(p, handle[p].agent)
  /\ SessionsApart

\* The map of a process that runs with a session, or not at all, is empty.
MapInv ==
  \A p \in Procs : pc[p] = "off" \/ run[p].session # NoSession =>
    \A s \in Slots : s[1] = p => store[s] = <<>>

\* The names with which a key tells its session, architecture and component
\* apart: the first two hold no separator of memoryKey, and none of the three
\* a part that safeFilename replaces.
PlainNames ==
  LET Without(name, parts) == \A i \in DOMAIN name : name[i] \notin parts
  IN  /\ \A t \in Sessions : Without(t, {":", "/", "\\", ".."})
      /\ \A a \in Agents : /\ Without(a.architecture, {":", "/", "\\", ".."})
                           /\ Without(a.component, {"/", "\\", ".."})

LEMMA OneElement ==
  ASSUME NEW S, NEW c \in S
  PROVE  <<c>> \in Seq(S) /\ Len(<<c>>) = 1 /\ DOMAIN <<c>> = {1} /\ <<c>>[1] = c
  OBVIOUS

Glued(x, c, y) == (x \o <<c>>) \o y

IsCut(key, x, c, y) ==
  /\ Len(key) = Len(x) + 1 + Len(y)
  /\ \A i \in 1..Len(x) : key[i] = x[i]
  /\ key[Len(x) + 1] = c
  /\ \A i \in 1..Len(y) : key[Len(x) + 1 + i] = y[i]
  /\ Len(x) \in Nat /\ Len(y) \in Nat

LEMMA Cut ==
  ASSUME NEW S, NEW x \in Seq(S), NEW y \in Seq(S), NEW c \in S
  PROVE  IsCut(Glued(x, c, y), x, c, y)
<1> DEFINE one == <<c>>
           xc == x \o one
           key == xc \o y
<1>0. Glued(x, c, y) = key
  BY DEF Glued
<1>1. one \in Seq(S) /\ Len(one) = 1 /\ one[1] = c
  BY OneElement
<1> HIDE DEF one
<1>2. Len(x) \in Nat /\ Len(y) \in Nat
  BY LenProperties
<1>3. /\ xc \in Seq(S) /\ Len(xc) = Len(x) + 1
      /\ \A i \in 1..(Len(x) + 1) : xc[i] = IF i <= Len(x) THEN x[i] ELSE one[i - Len(x)]
  <2>1. /\ xc \in Seq(S) /\ Len(xc) = Len(x) + Len(one)
        /\ \A i \in 1..Len(x) + Len(one) :
             xc[i] = IF i <= Len(x) THEN x[i] ELSE one[i - Len(x)]
    BY <1>1, ConcatProperties
  <2> QED BY <1>1, <2>1
<1> HIDE DEF xc
<1>4. /\ Len(key) = Len(x) + 1 + Len(y)
      /\ \A i \in 1..(Len(x) + 1 + Len(y)) : key[i] =
           IF i <= Len(x) + 1 THEN xc[i] ELSE y[i - (Len(x) + 1)]
  <2>1. /\ Len(key) = Len(xc) + Len(y)
        /\ \A i \in 1..Len(xc) + Len(y) :
             key[i] = IF i <= Len(xc) THEN xc[i] ELSE y[i - Len(xc)]
    <3>1. xc \in Seq(S)
      BY <1>3
    <3> QED BY <3>1, ConcatProperties
  <2> QED BY <1>3, <2>1
<1> HIDE DEF key
<1>5. ASSUME NEW i \in 1..Len(y) PROVE key[Len(x) + 1 + i] = y[i]
  <2>1. /\ Len(x) + 1 + i \in 1..(Len(x) + 1 + Len(y)) /\ ~(Len(x) + 1 + i <= Len(x) + 1)
        /\ (Len(x) + 1 + i) - (Len(x) + 1) = i
    BY <1>2
  <2> QED BY <1>4, <2>1
<1>6. ASSUME NEW i \in 1..(Len(x) + 1)
      PROVE  key[i] = IF i <= Len(x) THEN x[i] ELSE one[i - Len(x)]
  <2>1. i \in 1..(Len(x) + 1 + Len(y)) /\ i <= Len(x) + 1
    BY <1>2
  <2> QED BY <1>3, <1>4, <2>1
<1>7. \A i \in 1..Len(x) : key[i] = x[i]
  BY <1>2, <1>6
<1>8. key[Len(x) + 1] = c
  <2>1. /\ Len(x) + 1 \in 1..(Len(x) + 1) /\ ~(Len(x) + 1 <= Len(x))
        /\ (Len(x) + 1) - Len(x) = 1
    BY <1>2
  <2> QED BY <1>1, <1>6, <2>1
<1> QED BY <1>0, <1>2, <1>4, <1>5, <1>7, <1>8 DEF IsCut

\* What a key is made of.
Part == STRING \cup {":"}

LEMMA NamesOfParts ==
  ASSUME NEW x \in Seq(STRING)
  PROVE  x \in Seq(Part)
<1>1. x \in [1..Len(x) -> STRING] /\ Len(x) \in Nat
  BY LenProperties
<1>2. x \in [1..Len(x) -> Part]
  BY <1>1 DEF Part
<1> QED BY <1>1, <1>2

\* A sequence is cut in two at the first of a separator in it.
LEMMA FirstSeparator ==
  ASSUME NEW S, NEW x1 \in Seq(S), NEW y1 \in Seq(S), NEW c \in S,
         NEW x2 \in Seq(S), NEW y2 \in Seq(S),
         \A i \in DOMAIN x1 : x1[i] # c, \A i \in DOMAIN x2 : x2[i] # c
  PROVE  Glued(x1, c, y1) = Glued(x2, c, y2) => x1 = x2 /\ y1 = y2
<1>1. IsCut(Glued(x1, c, y1), x1, c, y1)
  BY Cut
<1>2. IsCut(Glued(x2, c, y2), x2, c, y2)
  BY Cut
<1> SUFFICES ASSUME NEW key, IsCut(key, x1, c, y1), IsCut(key, x2, c, y2)
             PROVE  x1 = x2 /\ y1 = y2
  BY <1>1, <1>2
<1>3. /\ Len(key) = Len(x1) + 1 + Len(y1) /\ Len(key) = Len(x2) + 1 + Len(y2)
      /\ \A i \in 1..Len(x1) : key[i] = x1[i]
      /\ \A i \in 1..Len(x2) : key[i] = x2[i]
      /\ key[Len(x1) + 1] = c /\ key[Len(x2) + 1] = c
      /\ \A i \in 1..Len(y1) : key[Len(x1) + 1 + i] = y1[i]
      /\ \A i \in 1..Len(y2) : key[Len(x2) + 1 + i] = y2[i]
      /\ Len(x1) \in Nat /\ Len(x2) \in Nat /\ Len(y1) \in Nat /\ Len(y2) \in Nat
  BY DEF IsCut
<1>4. DOMAIN x1 = 1..Len(x1) /\ DOMAIN x2 = 1..Len(x2)
  BY LenProperties
<1>5. Len(x1) = Len(x2)
  <2>1. ~(Len(x1) < Len(x2))
    <3> SUFFICES ASSUME Len(x1) < Len(x2) PROVE FALSE
      OBVIOUS
    <3>1. Len(x1) + 1 \in DOMAIN x2
      BY <1>3, <1>4
    <3> QED BY <1>3, <1>4, <3>1
  <2>2. ~(Len(x2) < Len(x1))
    <3> SUFFICES ASSUME Len(x2) < Len(x1) PROVE FALSE
      OBVIOUS
    <3>1. Len(x2) + 1 \in DOMAIN x1
      BY <1>3, <1>4
    <3> QED BY <1>3, <1>4, <3>1
  <2> QED BY <1>3, <2>1, <2>2
<1>6. Len(y1) = Len(y2)
  BY <1>3, <1>5
<1>7. \A i \in 1..Len(x1) : x1[i] = x2[i]
  BY <1>3, <1>5
<1>8. \A i \in 1..Len(y1) : y1[i] = y2[i]
  BY <1>3, <1>5, <1>6
<1> QED BY <1>5, <1>6, <1>7, <1>8, SeqEqual

\* The keys of an agent, with and without a session.
LEMMA KeysApart ==
  ASSUME PlainNames, NEW a \in Agents, NEW b \in Agents
  PROVE  /\ memoryKey(NoSession, a) = memoryKey(NoSession, b) =>
              a.architecture = b.architecture /\ a.component = b.component
         /\ \A t, u \in Sessions \ {NoSession} :
              memoryKey(t, a) = memoryKey(u, b) =>
                t = u /\ a.architecture = b.architecture /\ a.component = b.component
<1> DEFINE colon == <<":">>
           tail(x) == Glued(x.architecture, ":", x.component)
<1>0. colon \in Seq(Part) /\ <<>> \in Seq(Part) /\ ":" \in Part
  <2>1. ":" \in Part
    BY DEF Part
  <2> QED BY <2>1, OneElement, EmptySeq
<1> HIDE DEF colon
<1>1. ASSUME NEW x \in Agents
      PROVE  /\ x.architecture \in Seq(Part) /\ x.component \in Seq(Part)
             /\ x.architecture \o colon \in Seq(Part)
             /\ tail(x) \in Seq(Part) /\ \A i \in DOMAIN x.architecture : x.architecture[i] # ":"
  <2>1. x.architecture \in Seq(Part) /\ x.component \in Seq(Part)
    BY AgentAssumption, NamesOfParts DEF Agent
  <2>2. \A i \in DOMAIN x.architecture : x.architecture[i] # ":"
    BY DEF PlainNames
  <2>3. x.architecture \o colon \in Seq(Part)
    BY <1>0, <2>1, ConcatProperties
  <2>4. (x.architecture \o colon) \o x.component \in Seq(Part)
    BY <2>1, <2>3, ConcatProperties
  <2>5. tail(x) \in Seq(Part)
    BY <2>4 DEF Glued, colon
  <2> QED BY <2>1, <2>2, <2>3, <2>5
<1>2. tail(a) = tail(b) => a.architecture = b.architecture /\ a.component = b.component
  <2>1. /\ a.architecture \in Seq(Part) /\ a.component \in Seq(Part)
        /\ b.architecture \in Seq(Part) /\ b.component \in Seq(Part)
        /\ \A i \in DOMAIN a.architecture : a.architecture[i] # ":"
        /\ \A i \in DOMAIN b.architecture : b.architecture[i] # ":"
    BY <1>1
  <2> QED BY <1>0, <2>1, FirstSeparator
<1>3. ASSUME NEW x \in Agents PROVE memoryKey(NoSession, x) = tail(x)
  <2>1. <<>> \o x.architecture = x.architecture
    BY <1>1, ConcatEmptySeq
  <2> QED BY <2>1 DEF memoryKey, Glued
<1>4. ASSUME NEW x \in Agents, NEW t \in Sessions \ {NoSession}
      PROVE  memoryKey(t, x) = Glued(t, ":", tail(x)) /\ t \in Seq(Part)
  <2>1. t \in Seq(Part)
    BY AgentAssumption, NamesOfParts
  <2> DEFINE s == t \o colon
             A == x.architecture
             C == x.component
  <2>2. s \in Seq(Part) /\ A \in Seq(Part) /\ C \in Seq(Part)
    BY <1>0, <1>1, <2>1, ConcatProperties
  <2>3. memoryKey(t, x) = ((s \o A) \o colon) \o C
    BY DEF memoryKey, colon
  <2>t. tail(x) = (A \o colon) \o C
    BY DEF Glued, colon
  <2>g. Glued(t, ":", tail(x)) = s \o tail(x)
    BY DEF Glued, colon
  <2> HIDE DEF s, A, C
  <2>4. (s \o A) \o colon = s \o (A \o colon)
    BY <1>0, <2>2, ConcatAssociative
  <2>5. (s \o (A \o colon)) \o C = s \o ((A \o colon) \o C)
    <3>1. PICK front \in Seq(Part) : front = A \o colon
      BY <1>0, <2>2, ConcatProperties
    <3>2. (s \o front) \o C = s \o (front \o C)
      BY <2>2, ConcatAssociative
    <3> QED BY <3>1, <3>2
  <2>6. memoryKey(t, x) = s \o tail(x)
    BY <2>3, <2>4, <2>5, <2>t
  <2> QED BY <2>1, <2>6, <2>g
<1> HIDE DEF tail
<1>5. ASSUME NEW t \in Sessions \ {NoSession}, NEW u \in Sessions \ {NoSession},
             memoryKey(t, a) = memoryKey(u, b)
      PROVE  t = u /\ a.architecture = b.architecture /\ a.component = b.component
  <2>1. Glued(t, ":", tail(a)) = Glued(u, ":", tail(b))
    BY <1>4, <1>5
  <2>2. /\ t \in Seq(Part) /\ u \in Seq(Part)
        /\ \A i \in DOMAIN t : t[i] # ":"
        /\ \A i \in DOMAIN u : u[i] # ":"
    BY <1>4 DEF PlainNames
  <2>3. tail(a) \in Seq(Part) /\ tail(b) \in Seq(Part)
    BY <1>1
  <2>4. t = u /\ tail(a) = tail(b)
    BY <1>0, <2>1, <2>2, <2>3, FirstSeparator
  <2> QED BY <1>2, <2>4
<1> QED BY <1>2, <1>3, <1>5

\* Nothing of a key is replaced in a file name.
LEMMA FilenameIsKey ==
  ASSUME PlainNames, NEW a \in Agents, NEW t \in Sessions \ {NoSession}
  PROVE  safeFilename(memoryKey(t, a)) = memoryKey(t, a)
<1> DEFINE Bad == {"/", "\\", ".."}
           Fine(s) == s \in Seq(Part) /\ \A i \in DOMAIN s : s[i] \notin Bad
<1>1. Fine(t) /\ Fine(a.architecture) /\ Fine(a.component) /\ Fine(<<":">>)
  <2>1. t \in Seq(Part) /\ a.architecture \in Seq(Part) /\ a.component \in Seq(Part)
    BY AgentAssumption, NamesOfParts DEF Agent
  <2>2. <<":">> \in Seq(Part) /\ DOMAIN <<":">> = {1} /\ <<":">>[1] = ":"
    <3>1. ":" \in Part
      BY DEF Part
    <3> QED BY <3>1, OneElement
  <2> QED BY <2>1, <2>2 DEF PlainNames
<1> HIDE DEF Bad
<1>2. ASSUME NEW x, NEW y, Fine(x), Fine(y) PROVE Fine(x \o y)
  <2>1. /\ x \o y \in Seq(Part) /\ DOMAIN (x \o y) = 1..(Len(x) + Len(y))
        /\ \A i \in 1..(Len(x) + Len(y)) :
             (x \o y)[i] = IF i <= Len(x) THEN x[i] ELSE y[i - Len(x)]
        /\ DOMAIN x = 1..Len(x) /\ DOMAIN y = 1..Len(y) /\ Len(x) \in Nat /\ Len(y) \in Nat
    BY <1>2, ConcatProperties, LenProperties
  <2>2. ASSUME NEW i \in 1..(Len(x) + Len(y)) PROVE (x \o y)[i] \notin Bad
    <3>1. CASE i <= Len(x)
      BY <1>2, <2>1, <2>2, <3>1
    <3>2. CASE ~(i <= Len(x))
      <4>1. i - Len(x) \in DOMAIN y /\ (x \o y)[i] = y[i - Len(x)]
        BY <2>1, <2>2, <3>2
      <4> QED BY <1>2, <4>1
    <3> QED BY <3>1, <3>2
  <2> QED BY <2>1, <2>2
<1> HIDE DEF Fine
<1>3. Fine(memoryKey(t, a))
  BY <1>1, <1>2 DEF memoryKey
<1> DEFINE key == memoryKey(t, a)
<1>4. key \in Seq(Part) /\ \A i \in DOMAIN key : key[i] \notin {"/", "\\", ".."}
  BY <1>3 DEF Fine, Bad
<1> HIDE DEF key
<1>5. safeFilename(key) = [i \in DOMAIN key |-> key[i]]
  <2>1. ASSUME NEW i \in DOMAIN key
        PROVE  (IF key[i] \in {"/", "\\", ".."} THEN "_" ELSE key[i]) = key[i]
    <3>1. key[i] \notin {"/", "\\", ".."}
      BY <1>4, Zenon
    <3>2. PICK part : part = key[i]
      OBVIOUS
    <3>3. (IF part \in {"/", "\\", ".."} THEN "_" ELSE part) = part
      BY <3>1, <3>2
    <3> QED BY <3>2, <3>3, Zenon
  <2> QED BY <2>1, Zenon DEF safeFilename
<1>6. key = [i \in DOMAIN key |-> key[i]]
  BY <1>4
<1> QED BY <1>5, <1>6 DEF key

\* A slot belongs to one owner.
LEMMA OneOwner ==
  ASSUME PlainNames, NEW s, NEW o, NEW o2, Belongs(s, o), Belongs(s, o2)
  PROVE  o = o2
<1>1. PICK a \in Remembering :
        \/ \E p \in Procs : /\ s = <<p, memoryKey(NoSession, a)>>
                            /\ o = <<p, NoSession, a.architecture, a.component>>
        \/ \E t \in Sessions \ {NoSession} :
             /\ s = <<"file", safeFilename(memoryKey(t, a))>>
             /\ o = <<"file", t, a.architecture, a.component>>
  BY DEF Belongs
<1>2. PICK b \in Remembering :
        \/ \E p \in Procs : /\ s = <<p, memoryKey(NoSession, b)>>
                            /\ o2 = <<p, NoSession, b.architecture, b.component>>
        \/ \E t \in Sessions \ {NoSession} :
             /\ s = <<"file", safeFilename(memoryKey(t, b))>>
             /\ o2 = <<"file", t, b.architecture, b.component>>
  BY DEF Belongs
<1>3. a \in Agents /\ b \in Agents /\ "file" \notin Procs
  BY AgentAssumption DEF Remembering
<1>4. CASE s[1] = "file"
  <2>1. PICK t \in Sessions \ {NoSession} :
          /\ s = <<"file", safeFilename(memoryKey(t, a))>>
          /\ o = <<"file", t, a.architecture, a.component>>
    BY <1>1, <1>3, <1>4
  <2>2. PICK u \in Sessions \ {NoSession} :
          /\ s = <<"file", safeFilename(memoryKey(u, b))>>
          /\ o2 = <<"file", u, b.architecture, b.component>>
    BY <1>2, <1>3, <1>4
  <2>3. safeFilename(memoryKey(t, a)) = safeFilename(memoryKey(u, b))
    BY <2>1, <2>2
  <2>4. memoryKey(t, a) = memoryKey(u, b)
    BY <1>3, <2>3, FilenameIsKey
  <2> QED BY <1>3, <2>1, <2>2, <2>4, KeysApart
<1>5. CASE s[1] # "file"
  <2>1. PICK p \in Procs : /\ s = <<p, memoryKey(NoSession, a)>>
                           /\ o = <<p, NoSession, a.architecture, a.component>>
    BY <1>1, <1>5
  <2>2. PICK q \in Procs : /\ s = <<q, memoryKey(NoSession, b)>>
                           /\ o2 = <<q, NoSession, b.architecture, b.component>>
    BY <1>2, <1>5
  <2>3. p = q /\ memoryKey(NoSession, a) = memoryKey(NoSession, b)
    BY <2>1, <2>2
  <2> QED BY <1>3, <2>1, <2>2, <2>3, KeysApart
<1> QED BY <1>4, <1>5

\* An owner is named after the place of its history.
LEMMA FirstOfOwner ==
  ASSUME NEW s, NEW o, Belongs(s, o)
  PROVE  o[1] = s[1]
  BY DEF Belongs

LEMMA OwnerIs ==
  ASSUME NEW p \in Procs, NEW a \in Agents, run[p].session \in Sessions
  PROVE  /\ a.memory => Belongs(Slot(p, a), Owner(p, a))
         /\ a.memory => Owner(p, a)[1] \in {p, "file"}
         /\ a.memory => Slot(p, a)[1] = IF run[p].session = NoSession THEN p ELSE "file"
         /\ ~a.memory => Owner(p, a) = Nobody
<1>1. CASE ~a.memory
  BY <1>1 DEF Owner
<1>2. CASE a.memory
  <2>1. a \in Remembering
    BY <1>2 DEF Remembering
  <2>2. CASE run[p].session = NoSession
    <3>1. /\ Slot(p, a) = <<p, memoryKey(NoSession, a)>>
          /\ Owner(p, a) = <<p, NoSession, a.architecture, a.component>>
      BY <1>2, <2>2 DEF Slot, Key, Owner
    <3>2. Belongs(Slot(p, a), Owner(p, a))
      BY <2>1, <3>1 DEF Belongs
    <3> QED BY <1>2, <2>2, <3>1, <3>2
  <2>3. CASE run[p].session # NoSession
    <3>1. /\ Slot(p, a) = <<"file", safeFilename(memoryKey(run[p].session, a))>>
          /\ Owner(p, a) = <<"file", run[p].session, a.architecture, a.component>>
      BY <1>2, <2>3 DEF Slot, Key, Owner
    <3>2. run[p].session \in Sessions \ {NoSession}
      BY <2>3
    <3>3. Belongs(Slot(p, a), Owner(p, a))
      BY <2>1, <3>1, <3>2 DEF Belongs
    <3> QED BY <1>2, <2>3, <3>1, <3>3
  <2> QED BY <2>2, <2>3
<1> QED BY <1>1, <1>2

\* A run starts and ends, and keeps its session in between.
LEMMA RunEffect ==
  ASSUME TypeInv, HandleInv, [Next]_vars, NEW q \in Procs
  PROVE  pc[q] = "off" \/ Quits(q) \/ (pc'[q] # "off" /\ run'[q] = run[q])
<1>0. DOMAIN pc = Procs /\ DOMAIN run = Procs
  BY DEF TypeInv
<1>1. CASE UNCHANGED vars
  BY <1>1 DEF vars
<1>2. ASSUME NEW p \in Procs, StartRun(p)
      PROVE  pc[q] = "off" \/ (pc'[q] # "off" /\ run'[q] = run[q])
  <2>1. pc' = [pc EXCEPT ![p] = "idle"] /\ pc[p] = "off"
    BY <1>2 DEF StartRun, Goto
  <2>2. PICK x : run' = [run EXCEPT ![p] = x]
    BY <1>2 DEF StartRun
  <2>3. CASE p = q
    BY <2>1, <2>3
  <2>4. CASE p # q
    <3>1. pc'[q] = pc[q] /\ run'[q] = run[q]
      BY <1>0, <2>1, <2>2, <2>4
    <3> QED BY <3>1
  <2> QED BY <2>3, <2>4
<1>3. ASSUME NEW p \in Procs, (\E a \in MyAgents(p) : Handle(p, a)) \/ Step(p),
             ~IterationsExceeded(p)
      PROVE  pc[q] = "off" \/ (pc'[q] # "off" /\ run'[q] = run[q])
  <2>1. run' = run /\ (pc' = pc \/ \E x : x # "off" /\ pc' = [pc EXCEPT ![p] = x])
    BY <1>3 DEF Handle, Step, ModelAnswers, ModelAsksForTools, RunTool, NextRound,
                SaveInMemory, Truncate, Write, Emit, Goto
  <2>2. CASE pc' = pc
    BY <2>1, <2>2
  <2>3. ASSUME NEW x, x # "off", pc' = [pc EXCEPT ![p] = x]
        PROVE  pc'[q] \in {pc[q], x}
    BY <1>0, <2>3
  <2> QED BY <2>1, <2>2, <2>3
<1>4. ASSUME NEW p \in Procs, Quits(p)
      PROVE  pc[q] = "off" \/ Quits(q) \/ (pc'[q] # "off" /\ run'[q] = run[q])
  <2>1. pc' = [pc EXCEPT ![p] = "off"] /\ run' = [run EXCEPT ![p] = NoRun]
    BY <1>4, Left DEF Exit, Goto
  <2>2. CASE p = q
    BY <1>4, <2>2
  <2>3. CASE p # q
    BY <1>0, <2>1, <2>3
  <2> QED BY <2>2, <2>3
<1>5. CASE Next
  BY <1>2, <1>3, <1>4, <1>5 DEF Next, Quits
<1> QED BY <1>1, <1>5

\* A process that quits in its file has an empty map.
LEMMA QuitsStore ==
  ASSUME TypeInv, HandleInv, MapInv, NEW p \in Procs, Quits(p),
         NEW s \in Slots, s[1] = p
  PROVE  store'[s] = <<>>
<1>0. DOMAIN store = Slots /\ "file" \notin Procs
  BY AgentAssumption DEF TypeInv
<1>1. CASE store' = StoreWithout(p)
  BY <1>1 DEF StoreWithout
<1>2. CASE InFile(p) /\ store' = store
  BY <1>2 DEF MapInv, InFile
<1>3. ASSUME pc[p] = "write", NEW msgs, store' = [store EXCEPT ![Mine(p)] = msgs]
      PROVE  store'[s] = <<>>
  <2>1. InFile(p) /\ handle[p].agent \in Agents /\ run[p].session \in Sessions
    BY <1>3 DEF HandleInv, Placed, Busy
  <2>2. Mine(p)[1] = "file"
    BY <2>1, OwnerIs DEF Mine, InFile
  <2> QED BY <1>0, <1>3, <2>1, <2>2 DEF MapInv, InFile
<1> QED BY <1>1, <1>2, <1>3, Left

LEMMA MapNext ==
  ASSUME TypeInv, HandleInv, MapInv, [Next]_vars
  PROVE  MapInv'
<1> SUFFICES ASSUME NEW q \in Procs, pc'[q] = "off" \/ run'[q].session # NoSession,
                    NEW s \in Slots, s[1] = q
             PROVE  store'[s] = <<>>
  BY DEF MapInv
<1>0. DOMAIN store = Slots /\ "file" \notin Procs
  BY AgentAssumption DEF TypeInv
<1>1. CASE Quits(q)
  BY <1>1, QuitsStore
<1>2. CASE ~Quits(q)
  <2>1. pc[q] = "off" \/ run[q].session # NoSession
    BY <1>2, RunEffect
  <2>2. store[s] = <<>>
    BY <2>1 DEF MapInv
  <2>3. ASSUME NEW p \in Procs, pc[p] \in {"save", "write"}, handle[p].agent.memory,
               NEW msgs, store' = [store EXCEPT ![Mine(p)] = msgs]
        PROVE  store'[s] = <<>>
    <3>1. handle[p].agent \in Agents /\ run[p].session \in Sessions
      BY <2>3 DEF HandleInv, Placed, Busy
    <3>2. Mine(p)[1] = IF run[p].session = NoSession THEN p ELSE "file"
      BY <2>3, <3>1, OwnerIs DEF Mine
    <3>3. Mine(p) # s
      BY <1>0, <2>1, <2>3, <3>2
    <3> QED BY <1>0, <2>2, <2>3, <3>3
  <2>4. ASSUME NEW p \in Procs, store' = StoreWithout(p)
        PROVE  store'[s] = <<>>
    BY <2>2, <2>4 DEF StoreWithout
  <2> QED BY <2>2, <2>3, <2>4, StoreEffect
<1> QED BY <1>1, <1>2

\* What is loaded belongs to whom it is loaded for.
LEMMA LoadedOwned ==
  ASSUME PlainNames, TypeInv, HandleInv, OwnerInv, NEW p \in Procs, NEW a \in Agents,
         run[p].session \in Sessions, NEW k \in DOMAIN Loaded(p, a)
  PROVE  owner[Loaded(p, a)[k].turn] = Owner(p, a)
<1>1. a.memory
  BY DEF Loaded
<1>2. Loaded(p, a) = store[Slot(p, a)] /\ Slot(p, a) \in Slots
  BY <1>1, SlotType DEF Loaded
<1>3. Belongs(Slot(p, a), owner[Loaded(p, a)[k].turn])
  BY <1>2 DEF OwnerInv
<1>4. Belongs(Slot(p, a), Owner(p, a))
  BY <1>1, OwnerIs
<1> QED BY <1>3, <1>4, OneOwner

\* So does what is stored.
LEMMA StoredOwned ==
  ASSUME TypeInv, HandleInv, OwnerInv, [Next]_vars, NEW s \in Slots, NEW k \in DOMAIN store'[s]
  PROVE  Belongs(s, owner[store'[s][k].turn])
<1>1. ASSUME NEW i \in DOMAIN store[s], store'[s][k] = store[s][i]
      PROVE  Belongs(s, owner[store'[s][k].turn])
  BY <1>1 DEF OwnerInv
<1>2. ASSUME NEW p \in Procs, pc[p] \in {"save", "write"}, handle[p].agent.memory,
             Mine(p) = s
      PROVE  /\ owner[handle[p].turn] = Owner(p, handle[p].agent)
             /\ Belongs(s, Owner(p, handle[p].agent))
             /\ handle[p] \in HandleType /\ handle[p].turn \in Turns
  <2>1. pc[p] \in Busy
    BY <1>2 DEF Busy
  <2>2. Belongs(Mine(p), Owner(p, handle[p].agent))
    BY <1>2, <2>1, HandleTyped, OwnerIs DEF Mine
  <2> QED BY <1>2, <2>1, <2>2, HandleTyped DEF OwnerInv
<1>3. ASSUME NEW p \in Procs, pc[p] \in {"save", "write"}, handle[p].agent.memory,
             Mine(p) = s, NEW i \in DOMAIN handle[p].history,
             store'[s][k] = handle[p].history[i]
      PROVE  Belongs(s, owner[store'[s][k].turn])
  <2>1. owner[handle[p].history[i].turn] = Owner(p, handle[p].agent)
    BY DEF OwnerInv, SessionsApart
  <2> QED BY <1>2, <1>3, <2>1
<1>4. ASSUME NEW p \in Procs, pc[p] \in {"save", "write"}, handle[p].agent.memory,
             Mine(p) = s, store'[s][k] \in New(handle[p])
      PROVE  Belongs(s, owner[store'[s][k].turn])
  <2>1. store'[s][k].turn = handle[p].turn
    BY <1>2, <1>4, NewTurnIs DEF New
  <2> QED BY <1>2, <1>4, <2>1
<1> QED BY <1>1, <1>3, <1>4, StoreFrom

LEMMA OwnerNext ==
  ASSUME PlainNames, TypeInv, HandleInv, OrderInv, OwnerInv, MapInv, [Next]_vars
  PROVE  OwnerInv'
<1>0. "file" \notin Procs /\ Len(owner) \in Nat
  BY AgentAssumption, LenProperties DEF TypeInv
<1>1. ASSUME NEW s \in Slots, NEW k \in DOMAIN store'[s]
      PROVE  Belongs(s, owner'[store'[s][k].turn])
  <2> DEFINE t == store'[s][k].turn
  <2>1. t \in 1..Len(owner) /\ Belongs(s, owner[t])
    BY StoredOrder, StoredOwned
  <2>2. ASSUME NEW p \in Procs, Quits(p) PROVE owner[t][1] # p
    <3>1. CASE s[1] = p
      <4>1. store'[s] = <<>>
        BY <2>2, <3>1, QuitsStore
      <4> QED BY <4>1
    <3>2. CASE s[1] # p
      BY <2>1, <3>2, FirstOfOwner
    <3> QED BY <3>1, <3>2
  <2> QED BY <2>1, <2>2, OwnerKept
\* A process that is busy before and after a step, and what it owns.
<1>2. ASSUME NEW q \in Procs, pc[q] \in Busy, pc'[q] \in Busy, run'[q] = run[q],
             handle'[q].agent = handle[q].agent, NEW t \in 1..Len(owner),
             owner[t] = Owner(q, handle[q].agent)
      PROVE  owner'[t] = Owner(q, handle[q].agent)'
  <2>1. Owner(q, handle[q].agent)' = Owner(q, handle[q].agent)
    BY <1>2 DEF Owner
  <2>2. ~Quits(q)
    BY <1>2, Left DEF Exit, Goto, Busy, TypeInv
  <2>3. CASE handle[q].agent.memory
    <3>1. owner[t][1] \in {q, "file"}
      BY <1>2, <2>3, HandleTyped, OwnerIs
    <3> QED BY <1>0, <1>2, <2>1, <2>2, <3>1, OwnerKept
  <2>4. CASE ~handle[q].agent.memory
    <3>1. owner[t] = Nobody
      BY <1>2, <2>4, HandleTyped, OwnerIs
    <3>2. t \in 1..Len(owner') /\ owner'[t] = Nobody
      <4>1. CASE owner' = owner
        BY <1>2, <3>1, <4>1
      <4>2. ASSUME NEW p, owner' = Disowned(p)
            PROVE  t \in 1..Len(owner') /\ owner'[t] = Nobody
        BY <1>2, <3>1, <4>2, DisownedType
      <4>3. ASSUME NEW p \in Procs, NEW a \in Agents, owner' = Append(owner, Owner(p, a))
            PROVE  t \in 1..Len(owner') /\ owner'[t] = Nobody
        <5>1. Owner(p, a) \in Owners /\ owner \in Seq(Owners)
          BY OwnerType DEF TypeInv
        <5> QED BY <1>0, <1>2, <3>1, <4>3, <5>1, AppendIs
      <4> QED BY <4>1, <4>2, <4>3, OwnerEffect
    <3> QED BY <2>1, <3>1, <3>2, <1>2
  <2> QED BY <2>3, <2>4
<1>3. ASSUME NEW q \in Procs
      PROVE  /\ \A k \in DOMAIN handle'[q].history :
                  owner'[handle'[q].history[k].turn] = Owner(q, handle[q].agent)'
             /\ pc'[q] \in Busy => owner'[handle'[q].turn] = Owner(q, handle[q].agent)'
  <2>1. CASE /\ pc[q] \in Busy /\ pc'[q] \in Busy /\ run'[q] = run[q]
             /\ handle'[q].agent = handle[q].agent /\ handle'[q].turn = handle[q].turn
             /\ handle'[q].history = handle[q].history
    <3>1. /\ handle[q].turn \in 1..Len(owner) /\ handle[q] \in HandleType
          /\ owner[handle[q].turn] = Owner(q, handle[q].agent)
      BY <2>1, HandleTyped DEF OwnerInv
    <3>2. owner'[handle[q].turn] = Owner(q, handle[q].agent)'
      BY <1>2, <2>1, <3>1
    <3>3. ASSUME NEW k \in DOMAIN handle[q].history
          PROVE  owner'[handle[q].history[k].turn] = Owner(q, handle[q].agent)'
      <4> DEFINE t == handle[q].history[k].turn
      <4>1. owner[t] = Owner(q, handle[q].agent)
        BY DEF OwnerInv, SessionsApart
      <4>2. t \in 1..Len(owner)
        BY DEF OrderInv
      <4> HIDE DEF t
      <4>3. owner'[t] = Owner(q, handle[q].agent)'
        BY <1>2, <2>1, <4>1, <4>2
      <4> QED BY <4>3 DEF t
    <3> QED BY <2>1, <3>2, <3>3
  <2>2. CASE pc'[q] \notin Busy /\ handle'[q] = NoHandle
    BY <2>2 DEF NoHandle
  <2>3. ASSUME NEW a \in MyAgents(q), Handle(q, a)
        PROVE  /\ \A k \in DOMAIN handle'[q].history :
                    owner'[handle'[q].history[k].turn] = Owner(q, handle[q].agent)'
               /\ pc'[q] \in Busy => owner'[handle'[q].turn] = Owner(q, handle[q].agent)'
    <3>1. /\ pc'[q] = "model" /\ run'[q] = run[q] /\ a \in Agents
          /\ run[q].session \in Sessions /\ owner' = Append(owner, Owner(q, a))
          /\ handle'[q].agent = a /\ handle'[q].turn = Len(owner) + 1
          /\ handle'[q].history = Loaded(q, a)
      BY <2>3, Begun DEF TypeInv
    <3>2. Owner(q, handle[q].agent)' = Owner(q, a)
      BY <3>1 DEF Owner
    <3>3. /\ owner'[Len(owner) + 1] = Owner(q, a)
          /\ \A t \in 1..Len(owner) : owner'[t] = owner[t]
      <4>1. Owner(q, a) \in Owners /\ owner \in Seq(Owners)
        BY <3>1, OwnerType DEF TypeInv
      <4> QED BY <3>1, <4>1, AppendIs
    <3>4. ASSUME NEW k \in DOMAIN Loaded(q, a)
          PROVE  owner'[Loaded(q, a)[k].turn] = Owner(q, a)
      <4>1. a.memory
        BY DEF Loaded
      <4>2. Loaded(q, a)[k].turn \in 1..Len(owner)
        BY <3>1, <4>1, SlotType DEF Loaded, OrderInv
      <4>3. owner[Loaded(q, a)[k].turn] = Owner(q, a)
        BY <3>1, LoadedOwned
      <4> QED BY <3>3, <4>2, <4>3
    <3> QED BY <3>1, <3>2, <3>3, <3>4 DEF Busy
  <2> QED BY <2>1, <2>2, <2>3, HandleEffect
<1> QED BY <1>1, <1>3 DEF OwnerInv, SessionsApart

LEMMA OwnersHold ==
  ASSUME PlainNames
  PROVE  Spec => [](OwnerInv /\ MapInv)
<1>1. Init => OwnerInv /\ MapInv
  BY DEF Init, OwnerInv, MapInv, SessionsApart, NoHandle, Busy
<1>2. TypeInv /\ HandleInv /\ OrderInv /\ OwnerInv /\ MapInv /\ [Next]_vars
        => OwnerInv' /\ MapInv'
  BY OwnerNext, MapNext
<1> QED BY <1>1, <1>2, OrderHolds, PTL DEF Spec

\* "different sessions/components never share history" (agent.go): whatever
\* overlaps, fails or is cut short, a Handle call loads only turns of its own
\* component in its own session or, without one, of its own run.  The names
\* hold no separators: with them two keys, or two file names, can be one.
THEOREM SessionsApartHolds ==
  ASSUME PlainNames
  PROVE  Spec => []SessionsApart
<1>1. OwnerInv => SessionsApart
  BY DEF OwnerInv
<1> QED BY <1>1, OwnersHold, PTL

------------------------------------------------------------------------------
(* What a history holds (WholeTurns, Remembered). *)

\* A turn that is not saved is nowhere yet, and has not failed.
FreshInv ==
  \A p \in Procs :
    /\ pc[p] \in Unsaved =>
         /\ handle[p].turn \notin failed
         /\ \A s \in Slots : \A k \in DOMAIN store[s] : store[s][k].turn # handle[p].turn
         /\ \A q \in Procs : \A k \in DOMAIN handle[q].history :
              handle[q].history[k].turn # handle[p].turn
    /\ \A q \in Procs \ {p} :
         pc[p] \in Busy /\ pc[q] \in Busy => handle[p].turn # handle[q].turn

Whole(msgs) ==
  \A k \in DOMAIN msgs : msgs[k].role = "user" =>
    k < Len(msgs) /\ msgs[k + 1] = Plain("assistant", msgs[k].turn)

Ordered(msgs) ==
  \A i, j \in DOMAIN msgs : i < j => msgs[i].turn <= msgs[j].turn

\* A process is about to write the file of s, or to emit what s holds.
Writes(p, s) == pc[p] = "write" /\ Mine(p) = s
Waits(p, s) == pc[p] = "emit" /\ handle[p].agent.memory /\ Mine(p) = s

\* A history of the slot s that has lost nothing.
Good(s, msgs) ==
  /\ Whole(msgs) /\ Ordered(msgs)
  /\ \A k \in DOMAIN msgs : msgs[k].turn \notin failed
  /\ \A i \in DOMAIN emitted[s] : emitted[s][i] \in Answers(msgs)
  /\ \A p \in Procs : Waits(p, s) => handle[p].turn \in Answers(msgs)

\* One process uses the slot; what it has loaded is what is stored until it
\* truncates the file.
KeptAt(s) ==
  /\ \A p \in Procs : Uses(p, s) =>
       /\ store[s] = IF Writes(p, s) THEN <<>> ELSE handle[p].history
       /\ Good(s, handle[p].history)
       /\ \A q \in Procs : Uses(q, s) => q = p
  /\ (\A p \in Procs : ~Writes(p, s)) => Good(s, store[s])

KeptInv == \A s \in Slots \ (torn \cup overlapped) : KeptAt(s)

LEMMA HistoryFrom ==
  ASSUME TypeInv, HandleInv, [Next]_vars, NEW p \in Procs, NEW k \in DOMAIN handle'[p].history
  PROVE  \/ /\ handle'[p].turn = handle[p].turn
            /\ \E i \in DOMAIN handle[p].history :
                 handle'[p].history[k] = handle[p].history[i]
         \/ \E s \in Slots : \E i \in DOMAIN store[s] : handle'[p].history[k] = store[s][i]
<1>1. CASE handle'[p].history = handle[p].history /\ handle'[p].turn = handle[p].turn
  BY <1>1
<1>2. CASE handle'[p] = NoHandle
  BY <1>2 DEF NoHandle
<1>3. ASSUME NEW a \in MyAgents(p), Handle(p, a)
      PROVE  \E s \in Slots : \E i \in DOMAIN store[s] : handle'[p].history[k] = store[s][i]
  <2>1. handle'[p].history = Loaded(p, a) /\ a \in Agents /\ run[p].session \in Sessions
    BY <1>3, Begun DEF TypeInv
  <2>2. a.memory
    BY <2>1 DEF Loaded
  <2>3. Slot(p, a) \in Slots /\ handle'[p].history[k] = store[Slot(p, a)][k]
        /\ k \in DOMAIN store[Slot(p, a)]
    BY <2>1, <2>2, SlotType DEF Loaded
  <2> QED BY <2>3
<1> QED BY <1>1, <1>2, <1>3, HandleEffect

\* A process that is busy after a step either was busy before it, or begins.
LEMMA FreshNext ==
  ASSUME TypeInv, HandleInv, OrderInv, FreshInv, [Next]_vars
  PROVE  FreshInv'
<1> DEFINE Same(p) == /\ pc[p] \in Busy /\ handle'[p].turn = handle[p].turn
                      /\ pc[p] = "emit" => pc'[p] = "emit"
           Begins(p) == /\ pc[p] = "idle" /\ pc' = [pc EXCEPT ![p] = "model"]
                        /\ handle'[p].turn = Len(owner) + 1 /\ failed' = failed
<1>0. /\ pc \in [Procs -> {"off", "idle"} \cup Busy]
      /\ Len(owner) \in Nat
  BY LenProperties DEF TypeInv
<1>1. ASSUME NEW p \in Procs, pc'[p] \in Busy
      PROVE  Same(p) \/ Begins(p)
  <2>1. ASSUME NEW a \in MyAgents(p), Handle(p, a) PROVE Begins(p)
    BY <2>1, Begun DEF TypeInv
  <2> QED BY <1>1, <2>1, HandleEffect
<1>2. ASSUME NEW p \in Procs, pc[p] \in Busy
      PROVE  handle[p].turn \in 1..Len(owner) /\ handle[p] \in HandleType
             /\ handle[p].turn \in Turns
  BY <1>2, HandleTyped
<1>3. ASSUME NEW p \in Procs, NEW q \in Procs, p # q, pc'[p] \in Busy, pc'[q] \in Busy
      PROVE  handle'[p].turn # handle'[q].turn
  <2>1. ~(Begins(p) /\ Begins(q))
    BY <1>0, <1>3
  <2>2. CASE Same(p) /\ Same(q)
    BY <1>3, <2>2 DEF FreshInv
  <2>3. CASE Same(p) /\ Begins(q)
    BY <1>0, <1>2, <2>3
  <2>4. CASE Begins(p) /\ Same(q)
    BY <1>0, <1>2, <2>4
  <2> QED BY <1>1, <1>3, <2>1, <2>2, <2>3, <2>4
<1>4. ASSUME NEW p \in Procs, pc'[p] \in Unsaved, Same(p)
      PROVE  /\ handle[p].turn \notin failed'
             /\ \A s \in Slots : \A k \in DOMAIN store'[s] :
                  store'[s][k].turn # handle[p].turn
             /\ \A q \in Procs : \A k \in DOMAIN handle'[q].history :
                  handle'[q].history[k].turn # handle[p].turn
  <2>1. pc[p] \in Unsaved /\ pc[p] \in Busy
    BY <1>4 DEF Busy, Unsaved
  <2>2. handle[p].turn \notin failed'
    <3>1. ASSUME NEW q \in Procs, Quits(q), pc[q] \in Unsaved
          PROVE  handle[q].turn # handle[p].turn
      <4>1. pc'[q] = "off"
        BY <1>0, <3>1, Left DEF Exit, Goto
      <4>2. q # p /\ pc[q] \in Busy
        BY <1>4, <3>1, <4>1 DEF Unsaved, Busy
      <4> QED BY <2>1, <4>2 DEF FreshInv
    <3>2. handle[p].turn # Len(owner) + 1
      BY <1>0, <1>2, <2>1
    <3> QED BY <2>1, <3>1, <3>2, FailedEffect DEF FreshInv
  <2>3. ASSUME NEW s \in Slots, NEW k \in DOMAIN store'[s]
        PROVE  store'[s][k].turn # handle[p].turn
    <3>1. ASSUME NEW q \in Procs, pc[q] \in {"save", "write"}, pc'[q] \notin Unsaved,
                 store'[s][k] \in New(handle[q])
          PROVE  store'[s][k].turn # handle[p].turn
      <4>1. q # p /\ pc[q] \in Busy
        BY <1>4, <3>1 DEF Busy
      <4>2. store'[s][k].turn = handle[q].turn
        BY <1>2, <3>1, <4>1, NewTurnIs DEF New
      <4> QED BY <2>1, <4>1, <4>2 DEF FreshInv
    <3> QED BY <2>1, <3>1, StoreFrom DEF FreshInv
  <2>4. ASSUME NEW q \in Procs, NEW k \in DOMAIN handle'[q].history
        PROVE  handle'[q].history[k].turn # handle[p].turn
    BY <2>1, HistoryFrom DEF FreshInv
  <2> QED BY <2>2, <2>3, <2>4
<1>5. ASSUME NEW p \in Procs, Begins(p)
      PROVE  /\ handle'[p].turn \notin failed'
             /\ \A s \in Slots : \A k \in DOMAIN store'[s] :
                  store'[s][k].turn # handle'[p].turn
             /\ \A q \in Procs : \A k \in DOMAIN handle'[q].history :
                  handle'[q].history[k].turn # handle'[p].turn
  <2>1. handle'[p].turn \notin 1..Len(owner) /\ failed' = failed
    BY <1>0, <1>5
  <2>2. ASSUME NEW q \in Procs, NEW k \in DOMAIN handle'[q].history
        PROVE  handle'[q].history[k].turn \in 1..Len(owner)
    BY HistoryFrom DEF OrderInv
  <2> QED BY <2>1, <2>2, StoredOrder DEF OrderInv
<1>6. ASSUME NEW p \in Procs, pc'[p] \in Unsaved
      PROVE  /\ handle'[p].turn \notin failed'
             /\ \A s \in Slots : \A k \in DOMAIN store'[s] :
                  store'[s][k].turn # handle'[p].turn
             /\ \A q \in Procs : \A k \in DOMAIN handle'[q].history :
                  handle'[q].history[k].turn # handle'[p].turn
  <2>1. pc'[p] \in Busy
    BY <1>6 DEF Unsaved, Busy
  <2>2. CASE Same(p)
    <3>1. handle'[p].turn = handle[p].turn
      BY <2>2
    <3> QED BY <1>4, <1>6, <2>2, <3>1
  <2>3. CASE Begins(p)
    BY <1>5, <2>3
  <2> QED BY <1>1, <2>1, <2>2, <2>3
<1> QED BY <1>3, <1>6 DEF FreshInv

\* A turn that is kept does not fail afterwards.
LEMMA StaysGood ==
  ASSUME TypeInv, HandleInv, OrderInv, FreshInv, [Next]_vars
  PROVE  /\ \A s \in Slots : \A k \in DOMAIN store[s] :
              store[s][k].turn \notin failed => store[s][k].turn \notin failed'
         /\ \A p \in Procs : \A k \in DOMAIN handle[p].history :
              handle[p].history[k].turn \notin failed
                => handle[p].history[k].turn \notin failed'
<1> SUFFICES ASSUME NEW t \in 1..Len(owner), t \notin failed,
                    \A p \in Procs : pc[p] \in Unsaved => t # handle[p].turn
             PROVE  t \notin failed'
  BY DEF FreshInv, OrderInv
<1>1. t # Len(owner) + 1
  BY LenProperties DEF TypeInv
<1> QED BY <1>1, FailedEffect

\* What a process has to do with a slot does not change, or it is done.
Leaves(p, s) ==
  /\ Uses(p, s)' => Uses(p, s) /\ handle'[p].history = handle[p].history
  /\ Writes(p, s)' <=> Writes(p, s)
  /\ Waits(p, s)' => Waits(p, s) /\ handle'[p].turn = handle[p].turn

LEMMA Bystander ==
  ASSUME NEW p \in Procs, pc'[p] = pc[p], run'[p] = run[p], handle'[p] = handle[p], NEW s
  PROVE  Leaves(p, s)
<1>1. Mine(p)' = Mine(p)
  BY DEF Mine, Slot, Key
<1> QED BY <1>1 DEF Leaves, Uses, Writes, Waits

LEMMA StaysKept ==
  ASSUME NEW s \in Slots, KeptAt(s), \A p \in Procs : Leaves(p, s), store'[s] = store[s],
         \A i \in DOMAIN emitted'[s] :
           \/ \E j \in DOMAIN emitted[s] : emitted'[s][i] = emitted[s][j]
           \/ \E p \in Procs : Waits(p, s) /\ emitted'[s][i] = handle[p].turn,
         \A k \in DOMAIN store[s] :
           store[s][k].turn \notin failed => store[s][k].turn \notin failed',
         \A p \in Procs : \A k \in DOMAIN handle[p].history :
           handle[p].history[k].turn \notin failed
             => handle[p].history[k].turn \notin failed'
  PROVE  KeptAt(s)'
<1>1. ASSUME NEW msgs, Good(s, msgs),
             \A k \in DOMAIN msgs : msgs[k].turn \notin failed => msgs[k].turn \notin failed'
      PROVE  /\ Whole(msgs) /\ Ordered(msgs)
             /\ \A k \in DOMAIN msgs : msgs[k].turn \notin failed'
             /\ \A i \in DOMAIN emitted'[s] : emitted'[s][i] \in Answers(msgs)
             /\ \A p \in Procs : Waits(p, s)' => handle'[p].turn \in Answers(msgs)
  BY <1>1 DEF Good, Leaves
<1>2. ASSUME NEW p \in Procs, Uses(p, s)'
      PROVE  /\ store'[s] = IF Writes(p, s)' THEN <<>> ELSE handle'[p].history
             /\ Good(s, handle[p].history)'
             /\ \A q \in Procs : Uses(q, s)' => q = p
  <2>1. /\ Uses(p, s) /\ handle'[p].history = handle[p].history
        /\ Writes(p, s)' <=> Writes(p, s)
    BY <1>2 DEF Leaves
  <2>2. /\ store[s] = IF Writes(p, s) THEN <<>> ELSE handle[p].history
        /\ Good(s, handle[p].history)
        /\ \A q \in Procs : Uses(q, s) => q = p
    BY <2>1 DEF KeptAt
  <2>3. Good(s, handle[p].history)'
    BY <1>1, <2>1, <2>2 DEF Good
  <2> QED BY <2>1, <2>2, <2>3 DEF Leaves
<1>3. (\A p \in Procs : ~Writes(p, s)') => Good(s, store[s])'
  <2> SUFFICES ASSUME \A p \in Procs : ~Writes(p, s)' PROVE Good(s, store[s])'
    OBVIOUS
  <2>1. Good(s, store[s])
    BY DEF KeptAt, Leaves
  <2> QED BY <1>1, <2>1 DEF Good
<1> QED BY <1>2, <1>3 DEF KeptAt

\* A process that quits leaves the slots of others, and those it has not cut
\* short.
LEMMA QuitsKept ==
  ASSUME TypeInv, HandleInv, OrderInv, FreshInv, [Next]_vars, NEW p \in Procs, Quits(p),
         NEW s \in Slots, KeptAt(s), s \notin torn'
  PROVE  KeptAt(s)'
<1>0. /\ pc' = [pc EXCEPT ![p] = "off"] /\ run' = [run EXCEPT ![p] = NoRun]
      /\ handle' = [handle EXCEPT ![p] = NoHandle]
      /\ emitted' = [x \in Slots |-> IF x[1] = p THEN <<>> ELSE emitted[x]]
      /\ pc[p] # "off"
  BY Left DEF Exit, Goto
<1>1. /\ DOMAIN pc = Procs /\ DOMAIN run = Procs /\ DOMAIN handle = Procs
      /\ DOMAIN store = Slots /\ "file" \notin Procs
  BY AgentAssumption DEF TypeInv
<1>2. ~(pc[p] = "write" /\ Mine(p) = s)
  BY Left
<1>3. Leaves(p, s)
  <2>1. pc'[p] = "off"
    BY <1>0, <1>1
  <2> QED BY <1>2, <2>1 DEF Leaves, Uses, Writes, Waits
<1>4. ASSUME NEW q \in Procs, q # p
      PROVE  /\ Leaves(q, s)
             /\ pc'[q] = pc[q] /\ run'[q] = run[q] /\ handle'[q] = handle[q]
  <2>1. pc'[q] = pc[q] /\ run'[q] = run[q] /\ handle'[q] = handle[q]
    BY <1>0, <1>1, <1>4
  <2> QED BY <2>1, Bystander
<1>5. CASE store'[s] = store[s]
  <2>1. \A i \in DOMAIN emitted'[s] : \E j \in DOMAIN emitted[s] : emitted'[s][i] = emitted[s][j]
    BY <1>0
  <2> QED BY <1>3, <1>4, <1>5, <2>1, StaysGood, StaysKept
<1>6. CASE s[1] = p /\ store'[s] = <<>>
  <2>1. emitted'[s] = <<>>
    BY <1>0, <1>6
  <2>2. ASSUME NEW q \in Procs, Uses(q, s)' \/ Waits(q, s)' PROVE FALSE
    <3>1. q # p
      BY <1>0, <1>1, <2>2 DEF Uses, Waits
    <3>2. /\ Uses(q, s) \/ Waits(q, s)
      BY <1>4, <2>2, <3>1 DEF Leaves
    <3>3. pc[q] \in Busy /\ handle[q].agent.memory /\ Mine(q) = s
      BY <3>2 DEF Uses, Waits, Busy
    <3>4. Mine(q)[1] \in {q, "file"}
      BY <3>3, HandleTyped, OwnerIs DEF Mine
    <3> QED BY <1>1, <1>6, <3>1, <3>3, <3>4
  <2>3. Good(s, store[s])'
    <3>1. Whole(<<>>) /\ Ordered(<<>>)
      BY DEF Whole, Ordered
    <3> QED BY <1>6, <2>1, <2>2, <3>1 DEF Good
  <2> QED BY <2>2, <2>3 DEF KeptAt
<1>7. store'[s] = store[s] \/ (s[1] = p /\ store'[s] = <<>>)
  <2>1. CASE store' = StoreWithout(p)
    BY <2>1 DEF StoreWithout
  <2>2. CASE store' = store
    BY <2>2
  <2>3. ASSUME pc[p] = "write", NEW msgs, store' = [store EXCEPT ![Mine(p)] = msgs]
        PROVE  store'[s] = store[s]
    BY <1>1, <1>2, <2>3
  <2> QED BY <2>1, <2>2, <2>3, Left
<1> QED BY <1>5, <1>6, <1>7

LEMMA BeginsKept ==
  ASSUME TypeInv, HandleInv, OrderInv, FreshInv, [Next]_vars,
         NEW p \in Procs, NEW a \in MyAgents(p), Handle(p, a),
         NEW s \in Slots, KeptAt(s), s \notin overlapped'
  PROVE  KeptAt(s)'
<1>0. /\ DOMAIN pc = Procs /\ DOMAIN handle = Procs
      /\ pc[p] = "idle" /\ pc' = [pc EXCEPT ![p] = "model"]
      /\ run' = run /\ store' = store /\ emitted' = emitted /\ failed' = failed
      /\ a \in Agents /\ run[p].session \in Sessions
  BY Begun DEF TypeInv, storeVars
<1>1. PICK h \in HandleType : /\ handle' = [handle EXCEPT ![p] = h]
                              /\ h.agent = a /\ h.history = Loaded(p, a)
  BY Begun
<1>2. handle'[p] = h /\ pc'[p] = "model"
  BY <1>0, <1>1
<1>3. Mine(p)' = Slot(p, a)
  BY <1>0, <1>1, <1>2 DEF Mine, Slot, Key
<1>4. ~Uses(p, s) /\ ~Writes(p, s) /\ ~Waits(p, s) /\ ~Writes(p, s)' /\ ~Waits(p, s)'
  BY <1>0, <1>2 DEF Uses, Writes, Waits
<1>5. ASSUME NEW q \in Procs, q # p
      PROVE  /\ Leaves(q, s) /\ handle'[q] = handle[q]
             /\ Uses(q, s)' <=> Uses(q, s)
  <2>1. pc'[q] = pc[q] /\ run'[q] = run[q] /\ handle'[q] = handle[q]
    BY <1>0, <1>1, <1>5
  <2>2. Mine(q)' = Mine(q)
    BY <2>1 DEF Mine, Slot, Key
  <2> QED BY <2>1, <2>2, Bystander DEF Uses
<1>6. CASE ~(a.memory /\ Slot(p, a) = s)
  <2>1. ~Uses(p, s)'
    BY <1>1, <1>2, <1>3, <1>6 DEF Uses
  <2>2. Leaves(p, s)
    BY <1>4, <2>1 DEF Leaves
  <2> QED BY <1>0, <1>5, <2>2, StaysKept
<1>7. CASE a.memory /\ Slot(p, a) = s
  <2>1. \A q \in Procs : ~Uses(q, s)
    <3>1. \A q \in Procs \ {p} : ~Uses(q, s)
      <4>1. overlapped' = IF \E q \in Procs \ {p} : a.memory /\ Uses(q, Slot(p, a))
                            THEN overlapped \cup {Slot(p, a)} ELSE overlapped
        BY DEF Handle
      <4> QED BY <1>7, <4>1
    <3> QED BY <1>4, <3>1
  <2>2. \A q \in Procs : ~Writes(q, s)
    BY <2>1 DEF Writes, Uses, HandleInv, Placed, InFile
  <2>3. Good(s, store[s])
    BY <2>2 DEF KeptAt
  <2>4. handle'[p].history = store[s]
    BY <1>1, <1>2, <1>7 DEF Loaded
  <2>5. \A q \in Procs : Waits(q, s)' => Waits(q, s) /\ handle'[q].turn = handle[q].turn
    BY <1>4, <1>5 DEF Leaves
  <2>6. Good(s, store[s])'
    BY <1>0, <2>3, <2>5 DEF Good
  <2>7. Good(s, handle[p].history)'
    BY <1>0, <2>4, <2>6 DEF Good
  <2>8. \A q \in Procs : Uses(q, s)' => q = p
    BY <1>5, <2>1
  <2> QED BY <1>0, <1>4, <2>4, <2>6, <2>7, <2>8 DEF KeptAt
<1> QED BY <1>6, <1>7

\* A history with a whole turn at its end.
LEMMA UpdatedWhole ==
  ASSUME NEW h \in HandleType, h.turn \in Turns, Whole(h.history), Ordered(h.history),
         \A k \in DOMAIN h.history : h.history[k].turn < h.turn
  PROVE  /\ Whole(Updated(h)) /\ Ordered(Updated(h))
         /\ \A k \in DOMAIN Updated(h) :
              \/ \E i \in DOMAIN h.history : Updated(h)[k] = h.history[i]
              \/ Updated(h)[k].turn = h.turn
         /\ \A t \in Answers(h.history) : t \in Answers(Updated(h))
         /\ h.turn \in Answers(Updated(h))
<1> DEFINE m == Len(h.history)
           n == Len(NewTurn(h))
           new == Updated(h)
           u == Plain("user", h.turn)
           a == Plain("assistant", h.turn)
<1>1. /\ m \in Nat /\ n \in {1, 2} /\ DOMAIN new = 1..(m + n) /\ DOMAIN h.history = 1..m
      /\ \A k \in 1..m : new[k] = h.history[k]
      /\ \A k \in 1..n : new[m + k] = NewTurn(h)[k]
      /\ Len(new) = m + n
  BY UpdatedIs, NewTurnIs
<1>2. /\ NewTurn(h)[n] = a
      /\ n = 2 => NewTurn(h)[1] = u
      /\ a.turn = h.turn /\ u.turn = h.turn /\ a.role = "assistant" /\ u.role = "user"
  BY NewTurnIs
<1>3. \A k \in 1..m : h.history[k].turn \in Nat
  <2>1. h.history \in Seq(Message)
    BY DEF HandleType
  <2>2. \A k \in 1..m : h.history[k] \in Message
    BY <1>1, <2>1, ElementOfSeq
  <2> QED BY <2>2, AgentAssumption DEF Message, Turns
<1>4. h.turn \in Nat
  BY AgentAssumption DEF Turns
<1> HIDE DEF new, m, n, u, a
<1>5. /\ new[m + n] = a
      /\ n = 2 => new[m + 1] = u
  BY <1>1, <1>2
<1>6. \A k \in 1..(m + n) : k \in 1..m \/ k = m + n \/ (n = 2 /\ k = m + 1)
  BY <1>1
<1>7. \A k \in DOMAIN new :
        (\E i \in DOMAIN h.history : new[k] = h.history[i]) \/ new[k].turn = h.turn
  BY <1>1, <1>2, <1>5, <1>6
<1>8. Whole(new)
  <2> SUFFICES ASSUME NEW k \in 1..(m + n), new[k].role = "user"
               PROVE  k < m + n /\ new[k + 1] = Plain("assistant", new[k].turn)
    BY <1>1 DEF Whole
  <2>1. CASE k \in 1..m
    <3>1. k < m /\ h.history[k + 1] = Plain("assistant", h.history[k].turn)
      BY <1>1, <2>1 DEF Whole, m
    <3>2. k + 1 \in 1..m /\ k < m + n
      BY <1>1, <2>1, <3>1
    <3> QED BY <1>1, <2>1, <3>1, <3>2
  <2>2. CASE k = m + n
    BY <1>2, <1>5, <2>2
  <2>3. CASE n = 2 /\ k = m + 1
    <3>1. k + 1 = m + n /\ k < m + n
      BY <1>1, <2>3
    <3> QED BY <1>2, <1>5, <2>3, <3>1 DEF a
  <2> QED BY <1>6, <2>1, <2>2, <2>3
<1>9. Ordered(new)
  <2> SUFFICES ASSUME NEW i \in 1..(m + n), NEW j \in 1..(m + n), i < j
               PROVE  new[i].turn <= new[j].turn
    BY <1>1 DEF Ordered
  <2>1. \A k \in 1..(m + n) : k \in 1..m \/ new[k].turn = h.turn
    BY <1>2, <1>5, <1>6
  <2>2. CASE j \in 1..m
    <3>1. i \in 1..m
      BY <1>1, <2>2
    <3> QED BY <1>1, <2>2, <3>1 DEF Ordered
  <2>3. CASE j \notin 1..m
    <3>1. new[j].turn = h.turn
      BY <2>1, <2>3
    <3>2. CASE i \in 1..m
      <4>1. h.history[i].turn < h.turn /\ h.history[i].turn \in Nat
        BY <1>1, <1>3, <3>2
      <4>2. new[i].turn = h.history[i].turn
        BY <1>1, <3>2
      <4> QED BY <1>4, <3>1, <4>1, <4>2
    <3>3. CASE i \notin 1..m
      BY <1>4, <2>1, <3>1, <3>3
    <3> QED BY <3>2, <3>3
  <2> QED BY <2>2, <2>3
<1>10. \A t \in Answers(h.history) : t \in Answers(new)
  <2> SUFFICES ASSUME NEW k \in DOMAIN h.history, h.history[k].role = "assistant"
               PROVE  h.history[k].turn \in Answers(new)
    BY DEF Answers
  <2>1. k \in DOMAIN new /\ new[k] = h.history[k]
    BY <1>1
  <2> QED BY <2>1 DEF Answers
<1>11. h.turn \in Answers(new)
  <2>1. m + n \in DOMAIN new
    BY <1>1
  <2> QED BY <1>2, <1>5, <2>1 DEF Answers
<1> QED BY <1>7, <1>8, <1>9, <1>10, <1>11 DEF new

LEMMA SavedKept ==
  ASSUME TypeInv, HandleInv, OrderInv, FreshInv, [Next]_vars,
         NEW p \in Procs, pc[p] \in {"save", "write"}, pc' = [pc EXCEPT ![p] = "emit"],
         UNCHANGED <<run, handle, emitted, failed>>,
         NEW s \in Slots, KeptAt(s),
         store'[s] = IF handle[p].agent.memory /\ Mine(p) = s
                       THEN Updated(handle[p]) ELSE store[s]
  PROVE  KeptAt(s)'
<1>0. DOMAIN pc = Procs /\ pc'[p] = "emit"
  BY DEF TypeInv
<1>1. Mine(p)' = Mine(p)
  BY DEF Mine, Slot, Key
<1>2. ASSUME NEW q \in Procs, q # p
      PROVE  Leaves(q, s)
  <2>1. pc'[q] = pc[q]
    BY <1>0, <1>2
  <2> QED BY <2>1, Bystander
<1>3. ~Uses(p, s)' /\ ~Writes(p, s)'
  BY <1>0 DEF Uses, Writes
<1>4. CASE ~(handle[p].agent.memory /\ Mine(p) = s)
  <2>1. Leaves(p, s)
    <3>1. ~Writes(p, s)
      BY <1>4 DEF Writes, HandleInv, Placed, InFile
    <3>2. ~Waits(p, s)'
      BY <1>1, <1>4 DEF Waits
    <3> QED BY <1>3, <3>1, <3>2 DEF Leaves
  <2> QED BY <1>2, <1>4, <2>1, StaysKept
<1>5. CASE handle[p].agent.memory /\ Mine(p) = s
  <2> DEFINE h == handle[p]
  <2>1. Uses(p, s)
    BY <1>5 DEF Uses
  <2>2. Good(s, h.history) /\ \A q \in Procs : Uses(q, s) => q = p
    BY <2>1 DEF KeptAt
  <2>3. \A q \in Procs : ~Uses(q, s)'
    BY <1>2, <1>3, <2>2 DEF Leaves
  <2>4. /\ h \in HandleType /\ h.turn \in Turns
        /\ \A k \in DOMAIN h.history : h.history[k].turn < h.turn
        /\ h.turn \notin failed
    BY HandleTyped DEF Busy, OrderInv, FreshInv, Unsaved
  <2>5. /\ Whole(Updated(h)) /\ Ordered(Updated(h))
        /\ \A k \in DOMAIN Updated(h) :
             \/ \E i \in DOMAIN h.history : Updated(h)[k] = h.history[i]
             \/ Updated(h)[k].turn = h.turn
        /\ \A t \in Answers(h.history) : t \in Answers(Updated(h))
        /\ h.turn \in Answers(Updated(h))
    <3>1. Whole(h.history) /\ Ordered(h.history)
      BY <2>2 DEF Good
    <3> QED BY <2>4, <3>1, UpdatedWhole
  <2>6. \A q \in Procs : Waits(q, s)' => handle'[q].turn \in Answers(Updated(h))
    BY <1>2, <2>2, <2>5 DEF Leaves, Good
  <2>7. \A k \in DOMAIN Updated(h) : Updated(h)[k].turn \notin failed'
    BY <2>2, <2>4, <2>5 DEF Good
  <2>8. \A i \in DOMAIN emitted'[s] : emitted'[s][i] \in Answers(Updated(h))
    BY <2>2, <2>5 DEF Good
  <2>9. Good(s, store[s])'
    <3>1. store'[s] = Updated(h)
      BY <1>5
    <3> HIDE DEF h
    <3> QED BY <2>5, <2>6, <2>7, <2>8, <3>1 DEF Good
  <2> QED BY <2>3, <2>9 DEF KeptAt
<1> QED BY <1>4, <1>5

LEMMA TruncatedKept ==
  ASSUME TypeInv, HandleInv, OrderInv, FreshInv, [Next]_vars,
         NEW p \in Procs, Truncate(p), NEW s \in Slots, KeptAt(s)
  PROVE  KeptAt(s)'
<1>0. /\ DOMAIN pc = Procs /\ DOMAIN store = Slots
      /\ pc[p] = "save" /\ pc' = [pc EXCEPT ![p] = "write"] /\ pc'[p] = "write"
      /\ handle[p].agent.memory /\ store' = [store EXCEPT ![Mine(p)] = <<>>]
      /\ run' = run /\ handle' = handle /\ emitted' = emitted /\ failed' = failed
  BY DEF TypeInv, Truncate, InFile, Goto, historyVars
<1>1. \A q \in Procs : Mine(q)' = Mine(q)
  BY <1>0 DEF Mine, Slot, Key
<1>2. ASSUME NEW q \in Procs, q # p
      PROVE  Leaves(q, s) /\ (Uses(q, s)' <=> Uses(q, s))
  <2>1. pc'[q] = pc[q]
    BY <1>0, <1>2
  <2> QED BY <1>0, <1>1, <2>1, Bystander DEF Uses
<1>3. CASE Mine(p) # s
  <2>1. Leaves(p, s)
    BY <1>0, <1>1, <1>3 DEF Leaves, Uses, Writes, Waits
  <2>2. store'[s] = store[s]
    BY <1>0, <1>3
  <2> QED BY <1>0, <1>2, <2>1, <2>2, StaysKept
<1>4. CASE Mine(p) = s
  <2>1. Uses(p, s) /\ Writes(p, s)' /\ ~Waits(p, s)'
    BY <1>0, <1>1, <1>4 DEF Uses, Writes, Waits
  <2>2. Good(s, handle[p].history) /\ \A q \in Procs : Uses(q, s) => q = p
    BY <2>1 DEF KeptAt
  <2>3. \A q \in Procs : Uses(q, s)' => q = p
    BY <1>2, <2>2
  <2>4. \A q \in Procs : Waits(q, s)' => Waits(q, s) /\ handle'[q].turn = handle[q].turn
    BY <1>2, <2>1 DEF Leaves
  <2>5. Good(s, handle[p].history)'
    BY <1>0, <2>2, <2>4 DEF Good
  <2>6. store'[s] = <<>>
    BY <1>0, <1>4
  <2> QED BY <2>1, <2>3, <2>5, <2>6 DEF KeptAt
<1> QED BY <1>3, <1>4

\* The turn that waits has its answer in the history already.
LEMMA EmitKept ==
  ASSUME TypeInv, HandleInv, OrderInv, FreshInv, [Next]_vars,
         NEW p \in Procs, Emit(p), NEW s \in Slots, KeptAt(s)
  PROVE  KeptAt(s)'
<1>0. /\ DOMAIN pc = Procs /\ DOMAIN handle = Procs
      /\ pc[p] = "emit" /\ pc' = [pc EXCEPT ![p] = "idle"] /\ pc'[p] = "idle"
      /\ handle' = [handle EXCEPT ![p] = NoHandle]
      /\ emitted' = IF handle[p].agent.memory
                      THEN [emitted EXCEPT ![Mine(p)] = Append(emitted[Mine(p)], handle[p].turn)]
                      ELSE emitted
      /\ run' = run /\ store' = store /\ failed' = failed
  BY DEF TypeInv, Emit, Goto, storeVars
<1>1. ASSUME NEW q \in Procs PROVE Leaves(q, s)
  <2>1. CASE q = p
    BY <1>0, <2>1 DEF Leaves, Uses, Writes, Waits
  <2>2. CASE q # p
    <3>1. pc'[q] = pc[q] /\ handle'[q] = handle[q]
      BY <1>0, <2>2
    <3> QED BY <1>0, <3>1, Bystander
  <2> QED BY <2>1, <2>2
<1>2. ASSUME NEW i \in DOMAIN emitted'[s]
      PROVE  \/ \E j \in DOMAIN emitted[s] : emitted'[s][i] = emitted[s][j]
             \/ \E q \in Procs : Waits(q, s) /\ emitted'[s][i] = handle[q].turn
  <2>1. CASE handle[p].agent.memory /\ Mine(p) = s
    <3>1. /\ emitted[s] \in Seq(Turns) /\ handle[p].turn \in Turns
          /\ emitted'[s] = Append(emitted[s], handle[p].turn)
      BY <1>0, <2>1, HandleTyped DEF TypeInv, Busy
    <3>2. i \in 1..Len(emitted[s]) \/ i = Len(emitted[s]) + 1
      BY <3>1, AppendIs
    <3>3. CASE i \in 1..Len(emitted[s])
      BY <3>1, <3>3, AppendIs
    <3>4. CASE i = Len(emitted[s]) + 1
      <4>1. emitted'[s][i] = handle[p].turn
        BY <3>1, <3>4, AppendIs
      <4> QED BY <1>0, <2>1, <4>1 DEF Waits
    <3> QED BY <3>2, <3>3, <3>4
  <2>2. CASE ~(handle[p].agent.memory /\ Mine(p) = s)
    <3>1. emitted'[s] = emitted[s]
      BY <1>0, <2>2 DEF TypeInv
    <3> QED BY <3>1
  <2> QED BY <2>1, <2>2
<1> QED BY <1>0, <1>1, <1>2, StaysKept

\* Up to its save a process holds on to what it has loaded.
LEMMA AskingKept ==
  ASSUME TypeInv, HandleInv, OrderInv, FreshInv, [Next]_vars,
         NEW p \in Procs, NEW where \in {"model", "tools", "save"},
         pc[p] \in {"model", "tools"}, pc' = [pc EXCEPT ![p] = where],
         NEW h, handle' = [handle EXCEPT ![p] = h],
         h.agent = handle[p].agent, h.history = handle[p].history,
         UNCHANGED <<run, storeVars, emitted, failed>>,
         NEW s \in Slots, KeptAt(s)
  PROVE  KeptAt(s)'
<1>0. /\ DOMAIN pc = Procs /\ DOMAIN handle = Procs
      /\ pc'[p] = where /\ handle'[p] = h /\ store' = store
  BY DEF TypeInv, storeVars
<1>1. ASSUME NEW q \in Procs PROVE Leaves(q, s)
  <2>1. CASE q = p
    <3>1. Mine(p)' = Mine(p)
      BY <1>0 DEF Mine, Slot, Key
    <3> QED BY <1>0, <2>1, <3>1 DEF Leaves, Uses, Writes, Waits
  <2>2. CASE q # p
    <3>1. pc'[q] = pc[q] /\ handle'[q] = handle[q]
      BY <1>0, <2>2
    <3> QED BY <3>1, Bystander
  <2> QED BY <2>1, <2>2
<1> QED BY <1>0, <1>1, StaysKept

LEMMA StepKept ==
  ASSUME TypeInv, HandleInv, OrderInv, FreshInv, [Next]_vars,
         NEW p \in Procs, Step(p), ~IterationsExceeded(p), NEW s \in Slots, KeptAt(s)
  PROVE  KeptAt(s)'
<1>0. /\ pc \in [Procs -> {"off", "idle"} \cup Busy] /\ handle \in [Procs -> HandleType]
      /\ store \in [Slots -> Seq(Message)]
  BY DEF TypeInv
<1>1. handle = [handle EXCEPT ![p] = handle[p]]
  BY <1>0
<1>2. CASE ModelAnswers(p)
  <2>1. /\ pc[p] = "model" /\ pc' = [pc EXCEPT ![p] = "save"] /\ handle' = handle
        /\ UNCHANGED <<run, storeVars, emitted, failed>>
    BY <1>2 DEF ModelAnswers, Goto, historyVars
  <2> QED BY <1>1, <2>1, AskingKept
<1>3. CASE ModelAsksForTools(p)
  <2>1. /\ pc[p] = "model" /\ pc' = [pc EXCEPT ![p] = "tools"]
        /\ UNCHANGED <<run, storeVars, emitted, failed>>
    BY <1>3 DEF ModelAsksForTools, Goto, historyVars
  <2>2. PICK h \in HandleType : /\ handle' = [handle EXCEPT ![p] = h]
                                /\ h.agent = handle[p].agent
                                /\ h.history = handle[p].history
    BY <1>3, Asked
  <2> QED BY <2>1, <2>2, AskingKept
<1>4. CASE RunTool(p)
  <2>1. /\ pc[p] = "tools" /\ pc' = [pc EXCEPT ![p] = "tools"]
        /\ UNCHANGED <<run, storeVars, emitted, failed>>
    BY <1>0, <1>4 DEF RunTool, MoreCalls, historyVars
  <2>2. PICK h \in HandleType : /\ handle' = [handle EXCEPT ![p] = h]
                                /\ h.agent = handle[p].agent
                                /\ h.history = handle[p].history
    BY <1>4, ToolRun
  <2> QED BY <2>1, <2>2, AskingKept
<1>5. CASE NextRound(p)
  <2>1. /\ pc[p] = "tools" /\ pc' = [pc EXCEPT ![p] = "model"]
        /\ UNCHANGED <<run, storeVars, emitted, failed>>
    BY <1>5 DEF NextRound, Goto, historyVars
  <2>2. PICK h \in HandleType : /\ handle' = [handle EXCEPT ![p] = h]
                                /\ h.agent = handle[p].agent
                                /\ h.history = handle[p].history
    BY <1>5, RoundOver
  <2> QED BY <2>1, <2>2, AskingKept
<1>6. CASE SaveInMemory(p)
  <2>1. /\ pc[p] = "save" /\ pc' = [pc EXCEPT ![p] = "emit"]
        /\ UNCHANGED <<run, handle, emitted, failed>>
        /\ store' = IF handle[p].agent.memory
                      THEN [store EXCEPT ![Mine(p)] = Updated(handle[p])] ELSE store
    BY <1>6 DEF SaveInMemory, Goto, historyVars
  <2>2. store'[s] = IF handle[p].agent.memory /\ Mine(p) = s
                      THEN Updated(handle[p]) ELSE store[s]
    BY <1>0, <2>1
  <2> QED BY <2>1, <2>2, SavedKept
<1>7. CASE Truncate(p)
  BY <1>7, TruncatedKept
<1>8. CASE Write(p)
  <2> DEFINE found == store[Mine(p)]
  <2>1. /\ pc[p] = "write" /\ pc' = [pc EXCEPT ![p] = "emit"]
        /\ UNCHANGED <<run, handle, emitted, failed>>
        /\ handle[p].agent.memory
    BY <1>8 DEF Write, Goto, historyVars, HandleInv, Placed, InFile
  <2>2. PICK n \in 1..Len(found) + 1 :
          store' = [store EXCEPT ![Mine(p)] = Updated(handle[p]) \o SubSeq(found, n, Len(found))]
    BY <1>8 DEF Write
  <2>3. CASE Mine(p) # s
    <3>1. store'[s] = store[s]
      BY <1>0, <2>2, <2>3
    <3> QED BY <2>1, <2>3, <3>1, SavedKept
  <2>4. CASE Mine(p) = s
    <3>1. found = <<>>
      BY <2>1, <2>4 DEF KeptAt, Uses, Writes
    <3>2. n = 1 /\ Len(found) = 0
      BY <2>2, <3>1
    <3>3. SubSeq(found, n, Len(found)) = <<>>
      BY <3>1, <3>2, SubSeqEmpty
    <3>4. store'[s] = Updated(handle[p]) \o <<>>
      <4> HIDE DEF found
      <4> QED BY <1>0, <2>2, <2>4, <3>3
    <3>5. Updated(handle[p]) \in Seq(Message)
      BY <2>1, HandleTyped, UpdatedType DEF Busy
    <3>6. store'[s] = Updated(handle[p])
      BY <3>4, <3>5, ConcatEmptySeq
    <3> QED BY <2>1, <2>4, <3>6, SavedKept
  <2> QED BY <2>3, <2>4
<1>9. CASE Emit(p)
  BY <1>9, EmitKept
<1> QED BY <1>2, <1>3, <1>4, <1>5, <1>6, <1>7, <1>8, <1>9 DEF Step

\* A slot that is torn or overlapped stays so.
LEMMA LostForGood ==
  ASSUME TypeInv, HandleInv, [Next]_vars
  PROVE  torn \subseteq torn' /\ overlapped \subseteq overlapped'
<1>1. CASE UNCHANGED vars
  BY <1>1 DEF vars, historyVars
<1>2. ASSUME NEW p \in Procs, StartRun(p)
      PROVE  torn' = torn /\ overlapped' = overlapped
  BY <1>2 DEF StartRun, historyVars
<1>3. ASSUME NEW p \in Procs, NEW a \in MyAgents(p), Handle(p, a)
      PROVE  torn' = torn /\ overlapped \subseteq overlapped'
  BY <1>3 DEF Handle
<1>4. ASSUME NEW p \in Procs, Step(p), ~IterationsExceeded(p)
      PROVE  torn' = torn /\ overlapped' = overlapped
  BY <1>4, Zenon DEF Step, ModelAnswers, ModelAsksForTools, RunTool, NextRound,
              SaveInMemory, Truncate, Write, Emit, historyVars
<1>5. ASSUME NEW p \in Procs, Quits(p)
      PROVE  torn \subseteq torn' /\ overlapped' = overlapped
  BY <1>5, Left
<1>6. CASE Next
  BY <1>2, <1>3, <1>4, <1>5, <1>6 DEF Next, Quits
<1> QED BY <1>1, <1>6

LEMMA KeptNext ==
  ASSUME TypeInv, HandleInv, OrderInv, FreshInv, KeptInv, [Next]_vars
  PROVE  KeptInv'
<1> SUFFICES ASSUME NEW s \in Slots, s \notin torn', s \notin overlapped'
             PROVE  KeptAt(s)'
  BY DEF KeptInv
<1>1. KeptAt(s)
  BY LostForGood DEF KeptInv
<1>2. CASE UNCHANGED vars
  <2>1. \A p \in Procs : Leaves(p, s)
    BY <1>2, Bystander DEF vars
  <2>2. store' = store /\ emitted' = emitted /\ failed' = failed
    BY <1>2 DEF vars, storeVars, historyVars
  <2> QED BY <1>1, <2>1, <2>2, StaysKept
<1>3. ASSUME NEW p \in Procs, StartRun(p)
      PROVE  KeptAt(s)'
  <2>1. /\ pc[p] = "off" /\ pc' = [pc EXCEPT ![p] = "idle"] /\ handle' = handle
        /\ store' = store /\ emitted' = emitted /\ failed' = failed
    BY <1>3 DEF StartRun, Goto, storeVars, historyVars
  <2>2. PICK x : run' = [run EXCEPT ![p] = x]
    BY <1>3 DEF StartRun
  <2>3. ASSUME NEW q \in Procs PROVE Leaves(q, s)
    <3>1. DOMAIN pc = Procs /\ DOMAIN run = Procs
      BY DEF TypeInv
    <3>2. CASE q = p
      BY <2>1, <3>1, <3>2 DEF Leaves, Uses, Writes, Waits
    <3>3. CASE q # p
      <4>1. pc'[q] = pc[q] /\ run'[q] = run[q]
        BY <2>1, <2>2, <3>1, <3>3
      <4> QED BY <2>1, <4>1, Bystander
    <3> QED BY <3>2, <3>3
  <2> QED BY <1>1, <2>1, <2>3, StaysKept
<1>4. ASSUME NEW p \in Procs, NEW a \in MyAgents(p), Handle(p, a)
      PROVE  KeptAt(s)'
  BY <1>1, <1>4, BeginsKept
<1>5. ASSUME NEW p \in Procs, Step(p), ~IterationsExceeded(p)
      PROVE  KeptAt(s)'
  BY <1>1, <1>5, StepKept
<1>6. ASSUME NEW p \in Procs, Quits(p)
      PROVE  KeptAt(s)'
  BY <1>1, <1>6, QuitsKept
<1>7. CASE Next
  BY <1>3, <1>4, <1>5, <1>6, <1>7 DEF Next, Quits
<1> QED BY <1>2, <1>7

LEMMA KeptHolds == Spec => [](TypeInv /\ HandleInv /\ FreshInv /\ KeptInv)
<1>1. Init => FreshInv /\ KeptInv
  <2> SUFFICES ASSUME Init PROVE FreshInv /\ KeptInv
    OBVIOUS
  <2>1. FreshInv
    BY DEF Init, FreshInv, Unsaved, Busy
  <2>2. ASSUME NEW s \in Slots PROVE KeptAt(s)
    <3>1. /\ \A p \in Procs : ~Uses(p, s) /\ ~Waits(p, s)
          /\ store[s] = <<>> /\ emitted[s] = <<>>
      BY DEF Init, Uses, Waits
    <3>2. Whole(<<>>) /\ Ordered(<<>>)
      BY DEF Whole, Ordered
    <3> QED BY <3>1, <3>2 DEF KeptAt, Good
  <2> QED BY <2>1, <2>2 DEF KeptInv
<1>2. TypeInv /\ HandleInv /\ OrderInv /\ FreshInv /\ KeptInv /\ [Next]_vars
        => FreshInv' /\ KeptInv'
  BY FreshNext, KeptNext
<1> QED BY <1>1, <1>2, OrderHolds, PTL DEF Spec

\* Whatever fails, is killed or runs at the same time, a history that no
\* write was cut short in and no two runs used at once holds whole turns,
\* a question before its answer, without tool calls and without anything
\* of a Handle call that returned an error.
THEOREM WholeTurnsHolds == Spec => []WholeTurns
<1>1. TypeInv /\ HandleInv /\ SpokenInv /\ KeptInv => WholeTurns
  <2> SUFFICES ASSUME HandleInv, SpokenInv, KeptInv, NEW s \in Slots \ (torn \cup overlapped),
                      NEW k \in DOMAIN store[s]
               PROVE  /\ store[s][k].role \in {"user", "assistant"}
                      /\ store[s][k].calls = <<>>
                      /\ store[s][k].turn \notin failed
                      /\ store[s][k].role = "user" =>
                           /\ k < Len(store[s])
                           /\ store[s][k + 1] = Plain("assistant", store[s][k].turn)
    BY DEF WholeTurns
  <2>1. Spoken(store[s][k])
    BY DEF SpokenInv
  <2>2. KeptAt(s)
    BY DEF KeptInv
  <2>3. ASSUME NEW p \in Procs PROVE ~Writes(p, s)
    <3> SUFFICES ASSUME Writes(p, s) PROVE FALSE
      OBVIOUS
    <3>1. Uses(p, s)
      BY DEF Uses, Writes, HandleInv, Placed, InFile
    <3>2. store[s] = <<>>
      BY <2>2, <3>1 DEF KeptAt
    <3> QED BY <3>2
  <2>4. Good(s, store[s])
    BY <2>2, <2>3 DEF KeptAt
  <2> QED BY <2>1, <2>4 DEF Good, Whole, Spoken
<1> QED BY <1>1, KeptHolds, SpokenHolds, PTL

\* Of such a history nothing that was emitted is lost: each answer a run has
\* emitted is in what is stored, the turns are in order, and what a Handle
\* call has loaded is still what is stored when it saves.
THEOREM RememberedHolds == Spec => []Remembered
<1>1. TypeInv /\ HandleInv /\ KeptInv => Remembered
  <2> SUFFICES ASSUME KeptInv, NEW s \in Slots \ (torn \cup overlapped), Settled(s)
               PROVE  /\ \A i \in DOMAIN emitted[s] : emitted[s][i] \in Answers(store[s])
                      /\ \A p \in Procs : Uses(p, s) => handle[p].history = store[s]
                      /\ \A i, j \in DOMAIN store[s] :
                           i < j => store[s][i].turn <= store[s][j].turn
    BY DEF Remembered
  <2>1. KeptAt(s) /\ \A p \in Procs : ~Writes(p, s)
    BY DEF KeptInv, Settled, Writes
  <2>2. Good(s, store[s])
    BY <2>1 DEF KeptAt
  <2>3. \A p \in Procs : Uses(p, s) => handle[p].history = store[s]
    BY <2>1 DEF KeptAt
  <2> QED BY <2>2, <2>3 DEF Good, Ordered
<1> QED BY <1>1, KeptHolds, PTL

==============================================================================

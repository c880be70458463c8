-------------------------------- MODULE Agent --------------------------------
(***************************************************************************)
(* AgentComponent.Handle and the memory behind it: load the history of the *)
(* session, ask the model, run the tools it asks for until it gives an     *)
(* answer, save the history with the new turn, emit the answer.            *)
(*                                                                         *)
(* Each process is one `orh run`: a goroutine that hands one event after   *)
(* another to the agents of its architecture.  With --session the history  *)
(* is a file that outlives the process and that other processes may use at *)
(* the same time, without it a map of the process.  A file is rewritten in *)
(* two steps, truncation and write; the write can fail half-way and a      *)
(* process can be killed anywhere.                                         *)
(*                                                                         *)
(* The model is external: it answers, asks for tools (known or not, with   *)
(* call ids or without), or fails.  A text is the number of its turn; a    *)
(* name is the sequence of its parts, so that a separator can be replaced. *)
(***************************************************************************)
EXTENDS Naturals, Sequences, SequencesExt

CONSTANTS
  Procs,              \* the processes that may run at once
  Agents,             \* agents of any architecture, see Agent
  Sessions,           \* the values of --session; NoSession is no flag
  ModelOverride,      \* the provider that --model names in each process
  Requests,           \* the lists of tool calls a model may answer with
  Silent,             \* the turns whose event has no text
  MaxToolIterations,  \* of the agents, 8 by default
  MaxTurns,           \* bound on the events handled
  MaxFaults           \* bound on failures and kills

NoId == <<>>
NoSession == <<>>
NoOverride == "none"

\* The provider decides what a conversation looks like on the wire.
Agent == [architecture : Seq(STRING), component : Seq(STRING),
          provider : {"openai", "ollama"}, tools : SUBSET STRING, memory : BOOLEAN]

NoAgent == [architecture |-> <<>>, component |-> <<>>, provider |-> "ollama",
            tools |-> {}, memory |-> FALSE]

ASSUME AgentAssumption ==
  /\ Agents \subseteq Agent
  /\ "file" \notin Procs
  /\ ModelOverride \in [Procs -> {"openai", "ollama", NoOverride}]
  /\ \A s \in Sessions : s \in Seq(STRING)
  /\ \A calls \in Requests :
       /\ calls \in Seq([id : Seq(STRING), name : STRING])
       /\ calls # <<>>
  /\ Silent \subseteq Nat
  /\ MaxToolIterations \in Nat \ {0}
  /\ {MaxTurns, MaxFaults} \subseteq Nat

------------------------------------------------------------------------------
(* Session keys and where a history is kept *)

\* Variant: one history for all agents of an architecture.
architectureKey(s, a) ==
  (IF s = NoSession THEN <<>> ELSE s \o <<":">>) \o a.architecture

memoryKey(s, a) ==
  (IF s = NoSession THEN <<>> ELSE s \o <<":">>)
    \o a.architecture \o <<":">> \o a.component

safeFilename(key) ==
  [i \in DOMAIN key |-> IF key[i] \in {"/", "\\", ".."} THEN "_" ELSE key[i]]

Remembering == {a \in Agents : a.memory}

\* The map of a process or the file, with the key of the history.
Slots ==
  {<<p, memoryKey(NoSession, a)>> : p \in Procs, a \in Remembering}
    \cup {<<"file", safeFilename(memoryKey(s, a))>> :
            s \in Sessions \ {NoSession}, a \in Remembering}

------------------------------------------------------------------------------
(* Messages, and what each provider makes of them *)

Turns == 1..MaxTurns

GeneratedId(i, j) == <<i, j>>

Ids ==
  {NoId}
    \cup (UNION {{calls[j].id : j \in DOMAIN calls} : calls \in Requests})
    \cup {GeneratedId(i, j) : i \in 0..MaxToolIterations,
                              j \in UNION {DOMAIN calls : calls \in Requests}}

Message == [role : {"user", "assistant", "tool"}, turn : Turns,
            calls : Seq([id : Ids, name : STRING]), id : Ids]

Plain(role, n) == [role |-> role, turn |-> n, calls |-> <<>>, id |-> NoId]

WithoutIds(calls) == [j \in DOMAIN calls |-> [calls[j] EXCEPT !.id = NoId]]

\* The calls of a response: Ollama's have no ids.
fromMessage(provider, calls) ==
  IF provider = "ollama" THEN WithoutIds(calls) ELSE calls

\* A conversation as it is sent.  Ollama's messages carry no ids either; the
\* flat prompt of an agent without tools has no calls to begin with.
toMessages(provider, msgs) ==
  IF provider = "ollama"
    THEN [k \in DOMAIN msgs |-> [msgs[k] EXCEPT !.id = NoId,
                                                !.calls = WithoutIds(@)]]
    ELSE msgs

\* What comes back for a request, other than tool calls.  "empty" is a
\* well-formed body with nothing in it, "created" an answer under a status
\* other than 200 that is a success all the same.
Replies == {"answer", "empty", "created", "status", "undecodable", "error", "none"}

\* Chat returns an error.
RefusedByOpenAI(reply) == reply \in {"empty", "status", "undecodable", "error", "none"}
RefusedByOllama(reply) == reply \in {"created", "status", "undecodable", "error", "none"}

\* So does Ollama's Generate, for the single prompt of an agent without tools;
\* OpenAI's is its Chat.
RefusedByGenerate(reply) == RefusedByOllama(reply)

Refuses(provider, tools, reply) ==
  IF provider = "openai" THEN RefusedByOpenAI(reply)
  ELSE IF tools = {} THEN RefusedByGenerate(reply)
  ELSE RefusedByOllama(reply)

------------------------------------------------------------------------------
VARIABLES
  pc,          \* where each process is; "off" outside of `orh run`
  run,         \* the session and the architecture of its run
  handle,      \* the locals of its Handle call
  store,       \* the messages kept for each slot
  readable,    \* the slots whose file parses
  faults,
  owner,       \* history: whose turn each one is, in order
  emitted,     \* history: the turns emitted from each slot, in order
  failed,      \* history: the turns that ended with an error
  torn,        \* history: the slots with a write that was cut short
  overlapped   \* history: the slots two processes have used at once

storeVars == <<store, readable>>
historyVars == <<owner, emitted, failed, torn, overlapped>>
vars == <<pc, run, handle, storeVars, faults, historyVars>>

\* Of a turn without memory, or of a run that has ended with its memory.
Nobody == <<"nobody">>

NoRun == [session |-> NoSession, architecture |-> <<>>]

\* request holds the tool calls of the last response, answered how many of
\* them have their result, round the responses that asked for tools so far.
NoHandle == [agent |-> NoAgent, turn |-> 0, history |-> <<>>,
             messages |-> <<>>, request |-> <<>>, answered |-> 0, round |-> 0]

Init ==
  /\ pc = [p \in Procs |-> "off"]
  /\ run = [p \in Procs |-> NoRun]
  /\ handle = [p \in Procs |-> NoHandle]
  /\ store = [s \in Slots |-> <<>>]
  /\ readable = Slots
  /\ faults = 0
  /\ owner = <<>>
  /\ emitted = [s \in Slots |-> <<>>]
  /\ failed = {}
  /\ torn = {}
  /\ overlapped = {}

Fault == faults < MaxFaults /\ faults' = faults + 1

Goto(p, where) == pc' = [pc EXCEPT ![p] = where]

Key(p, a) == memoryKey(run[p].session, a)

\* Of an agent with memory.
Slot(p, a) ==
  IF run[p].session = NoSession THEN <<p, Key(p, a)>>
                                ELSE <<"file", safeFilename(Key(p, a))>>

\* Whose history it is: of this run alone when there is no session.
Owner(p, a) ==
  IF ~a.memory THEN Nobody
  ELSE <<IF run[p].session = NoSession THEN p ELSE "file",
         run[p].session, a.architecture, a.component>>

Mine(p) == Slot(p, handle[p].agent)

\* Set for all agents of the run by --model.
Provider(p) ==
  IF ModelOverride[p] = NoOverride THEN handle[p].agent.provider ELSE ModelOverride[p]

\* The process uses a session: between its load and the end of its save.
Uses(p, s) ==
  /\ pc[p] \in {"model", "tools", "save", "write"}
  /\ handle[p].agent.memory
  /\ Mine(p) = s

\* The process ends, and its in-memory store with it.
Exit(p) ==
  /\ Goto(p, "off")
  /\ run' = [run EXCEPT ![p] = NoRun]
  /\ handle' = [handle EXCEPT ![p] = NoHandle]
  /\ emitted' = [s \in Slots |-> IF s[1] = p THEN <<>> ELSE emitted[s]]

StoreWithout(p) == [s \in Slots |-> IF s[1] = p THEN <<>> ELSE store[s]]

Disowned(p) ==
  [i \in DOMAIN owner |-> IF owner[i][1] = p THEN Nobody ELSE owner[i]]

\* Handle returns an error, which ends the run.
Fail(p) ==
  /\ Exit(p)
  /\ owner' = Disowned(p)
  /\ failed' = failed \cup {handle[p].turn}

------------------------------------------------------------------------------
(* `orh run`: one event after another *)

StartRun(p) ==
  /\ pc[p] = "off"
  /\ Len(owner) < MaxTurns
  /\ \E s \in Sessions, a \in Agents :
       run' = [run EXCEPT ![p] = [session |-> s, architecture |-> a.architecture]]
  /\ Goto(p, "idle")
  /\ UNCHANGED <<handle, storeVars, faults, historyVars>>

EndRun(p) ==
  /\ pc[p] = "idle"
  /\ Exit(p)
  /\ owner' = Disowned(p)
  /\ store' = StoreWithout(p)
  /\ UNCHANGED <<readable, faults, failed, torn, overlapped>>

MyAgents(p) == {a \in Agents : a.architecture = run[p].architecture}

Loaded(p, a) == IF a.memory THEN store[Slot(p, a)] ELSE <<>>

\* Empty when the event has no text.
Question(turn) == IF turn \in Silent THEN <<>> ELSE <<Plain("user", turn)>>

\* Handle up to the first model call; the system prompt is left out.
Handle(p, a) ==
  /\ pc[p] = "idle"
  /\ Len(owner) < MaxTurns
  /\ a.memory => Slot(p, a) \in readable
  /\ LET turn == Len(owner) + 1 IN
       handle' = [handle EXCEPT ![p] =
         [NoHandle EXCEPT !.agent = a, !.turn = turn, !.history = Loaded(p, a),
                          !.messages = Loaded(p, a) \o Question(turn)]]
  /\ owner' = Append(owner, Owner(p, a))
  /\ overlapped' = IF \E q \in Procs \ {p} : a.memory /\ Uses(q, Slot(p, a))
                     THEN overlapped \cup {Slot(p, a)} ELSE overlapped
  /\ Goto(p, "model")
  /\ UNCHANGED <<run, storeVars, faults, emitted, failed, torn>>

\* A line of the session file does not parse, or the file cannot be read.
LoadFails(p, a) ==
  /\ pc[p] = "idle"
  /\ Len(owner) < MaxTurns
  /\ a.memory
  /\ \/ Slot(p, a) \notin readable /\ UNCHANGED faults
     \/ run[p].session # NoSession /\ Fault
  /\ Exit(p)
  /\ owner' = Append(owner, Owner(p, a))
  /\ failed' = failed \cup {Len(owner')}
  /\ store' = StoreWithout(p)
  /\ UNCHANGED <<readable, torn, overlapped>>

------------------------------------------------------------------------------
(* handleSimple and the tool-calling loop *)

MoreRounds(h) == h.agent.tools = {} \/ h.round < MaxToolIterations

ModelAnswers(p) ==
  /\ pc[p] = "model"
  /\ MoreRounds(handle[p])
  /\ \E reply \in Replies : ~Refuses(Provider(p), handle[p].agent.tools, reply)
  /\ Goto(p, "save")
  /\ UNCHANGED <<run, handle, storeVars, faults, historyVars>>

ModelAsksForTools(p) ==
  /\ pc[p] = "model"
  /\ MoreRounds(handle[p])
  /\ handle[p].agent.tools # {}
  /\ \E request \in Requests :
       LET calls == fromMessage(Provider(p), request)
       IN  handle' = [handle EXCEPT ![p].request = calls, ![p].answered = 0,
             ![p].messages = Append(@, [Plain("assistant", handle[p].turn)
                                       EXCEPT !.calls = calls])]
  /\ Goto(p, "tools")
  /\ UNCHANGED <<run, storeVars, faults, historyVars>>

ModelFails(p) ==
  /\ pc[p] = "model"
  /\ MoreRounds(handle[p])
  /\ \E reply \in Replies : Refuses(Provider(p), handle[p].agent.tools, reply)
  /\ Fault
  /\ Fail(p)
  /\ store' = StoreWithout(p)
  /\ UNCHANGED <<readable, torn, overlapped>>

IterationsExceeded(p) ==
  /\ pc[p] = "model"
  /\ ~MoreRounds(handle[p])
  /\ Fail(p)
  /\ store' = StoreWithout(p)
  /\ UNCHANGED <<readable, faults, torn, overlapped>>

NextCall(h) == h.request[h.answered + 1]

\* The result of a tool, its error, and the error for an unknown tool are
\* handed to the model alike.
ToolResult(h) ==
  [Plain("tool", h.turn) EXCEPT
     !.id = IF NextCall(h).id = NoId THEN GeneratedId(h.round, h.answered + 1)
                                     ELSE NextCall(h).id]

MoreCalls(p) == pc[p] = "tools" /\ handle[p].answered < Len(handle[p].request)

\* Variant: an unknown tool is skipped.
RunKnownTool(p) ==
  /\ MoreCalls(p)
  /\ handle' = [handle EXCEPT ![p].answered = @ + 1,
       ![p].messages = IF NextCall(handle[p]).name \in handle[p].agent.tools
                         THEN Append(@, ToolResult(handle[p])) ELSE @]
  /\ UNCHANGED <<pc, run, storeVars, faults, historyVars>>

\* Variant: the loop over the calls does not get past an unknown tool.
RunToolOrSpin(p) ==
  /\ MoreCalls(p)
  /\ handle' = IF NextCall(handle[p]).name \in handle[p].agent.tools
                 THEN [handle EXCEPT ![p].answered = @ + 1,
                         ![p].messages = Append(@, ToolResult(handle[p]))]
                 ELSE handle
  /\ UNCHANGED <<pc, run, storeVars, faults, historyVars>>

RunTool(p) ==
  /\ MoreCalls(p)
  /\ handle' = [handle EXCEPT ![p].answered = @ + 1,
                              ![p].messages = Append(@, ToolResult(handle[p]))]
  /\ UNCHANGED <<pc, run, storeVars, faults, historyVars>>

NextRound(p) ==
  /\ pc[p] = "tools" /\ ~MoreCalls(p)
  /\ handle' = [handle EXCEPT ![p].round = @ + 1, ![p].request = <<>>,
                              ![p].answered = 0]
  /\ Goto(p, "model")
  /\ UNCHANGED <<run, storeVars, faults, historyVars>>

------------------------------------------------------------------------------
(* saveHistory, and Save of both stores *)

NewTurn(h) == Question(h.turn) \o <<Plain("assistant", h.turn)>>

\* Variant: what was said to the model is saved, tool calls included.
UpdatedWithTools(h) == h.messages \o <<Plain("assistant", h.turn)>>

\* Variant: only the new turn is saved.
UpdatedAlone(h) == NewTurn(h)

Updated(h) == h.history \o NewTurn(h)

InFile(p) == handle[p].agent.memory /\ run[p].session # NoSession

\* InMemoryStore.Save; an agent without memory saves nothing.
SaveInMemory(p) ==
  /\ pc[p] = "save"
  /\ ~InFile(p)
  /\ store' = IF handle[p].agent.memory
                THEN [store EXCEPT ![Mine(p)] = Updated(handle[p])] ELSE store
  /\ Goto(p, "emit")
  /\ UNCHANGED <<run, handle, readable, faults, historyVars>>

Truncate(p) ==
  /\ pc[p] = "save"
  /\ InFile(p)
  /\ store' = [store EXCEPT ![Mine(p)] = <<>>]
  /\ readable' = readable \cup {Mine(p)}
  /\ Goto(p, "write")
  /\ UNCHANGED <<run, handle, faults, historyVars>>

\* The write begins at the start of the file.  Of what another process has
\* written since the truncation, the part that is longer stays: whole lines,
\* or a remainder of a line that does not parse.
Write(p) ==
  /\ pc[p] = "write"
  /\ LET found == store[Mine(p)] IN
       \E n \in 1..Len(found) + 1 :
         store' = [store EXCEPT ![Mine(p)] =
                     Updated(handle[p]) \o SubSeq(found, n, Len(found))]
  /\ readable' \in {readable} \cup
       (IF store[Mine(p)] = <<>> THEN {} ELSE {readable \ {Mine(p)}})
  /\ Goto(p, "emit")
  /\ UNCHANGED <<run, handle, faults, historyVars>>

\* The directory cannot be made or the file not be opened.
SaveFails(p) ==
  /\ pc[p] = "save"
  /\ InFile(p)
  /\ Fault
  /\ Fail(p)
  /\ UNCHANGED <<storeVars, torn, overlapped>>

\* A full disk: some of the messages are written, the last of them partly.
WriteFails(p) ==
  /\ pc[p] = "write"
  /\ Fault
  /\ Fail(p)
  /\ \E n \in 0..Len(Updated(handle[p])) :
       store' = [store EXCEPT ![Mine(p)] = SubSeq(Updated(handle[p]), 1, n)]
  /\ readable' \in {readable, readable \ {Mine(p)}}
  /\ torn' = torn \cup {Mine(p)}
  /\ UNCHANGED overlapped

Emit(p) ==
  /\ pc[p] = "emit"
  /\ emitted' = IF handle[p].agent.memory
                  THEN [emitted EXCEPT ![Mine(p)] = Append(@, handle[p].turn)]
                  ELSE emitted
  /\ handle' = [handle EXCEPT ![p] = NoHandle]
  /\ Goto(p, "idle")
  /\ UNCHANGED <<run, storeVars, faults, owner, failed, torn, overlapped>>

Killed(p) ==
  /\ pc[p] \notin {"off", "idle"}
  /\ Fault
  /\ Exit(p)
  /\ store' = StoreWithout(p)
  /\ torn' = IF pc[p] = "write" THEN torn \cup {Mine(p)} ELSE torn
  /\ owner' = Disowned(p)
  /\ UNCHANGED <<readable, failed, overlapped>>

------------------------------------------------------------------------------
Step(p) ==
  \/ ModelAnswers(p) \/ ModelAsksForTools(p) \/ IterationsExceeded(p)
  \/ RunTool(p) \/ NextRound(p)
  \/ SaveInMemory(p) \/ Truncate(p) \/ Write(p) \/ Emit(p)

Next ==
  \E p \in Procs :
    \/ StartRun(p) \/ EndRun(p)
    \/ \E a \in MyAgents(p) : Handle(p, a) \/ LoadFails(p, a)
    \/ Step(p)
    \/ ModelFails(p) \/ SaveFails(p) \/ WriteFails(p) \/ Killed(p)

Spec == Init /\ [][Next]_vars

\* Handle never waits, provided the model and the tools answer.
FairSpec == Spec /\ \A p \in Procs : WF_vars(Step(p))

------------------------------------------------------------------------------
(* Properties *)

TypeOK ==
  /\ pc \in [Procs -> {"off", "idle", "model", "tools", "save", "write", "emit"}]
  /\ \A p \in Procs :
       /\ handle[p].turn \in 0..MaxTurns /\ handle[p].round \in 0..MaxToolIterations
       /\ handle[p].history \in Seq(Message) /\ handle[p].messages \in Seq(Message)
       /\ handle[p].answered \in 0..Len(handle[p].request)
  /\ \A s \in Slots : store[s] \in Seq(Message) /\ emitted[s] \in Seq(Turns)
  /\ readable \subseteq Slots
  /\ faults \in 0..MaxFaults
  /\ failed \subseteq Turns

\* Whenever the model is asked, each of its tool calls is followed on the wire
\* by exactly one result, in the order of the calls and, where the provider
\* transmits ids, under the id the call has; a result stands nowhere else.
\* Providers refuse a conversation that is not so, and Ollama tells results
\* apart by their order alone.  (A call without an id gets a generated one.)
ToolCallsAnswered ==
  \A p \in {q \in Procs : pc[q] = "model"} :
    LET provider == Provider(p)
        wire == toMessages(provider, handle[p].messages)
        asked == {k \in DOMAIN wire : wire[k].calls # <<>>}
        resultOf(k, j) == k + j \in DOMAIN wire /\ wire[k + j].role = "tool"
    IN  /\ \A k \in asked : \A j \in DOMAIN wire[k].calls :
             /\ resultOf(k, j)
             /\ wire[k].calls[j].id \in {NoId, wire[k + j].id}
             /\ provider = "openai" => wire[k + j].id # NoId
        /\ \A i \in DOMAIN wire : wire[i].role = "tool" =>
             \E k \in asked : i - k \in DOMAIN wire[k].calls

Answers(msgs) == {msgs[k].turn : k \in {i \in DOMAIN msgs : msgs[i].role = "assistant"}}

\* No save of a slot is under way.
Settled(s) == \A p \in Procs : ~(pc[p] = "write" /\ Mine(p) = s)

\* An answer that was emitted is remembered by the next turn and by all turns
\* after it, in the order of the turns and once only, as long as the history
\* is meant to live: a file for good, a map as long as its process.  The two
\* ways to lose one are a write that was cut short and two runs of one session
\* at once.
Remembered ==
  \A s \in Slots \ (torn \cup overlapped) : Settled(s) =>
    /\ \A i \in DOMAIN emitted[s] : emitted[s][i] \in Answers(store[s])
    /\ \A p \in Procs : Uses(p, s) => handle[p].history = store[s]
    /\ \A i, j \in DOMAIN store[s] : i < j => store[s][i].turn <= store[s][j].turn

\* A history holds whole turns, a question before its answer, never the tool
\* calls of a turn, whose results it does not keep, and nothing of a turn that
\* failed, whose event can be sent again.
WholeTurns ==
  \A s \in Slots \ (torn \cup overlapped) : \A k \in DOMAIN store[s] :
    /\ store[s][k].role \in {"user", "assistant"} /\ store[s][k].calls = <<>>
    /\ store[s][k].turn \notin failed
    /\ store[s][k].role = "user" =>
         /\ k < Len(store[s])
         /\ store[s][k + 1] = Plain("assistant", store[s][k].turn)

\* "different sessions/components never share history" (agent.go): what a
\* Handle call has loaded are turns of the same component in the same session
\* (or, without one, in the same run), whatever overlaps or is cut short.  True
\* of names without separators; plan/a and plan_a are one file.
SessionsApart ==
  \A p \in Procs : \A k \in DOMAIN handle[p].history :
    owner[handle[p].history[k].turn] = Owner(p, handle[p].agent)

\* Every Handle call returns, a model that always asks for tools included.
HandleEnds == \A p \in Procs : pc[p] \notin {"off", "idle"} ~> pc[p] \in {"off", "idle"}

==============================================================================

------------------------------ MODULE NodeHost ------------------------------
(***************************************************************************)
(* One WASM node: the component (nodes.NodeComponent), the sandbox it runs *)
(* its module in and the host functions the module may call (internal/     *)
(* wasm), and the side of those calls that the guest SDK runs (sdk/node).  *)
(*                                                                         *)
(* A block of guest memory is one cell; its address and its length cross   *)
(* the boundary packed in one word, and what is written there is read      *)
(* back.  Only the blocks the host asks for are counted, and none is freed *)
(* (-gc=leaking, the second way out that the comment at bufPtr names).     *)
(* What a handler computes and emits is the guest's own: it may call the   *)
(* host in any order, and it returns or traps.                             *)
(***************************************************************************)
EXTENDS Naturals, Sequences

CONSTANTS
  Keys, Values,  \* what a node stores and is told; Empty is the empty string
  Empty,
  Targets,       \* model slots and tools a node may name in a call
  Allowed,       \* those its manifest permits
  Available,     \* those that exist: model slots and registered tools
  MaxHeap,       \* the blocks guest memory has room for
  MaxHandles     \* bounds the events handled in a run

ASSUME HostAssumption ==
  /\ Empty \in Values
  /\ MaxHeap \in Nat /\ MaxHandles \in Nat

VARIABLES
  life,      \* where the component is between its construction and Shutdown
  mu,        \* whether Init holds NodeComponent.mu
  module,    \* whether NodeComponent.module is set
  state,     \* NodeComponent.state, Unset where a key has no value
  heap,      \* the blocks of guest memory handed out by alloc
  call,      \* the host function the guest is in
  word,      \* the packed word the host returned to the guest
  told,      \* the answer the SDK gave the guest last
  reached,   \* what the last call of a model or tool came to in the host
  written,   \* history: the value the guest stored last under each key
  handles    \* the events handled so far

component == <<life, mu, module, handles>>
guest == <<call, word, told>>
vars == <<component, state, heap, guest, reached, written>>

Unset == "unset"
NoCall == [fn |-> "none", arg |-> Empty, value |-> Empty]
NoAnswer == [fn |-> "none", arg |-> Empty, ok |-> FALSE, text |-> Empty]

\* The envelope of a model or tool call, here of one that failed.
Error == [ok |-> FALSE, text |-> Empty]

Init ==
  /\ life = "new" /\ mu = FALSE /\ module = FALSE /\ handles = 0
  /\ state = [k \in Keys |-> Unset]
  /\ heap = <<>>
  /\ call = NoCall /\ word = 0 /\ told = NoAnswer
  /\ reached = "nothing"
  /\ written = [k \in Keys |-> Unset]

------------------------------------------------------------------------------
(* Guest memory. *)

\* Both halves of the word are wider than any address or length.
Half == MaxHeap + 2
pack(ptr, length) == ptr * Half + length
unpack(w) == [ptr |-> w \div Half, length |-> w % Half]

HasRoom == Len(heap) < MaxHeap

\* The host allocates a block in the guest, writes content there and returns
\* the packed word; an empty block has address 0, and a failure returns 0.
Write(content, empty) ==
  IF empty THEN word' = pack(0, 0) /\ UNCHANGED heap
  ELSE IF HasRoom THEN heap' = Append(heap, content) /\ word' = pack(Len(heap'), 1)
  ELSE word' = 0 /\ UNCHANGED heap

------------------------------------------------------------------------------
(* The component. *)

\* Init holds mu while the module is compiled and its start-up runs.
InitBegins ==
  /\ life = "new"
  /\ life' = "loading" /\ mu' = TRUE
  /\ state' = [k \in Keys |-> Unset]
  /\ UNCHANGED <<module, handles, heap, guest, reached, written>>

LoadDone ==
  /\ life = "loading" /\ call = NoCall
  /\ life' = "ready" /\ mu' = FALSE /\ module' = TRUE
  /\ UNCHANGED <<handles, state, heap, guest, reached, written>>

\* The module does not compile, traps, or exports no alloc or handle.
LoadFails ==
  /\ life = "loading" /\ call = NoCall
  /\ life' = "failed" /\ mu' = FALSE
  /\ UNCHANGED <<module, handles, state, heap, guest, reached, written>>

\* Variant: the state is made anew for each event.
HandleWithNewState ==
  /\ life = "ready" /\ module /\ handles < MaxHandles /\ HasRoom
  /\ life' = "handling" /\ handles' = handles + 1
  /\ heap' = Append(heap, "event")
  /\ state' = [k \in Keys |-> Unset]
  /\ UNCHANGED <<mu, module, guest, reached, written>>

\* The event is written into guest memory and handle is called.
Handle ==
  /\ life = "ready" /\ module /\ handles < MaxHandles /\ HasRoom
  /\ life' = "handling" /\ handles' = handles + 1
  /\ heap' = Append(heap, "event")
  /\ UNCHANGED <<mu, module, state, guest, reached, written>>

\* There is no room for the event: Handle returns an error, and the run,
\* which ends with it, shuts the component down.
HandleFails ==
  /\ life = "ready" /\ module /\ ~HasRoom
  /\ life' = "stopping"
  /\ UNCHANGED <<mu, module, handles, state, heap, guest, reached, written>>

\* handle returns the commands, if any, or traps.
HandleReturns ==
  /\ life = "handling" /\ call = NoCall
  /\ life' \in {"ready", "stopping"}
  /\ UNCHANGED <<mu, module, handles, state, heap, guest, reached, written>>

Shutdown ==
  /\ life \in {"ready", "stopping"}
  /\ life' = "down" /\ module' = FALSE
  /\ UNCHANGED <<mu, handles, state, heap, guest, reached, written>>

------------------------------------------------------------------------------
(* Calls of the guest: StateSet, StateGet, and CallModel or CallTool. *)

\* The module runs in its start-up too.
InGuest == call = NoCall /\ life \in {"loading", "handling"}

StateSet(k, v) ==
  /\ InGuest
  /\ call' = [fn |-> "set", arg |-> k, value |-> v]
  /\ told' = NoAnswer
  /\ written' = [written EXCEPT ![k] = v]
  /\ UNCHANGED <<component, state, heap, word, reached>>

StateGet(k) ==
  /\ InGuest
  /\ call' = [fn |-> "get", arg |-> k, value |-> Empty]
  /\ told' = NoAnswer
  /\ UNCHANGED <<component, state, heap, word, reached, written>>

Call(t) ==
  /\ InGuest
  /\ call' = [fn |-> "call", arg |-> t, value |-> Empty]
  /\ told' = NoAnswer
  /\ UNCHANGED <<component, state, heap, word, reached, written>>

(* The host functions; those that touch the state wait for mu. *)

HostStateSet ==
  /\ call.fn = "set" /\ ~mu
  /\ state' = [state EXCEPT ![call.arg] = call.value]
  /\ call' = NoCall
  /\ UNCHANGED <<component, heap, word, told, reached, written>>

HostStateGet ==
  /\ call.fn = "get" /\ ~mu
  /\ IF state[call.arg] = Unset THEN word' = 0 /\ UNCHANGED heap
                                ELSE Write(state[call.arg], state[call.arg] = Empty)
  /\ call' = [call EXCEPT !.fn = "decode state"]
  /\ UNCHANGED <<component, state, told, reached, written>>

\* Variant: what exists may be called.
OutcomesUngated(t) == IF t \notin Available THEN {"undefined"} ELSE Values \cup {"failed"}

\* What CallModel or CallTool comes to: the permission is looked up first,
\* then the slot or the tool, and only then is anything called.
Outcomes(t) ==
  IF t \notin Allowed THEN {"denied"}
  ELSE IF t \notin Available THEN {"undefined"}
  ELSE Values \cup {"failed"}

Answers(outcome) ==
  IF outcome \in Values THEN [ok |-> TRUE, text |-> outcome] ELSE Error

\* Variant: calls of models and tools take the lock too.
HostCallLocked ==
  /\ call.fn = "call" /\ ~mu
  /\ \E outcome \in Outcomes(call.arg) :
       /\ reached' = outcome
       /\ Write(Answers(outcome), FALSE)
  /\ call' = [call EXCEPT !.fn = "decode result"]
  /\ UNCHANGED <<component, state, told, written>>

HostCall ==
  /\ call.fn = "call"
  /\ \E outcome \in Outcomes(call.arg) :
       /\ reached' = outcome
       /\ Write(Answers(outcome), FALSE)
  /\ call' = [call EXCEPT !.fn = "decode result"]
  /\ UNCHANGED <<component, state, told, written>>

(* The SDK reads the answer back: the word 0 is "not set" or "failed". *)

DecodeState ==
  /\ call.fn = "decode state"
  /\ told' = [fn |-> "get", arg |-> call.arg, ok |-> word # 0,
              text |-> IF word = 0 THEN Empty ELSE heap[unpack(word).ptr]]
  /\ call' = NoCall /\ word' = 0
  /\ UNCHANGED <<component, state, heap, reached, written>>

decodeCallResult ==
  /\ call.fn = "decode result"
  /\ LET result == IF word = 0 THEN Error ELSE heap[unpack(word).ptr]
     IN  told' = [fn |-> "call", arg |-> call.arg, ok |-> result.ok, text |-> result.text]
  /\ call' = NoCall /\ word' = 0
  /\ UNCHANGED <<component, state, heap, reached, written>>

------------------------------------------------------------------------------
Guest ==
  \/ \E k \in Keys : StateGet(k) \/ \E v \in Values : StateSet(k, v)
  \/ \E t \in Targets : Call(t)

Host ==
  HostStateSet \/ HostStateGet \/ HostCall \/ DecodeState \/ decodeCallResult

Component ==
  InitBegins \/ LoadDone \/ LoadFails \/ Handle \/ HandleFails \/ HandleReturns
  \/ Shutdown

Next == Guest \/ Host \/ Component

Spec == Init /\ [][Next]_vars

\* The host's steps happen, and neither the start-up nor a handler of the
\* module runs for ever: both get to their end again and again.
FairSpec ==
  /\ Spec
  /\ WF_vars(Host)
  /\ SF_vars(LoadDone \/ LoadFails) /\ SF_vars(HandleReturns)

------------------------------------------------------------------------------
(* Properties *)

TypeOK ==
  /\ life \in {"new", "loading", "ready", "handling", "stopping", "failed", "down"}
  /\ module \in BOOLEAN /\ mu \in BOOLEAN
  /\ state \in [Keys -> Values \cup {Unset}]
  /\ written \in [Keys -> Values \cup {Unset}]
  /\ Len(heap) <= MaxHeap
  /\ unpack(word).ptr \in 0..Len(heap) /\ unpack(word).length \in 0..1
  /\ call \in [fn : {"none", "set", "get", "call", "decode state", "decode result"},
               arg : Keys \cup Targets \cup {Empty}, value : Values]
  /\ told \in [fn : {"none", "get", "call"}, arg : Keys \cup Targets \cup {Empty},
               ok : BOOLEAN, text : Values]
  /\ reached \in Values \cup {"nothing", "denied", "undefined", "failed"}
  /\ handles \in 0..MaxHandles
  /\ mu = (life = "loading")
  /\ module = (life \in {"ready", "handling", "stopping"})

\* A node reads back what it stored last, in whichever event that was.  What
\* it has stored and is told all the same that it has not is the empty string,
\* against the comment on StateGet ("false if the key has never been set"), or
\* anything once the memory of the guest is used up.
StateRemembered ==
  told.fn = "get" =>
    IF told.ok THEN told.text = written[told.arg] /\ written[told.arg] # Empty
               ELSE written[told.arg] \in {Unset, Empty} \/ ~HasRoom

\* No model or tool is called for a node whose manifest does not permit it,
\* and the node is told success, an empty text included, exactly when the
\* call succeeded and its memory has room for the answer (the envelope of
\* callResult).
CallsGated ==
  told.fn = "call" =>
    /\ told.arg \notin Allowed => reached = "denied"
    /\ told.ok => reached = told.text
    /\ ~told.ok => reached \notin Values \/ ~HasRoom

\* Init waits for itself: its module has asked for state, and Init holds mu.
StartUpWaits == mu /\ call.fn \in {"get", "set"}

\* Init and Handle return, whatever calls of models and tools the module makes
\* in its start-up and whatever calls it makes in an event.  What does not
\* return, and never, is Init of a module that asks for state in its start-up.
LifeGoesOn ==
  life \in {"loading", "handling"} ~>
    (life \notin {"loading", "handling"} \/ []StartUpWaits)

==============================================================================

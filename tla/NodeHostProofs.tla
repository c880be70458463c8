--------------------------- MODULE NodeHostProofs ---------------------------
(***************************************************************************)
(* Proofs about module NodeHost, for every set of keys, values and targets *)
(* and every size of guest memory: what a node is told by the host is what *)
(* it stored, or what its call came to.                                    *)
(***************************************************************************)
EXTENDS NodeHost, SequenceTheorems, TLAPS

\* What a block holds.
Blocks == Values \cup {"event"} \cup [ok : BOOLEAN, text : Values]

\* The word is 0, or that of a block which was handed out.
IsWord(w) == w = 0 \/ \E ptr \in 1..Len(heap) : w = pack(ptr, 1)

LifeOK ==
  /\ life \in {"new", "loading", "ready", "handling", "stopping", "failed", "down"}
  /\ mu \in BOOLEAN /\ module \in BOOLEAN
  /\ mu <=> life = "loading"
  /\ module <=> life \in {"ready", "handling", "stopping"}
  /\ handles \in 0..MaxHandles

MemoryOK ==
  /\ heap \in Seq(Blocks) /\ Len(heap) <= MaxHeap
  /\ IsWord(word)

StateOK ==
  /\ state \in [Keys -> Values \cup {Unset}]
  /\ written \in [Keys -> Values \cup {Unset}]

GuestOK ==
  /\ call \in [fn : {"none", "set", "get", "call", "decode state", "decode result"},
               arg : Keys \cup Targets \cup {Empty}, value : Values]
  /\ call.fn \in {"set", "get", "decode state"} => call.arg \in Keys
  /\ told \in [fn : {"none", "get", "call"}, arg : Keys \cup Targets \cup {Empty},
               ok : BOOLEAN, text : Values]
  /\ told.fn = "get" => told.arg \in Keys
  /\ reached \in Values \cup {"nothing", "denied", "undefined", "failed"}

\* The host has what the guest stored last, but for the call under way.
StoredInv ==
  /\ life = "new" => call = NoCall /\ written = [k \in Keys |-> Unset]
  /\ call.fn = "set" => call.value = written[call.arg]
  /\ \A k \in Keys : state[k] = written[k] \/ (call.fn = "set" /\ call.arg = k)

\* What the SDK is about to read is the stored value, or there was none, or
\* no room for it.
GetInv ==
  call.fn = "decode state" =>
    IF word = 0 THEN written[call.arg] \in {Unset, Empty} \/ ~HasRoom
                ELSE /\ heap[unpack(word).ptr] = written[call.arg]
                     /\ written[call.arg] \in Values \ {Empty}

\* So it is with what a call came to.
CallInv ==
  call.fn = "decode result" =>
    /\ reached \in Outcomes(call.arg)
    /\ IF word = 0 THEN ~HasRoom ELSE heap[unpack(word).ptr] = Answers(reached)

------------------------------------------------------------------------------
(* The packed word. *)

LEMMA Unpacked ==
  ASSUME NEW ptr \in Nat, NEW length \in {0, 1}
  PROVE  /\ pack(ptr, length) \in Nat
         /\ pack(ptr, length) = 0 => length = 0
         /\ pack(0, 0) = 0
         /\ unpack(pack(ptr, length)) = [ptr |-> ptr, length |-> length]
  <1> DEFINE h == Half
  <1>1. h \in Nat /\ h >= 2
    BY HostAssumption DEF Half
  <1> HIDE DEF h
  <1>2. ptr * h \in Nat /\ 0 * h = 0
    BY <1>1
  <1>3. (ptr * h + length) \div h = ptr /\ (ptr * h + length) % h = length
    BY <1>1, Z3
  <1>4. QED
    BY <1>2, <1>3 DEF pack, unpack, h

LEMMA WordRead ==
  ASSUME MemoryOK
  PROVE  /\ unpack(word).ptr \in 0..Len(heap) /\ unpack(word).length \in 0..1
         /\ word # 0 => unpack(word).ptr \in 1..Len(heap)
  <1>1. Len(heap) \in Nat
    <2>1. heap \in Seq(Blocks)
      BY DEF MemoryOK
    <2>2. QED
      BY <2>1
  <1>2. CASE word = 0
    <2>1. unpack(0) = [ptr |-> 0, length |-> 0]
      <3>1. pack(0, 0) = 0 /\ unpack(pack(0, 0)) = [ptr |-> 0, length |-> 0]
        BY Unpacked
      <3>2. QED
        BY <3>1
    <2>2. QED
      BY <1>1, <1>2, <2>1
  <1>3. ASSUME NEW ptr \in 1..Len(heap), word = pack(ptr, 1)
        PROVE  unpack(word) = [ptr |-> ptr, length |-> 1]
    <2>1. ptr \in Nat
      BY <1>1
    <2>2. QED
      BY <1>3, <2>1, Unpacked
  <1>4. ASSUME NEW ptr \in 1..Len(heap), word = pack(ptr, 1)
        PROVE  /\ unpack(word).ptr \in 0..Len(heap) /\ unpack(word).length \in 0..1
               /\ unpack(word).ptr \in 1..Len(heap)
    BY <1>1, <1>3, <1>4
  <1>5. QED
    BY <1>2, <1>4 DEF MemoryOK, IsWord

LEMMA Written ==
  ASSUME MemoryOK, NEW content \in Blocks, NEW empty \in BOOLEAN, Write(content, empty)
  PROVE  /\ heap' \in Seq(Blocks) /\ Len(heap') <= MaxHeap
         /\ Len(heap) <= Len(heap')
         /\ IsWord(word)'
         /\ unpack(word').ptr \in 0..Len(heap') /\ unpack(word').length \in 0..1
         /\ IF word' = 0 THEN empty \/ ~HasRoom
                         ELSE ~empty /\ heap'[unpack(word').ptr] = content
  <1> USE HostAssumption
  <1>1. heap \in Seq(Blocks) /\ Len(heap) \in Nat /\ Len(heap) <= MaxHeap
    <2>1. heap \in Seq(Blocks)
      BY DEF MemoryOK
    <2>2. Len(heap) <= MaxHeap
      BY DEF MemoryOK
    <2>3. QED
      BY <2>1, <2>2
  <1>2. unpack(0) = [ptr |-> 0, length |-> 0] /\ pack(0, 0) = 0
    <2>1. /\ pack(0, 0) = 0
          /\ unpack(pack(0, 0)) = [ptr |-> 0, length |-> 0]
      BY Unpacked
    <2>2. QED
      BY <2>1
  <1>3. CASE word' = 0 /\ UNCHANGED heap /\ (empty \/ ~HasRoom)
    BY <1>1, <1>2, <1>3 DEF IsWord
  <1>4. CASE ~empty /\ HasRoom /\ heap' = Append(heap, content) /\ word' = pack(Len(heap'), 1)
    <2>1. /\ heap' \in Seq(Blocks) /\ Len(heap') = Len(heap) + 1
          /\ heap'[Len(heap')] = content
      BY <1>1, <1>4, AppendProperties
    <2>2. Len(heap') \in Nat /\ Len(heap') <= MaxHeap
      BY <1>1, <1>4, <2>1 DEF HasRoom
    <2>3. word' # 0 /\ unpack(word') = [ptr |-> Len(heap'), length |-> 1]
      BY <1>4, <2>2, Unpacked
    <2>4. IsWord(word)'
      <3>1. Len(heap') \in 1..Len(heap')
        BY <1>1, <2>1
      <3>2. QED
        BY <1>4, <3>1 DEF IsWord, pack, Half
    <2>5. QED
      BY <1>1, <1>4, <2>1, <2>2, <2>3, <2>4
  <1>5. QED
    BY <1>2, <1>3, <1>4 DEF Write

------------------------------------------------------------------------------
(* Types. *)

LEMMA LifeStep ==
  ASSUME LifeOK, [Next]_vars
  PROVE  LifeOK'
  <1>1. CASE UNCHANGED component
    BY <1>1 DEF component, LifeOK
  <1>2. CASE InitBegins
    BY <1>2 DEF InitBegins, LifeOK
  <1>3. CASE LoadDone
    BY <1>3 DEF LoadDone, LifeOK
  <1>4. CASE LoadFails
    BY <1>4 DEF LoadFails, LifeOK
  <1>5. CASE Handle
    BY <1>5, HostAssumption DEF Handle, LifeOK
  <1>6. CASE HandleFails
    BY <1>6 DEF HandleFails, LifeOK
  <1>7. CASE HandleReturns
    BY <1>7 DEF HandleReturns, LifeOK
  <1>8. CASE Shutdown
    BY <1>8 DEF Shutdown, LifeOK
  <1>9. CASE Guest \/ Host
    <2>1. UNCHANGED component
      BY <1>9 DEF Guest, StateGet, StateSet, Call, Host, HostStateSet, HostStateGet, HostCall,
             DecodeState, decodeCallResult
    <2>2. QED
      BY <1>1, <2>1
  <1>10. QED
    BY <1>1, <1>2, <1>3, <1>4, <1>5, <1>6, <1>7, <1>8, <1>9 DEF Next, Component, vars

\* The blocks that the host writes.
LEMMA AnswerIsBlock ==
  ASSUME NEW t, NEW outcome \in Outcomes(t)
  PROVE  Answers(outcome) \in Blocks /\ Answers(outcome) \in [ok : BOOLEAN, text : Values]
  BY HostAssumption DEF Answers, Error, Blocks

LEMMA StoredIsBlock ==
  ASSUME StateOK, NEW k \in Keys, state[k] # Unset
  PROVE  state[k] \in Values /\ state[k] \in Blocks
  BY DEF StateOK, Blocks

LEMMA MemoryStep ==
  ASSUME MemoryOK, StateOK, GuestOK, [Next]_vars
  PROVE  /\ MemoryOK' /\ Len(heap) \in Nat /\ Len(heap) <= Len(heap')
         /\ \A i \in 1..Len(heap) : heap'[i] = heap[i]
  <1> USE HostAssumption
  <1>1. heap \in Seq(Blocks) /\ Len(heap) \in Nat /\ Len(heap) <= MaxHeap
    BY DEF MemoryOK
  <1>2. CASE UNCHANGED <<heap, word>> \/ (UNCHANGED heap /\ word' = 0)
    BY <1>1, <1>2 DEF MemoryOK, IsWord
  <1>3. CASE Guest \/ HostStateSet \/ DecodeState \/ decodeCallResult \/ InitBegins
             \/ LoadDone \/ LoadFails \/ HandleFails \/ HandleReturns \/ Shutdown
    <2>1. UNCHANGED <<heap, word>> \/ (UNCHANGED heap /\ word' = 0)
      BY <1>3 DEF Guest, StateGet, StateSet, Call, HostStateSet, DecodeState, decodeCallResult,
             InitBegins, LoadDone, LoadFails, HandleFails, HandleReturns, Shutdown, guest
    <2>2. QED
      BY <1>2, <2>1
  <1>4. CASE Handle
    <2>1. heap' = Append(heap, "event") /\ HasRoom /\ word' = word /\ "event" \in Blocks
      BY <1>4 DEF Handle, guest, Blocks
    <2>2. /\ heap' \in Seq(Blocks) /\ Len(heap') = Len(heap) + 1
          /\ \A i \in 1..Len(heap) : heap'[i] = heap[i]
      BY <1>1, <2>1, AppendProperties
    <2>3. IsWord(word)'
      BY <1>1, <2>1, <2>2 DEF MemoryOK, IsWord, pack, Half
    <2>4. QED
      BY <1>1, <2>1, <2>2, <2>3 DEF MemoryOK, HasRoom
  <1>5. ASSUME NEW content \in Blocks, NEW empty \in BOOLEAN, Write(content, empty)
        PROVE  /\ MemoryOK' /\ Len(heap) <= Len(heap')
               /\ \A i \in 1..Len(heap) : heap'[i] = heap[i]
    <2>1. MemoryOK' /\ Len(heap) <= Len(heap')
      BY <1>5, Written DEF MemoryOK
    <2>2. UNCHANGED heap \/ heap' = Append(heap, content)
      BY <1>5 DEF Write
    <2>3. \A i \in 1..Len(heap) : heap'[i] = heap[i]
      BY <1>1, <2>2, AppendProperties
    <2>4. QED
      BY <2>1, <2>3
  <1>6. CASE HostStateGet
    <2>1. call.arg \in Keys
      BY <1>6 DEF HostStateGet, GuestOK
    <2>2. CASE state[call.arg] = Unset
      BY <1>2, <1>1, <1>6, <2>2 DEF HostStateGet
    <2>3. CASE state[call.arg] # Unset
      <3>1. Write(state[call.arg], state[call.arg] = Empty)
        BY <1>6, <2>3 DEF HostStateGet
      <3>2. state[call.arg] \in Blocks /\ (state[call.arg] = Empty) \in BOOLEAN
        BY <2>1, <2>3, StoredIsBlock
      <3>3. QED
        BY <1>1, <1>5, <3>1, <3>2
    <2>4. QED
      BY <2>2, <2>3
  <1>7. CASE HostCall
    <2>1. PICK outcome \in Outcomes(call.arg) : Write(Answers(outcome), FALSE)
      BY <1>7 DEF HostCall
    <2>2. Answers(outcome) \in Blocks /\ FALSE \in BOOLEAN
      BY AnswerIsBlock
    <2>3. QED
      BY <1>1, <1>5, <2>1, <2>2
  <1>8. CASE UNCHANGED vars
    BY <1>1, <1>2, <1>8 DEF vars, guest
  <1>9. QED
    BY <1>1, <1>3, <1>4, <1>6, <1>7, <1>8 DEF Next, Host, Component

LEMMA StateStep ==
  ASSUME StateOK, GuestOK, [Next]_vars
  PROVE  StateOK'
  <1>1. CASE UNCHANGED <<state, written>>
    BY <1>1 DEF StateOK
  <1>2. ASSUME NEW k \in Keys, NEW v \in Values, StateSet(k, v)
        PROVE  StateOK'
    BY <1>2 DEF StateSet, StateOK
  <1>3. CASE HostStateSet
    BY <1>3 DEF HostStateSet, StateOK, GuestOK
  <1>4. CASE InitBegins
    BY <1>4 DEF InitBegins, StateOK
  <1>5. ASSUME ~InitBegins, ~HostStateSet, \A k \in Keys, v \in Values : ~StateSet(k, v)
        PROVE  UNCHANGED <<state, written>>
    BY <1>5 DEF Next, Guest, StateGet, Call, Host, HostStateGet, HostCall, DecodeState,
           decodeCallResult, Component, LoadDone, LoadFails, Handle, HandleFails, HandleReturns,
           Shutdown, vars
  <1>6. QED
    BY <1>1, <1>2, <1>3, <1>4, <1>5

LEMMA GuestStep ==
  ASSUME MemoryOK, StateOK, GuestOK, GetInv, CallInv, [Next]_vars
  PROVE  GuestOK'
  <1> USE HostAssumption
  <1>1. CASE UNCHANGED <<call, told, reached>>
    BY <1>1 DEF GuestOK
  <1>2. CASE Guest
    <2>1. NoAnswer.fn = "none" /\ NoAnswer \in [fn : {"none", "get", "call"},
            arg : Keys \cup Targets \cup {Empty}, ok : BOOLEAN, text : Values]
      BY DEF NoAnswer
    <2>2. ASSUME NEW k \in Keys, StateGet(k)
          PROVE  GuestOK'
      BY <2>1, <2>2 DEF StateGet, GuestOK
    <2>3. ASSUME NEW k \in Keys, NEW v \in Values, StateSet(k, v)
          PROVE  GuestOK'
      BY <2>1, <2>3 DEF StateSet, GuestOK
    <2>4. ASSUME NEW t \in Targets, Call(t)
          PROVE  GuestOK'
      BY <2>1, <2>4 DEF Call, GuestOK
    <2>5. QED
      BY <1>2, <2>2, <2>3, <2>4 DEF Guest
  <1>3. CASE HostStateSet
    BY <1>3 DEF HostStateSet, GuestOK, NoCall
  <1>4. CASE HostStateGet
    BY <1>4 DEF HostStateGet, GuestOK
  <1>5. CASE HostCall
    <2>1. reached' \in Values \cup {"nothing", "denied", "undefined", "failed"}
      BY <1>5 DEF HostCall, Outcomes
    <2>2. QED
      BY <1>5, <2>1 DEF HostCall, GuestOK
  <1>6. CASE DecodeState
    <2>1. (IF word = 0 THEN Empty ELSE heap[unpack(word).ptr]) \in Values
      BY <1>6 DEF DecodeState, GetInv
    <2>2. QED
      BY <1>6, <2>1 DEF DecodeState, GuestOK, NoCall
  <1>7. CASE decodeCallResult
    <2> DEFINE result == IF word = 0 THEN Error ELSE heap[unpack(word).ptr]
    <2>1. result \in [ok : BOOLEAN, text : Values]
      BY <1>7, AnswerIsBlock DEF decodeCallResult, CallInv, Error
    <2>2. /\ told' = [fn |-> "call", arg |-> call.arg, ok |-> result.ok, text |-> result.text]
          /\ call' = NoCall /\ reached' = reached
      BY <1>7 DEF decodeCallResult
    <2> HIDE DEF result
    <2>3. QED
      BY <2>1, <2>2 DEF GuestOK, NoCall
  <1>8. CASE Component \/ UNCHANGED vars
    <2>1. UNCHANGED <<call, told, reached>>
      BY <1>8 DEF Component, InitBegins, LoadDone, LoadFails, Handle, HandleFails, HandleReturns,
             Shutdown, guest, vars
    <2>2. QED
      BY <1>1, <2>1
  <1>9. QED
    BY <1>2, <1>3, <1>4, <1>5, <1>6, <1>7, <1>8 DEF Next, Host

------------------------------------------------------------------------------
(* What the host keeps and answers. *)

LEMMA StoredStep ==
  ASSUME StateOK, GuestOK, StoredInv, [Next]_vars
  PROVE  StoredInv'
  <1>1. CASE Guest
    <2>1. ASSUME NEW k \in Keys, StateGet(k)
          PROVE  StoredInv'
      BY <2>1 DEF StateGet, InGuest, component, StoredInv, NoCall
    <2>2. ASSUME NEW k \in Keys, NEW v \in Values, StateSet(k, v)
          PROVE  StoredInv'
      BY <2>2 DEF StateSet, InGuest, component, StoredInv, NoCall, StateOK
    <2>3. ASSUME NEW t \in Targets, Call(t)
          PROVE  StoredInv'
      BY <2>3 DEF Call, InGuest, component, StoredInv, NoCall
    <2>4. QED
      BY <1>1, <2>1, <2>2, <2>3 DEF Guest
  <1>2. CASE HostStateSet
    BY <1>2 DEF HostStateSet, component, StoredInv, NoCall, StateOK, GuestOK
  <1>3. CASE HostStateGet \/ HostCall \/ DecodeState \/ decodeCallResult
    <2>1. call.fn \notin {"none", "set"} /\ call'.fn # "set"
      <3>1. CASE HostStateGet
        BY <3>1 DEF HostStateGet, GuestOK
      <3>2. CASE HostCall
        BY <3>2 DEF HostCall, GuestOK
      <3>3. CASE DecodeState
        BY <3>3 DEF DecodeState, NoCall
      <3>4. CASE decodeCallResult
        BY <3>4 DEF decodeCallResult, NoCall
      <3>5. QED
        BY <1>3, <3>1, <3>2, <3>3, <3>4
    <2>2. UNCHANGED <<life, state, written>>
      BY <1>3 DEF HostStateGet, HostCall, DecodeState, decodeCallResult, component
    <2>3. QED
      BY <2>1, <2>2 DEF StoredInv, NoCall
  <1>4. CASE InitBegins
    BY <1>4 DEF InitBegins, guest, StoredInv, NoCall
  <1>5. CASE LoadDone \/ LoadFails \/ Handle \/ HandleFails \/ HandleReturns \/ Shutdown
             \/ UNCHANGED vars
    <2>1. UNCHANGED <<call, state, written>> /\ (life' = "new" => life = "new")
      BY <1>5 DEF LoadDone, LoadFails, Handle, HandleFails, HandleReturns, Shutdown, guest,
             component, vars
    <2>2. QED
      BY <2>1 DEF StoredInv
  <1>6. QED
    BY <1>1, <1>2, <1>3, <1>4, <1>5 DEF Next, Host, Component

\* A call of the guest leaves the last answer behind.
LEMMA GuestCalls ==
  ASSUME Guest
  PROVE  told' = NoAnswer /\ call'.fn \in {"set", "get", "call"}
  <1>1. ASSUME NEW k \in Keys, StateGet(k)
        PROVE  told' = NoAnswer /\ call'.fn = "get"
    BY <1>1 DEF StateGet
  <1>2. ASSUME NEW k \in Keys, NEW v \in Values, StateSet(k, v)
        PROVE  told' = NoAnswer /\ call'.fn = "set"
    BY <1>2 DEF StateSet
  <1>3. ASSUME NEW t \in Targets, Call(t)
        PROVE  told' = NoAnswer /\ call'.fn = "call"
    BY <1>3 DEF Call
  <1>4. QED
    BY <1>1, <1>2, <1>3 DEF Guest

\* What was written stays readable, and full memory stays full.
LEMMA MemoryGrows ==
  ASSUME MemoryOK, StateOK, GuestOK, [Next]_vars
  PROVE  /\ HasRoom' => HasRoom
         /\ word # 0 => heap'[unpack(word).ptr] = heap[unpack(word).ptr]
  <1>1. Len(heap) \in Nat /\ Len(heap) <= Len(heap') /\ heap' \in Seq(Blocks)
    BY MemoryStep DEF MemoryOK
  <1>2. HasRoom' => HasRoom
    <2>1. Len(heap') \in Nat /\ MaxHeap \in Nat
      BY <1>1, HostAssumption
    <2>2. QED
      BY <1>1, <2>1 DEF HasRoom
  <1>3. QED
    BY <1>2, MemoryStep, WordRead

\* While the SDK has an answer to read, only that step touches it.
LEMMA AnswerStep ==
  ASSUME MemoryOK, StateOK, GuestOK, StoredInv, GetInv, CallInv, [Next]_vars
  PROVE  GetInv' /\ CallInv'
  <1>1. ASSUME UNCHANGED <<call, word, written, reached>>
        PROVE  GetInv' /\ CallInv'
    BY <1>1, MemoryGrows DEF GetInv, CallInv
  <1>2. ASSUME call'.fn \notin {"decode state", "decode result"}
        PROVE  GetInv' /\ CallInv'
    BY <1>2 DEF GetInv, CallInv
  <1>3. CASE HostStateGet
    <2>1. /\ call.arg \in Keys /\ call'.fn = "decode state" /\ call'.arg = call.arg
          /\ written' = written /\ state[call.arg] = written[call.arg]
      BY <1>3 DEF HostStateGet, GuestOK, StoredInv
    <2>2. CASE state[call.arg] = Unset
      BY <1>3, <2>1, <2>2 DEF HostStateGet, GetInv, CallInv
    <2>3. CASE state[call.arg] # Unset
      <3>1. Write(state[call.arg], state[call.arg] = Empty)
        BY <1>3, <2>3 DEF HostStateGet
      <3>2. state[call.arg] \in Values /\ state[call.arg] \in Blocks
            /\ (state[call.arg] = Empty) \in BOOLEAN
        BY <2>1, <2>3, StoredIsBlock
      <3>3. IF word' = 0 THEN state[call.arg] = Empty \/ ~HasRoom
                         ELSE /\ state[call.arg] # Empty
                              /\ heap'[unpack(word').ptr] = state[call.arg]
        BY <3>1, <3>2, Written
      <3>4. HasRoom' => HasRoom
        BY MemoryGrows
      <3>5. QED
        BY <2>1, <3>2, <3>3, <3>4 DEF GetInv, CallInv
    <2>4. QED
      BY <2>2, <2>3
  <1>4. CASE HostCall
    <2>1. PICK outcome \in Outcomes(call.arg) :
            reached' = outcome /\ Write(Answers(outcome), FALSE)
      BY <1>4 DEF HostCall
    <2>2. call'.fn = "decode result" /\ call'.arg = call.arg
      BY <1>4 DEF HostCall, GuestOK
    <2>3. Answers(outcome) \in Blocks /\ FALSE \in BOOLEAN
      BY AnswerIsBlock
    <2>4. IF word' = 0 THEN ~HasRoom ELSE heap'[unpack(word').ptr] = Answers(outcome)
      BY <2>1, <2>3, Written
    <2>5. HasRoom' => HasRoom
      BY MemoryGrows
    <2>6. QED
      BY <2>1, <2>2, <2>4, <2>5 DEF GetInv, CallInv
  <1>5. CASE Guest \/ HostStateSet \/ DecodeState \/ decodeCallResult
    <2>1. call'.fn \notin {"decode state", "decode result"}
      <3>1. CASE Guest
        BY <3>1, GuestCalls
      <3>2. CASE HostStateSet
        BY <3>2 DEF HostStateSet, NoCall
      <3>3. CASE DecodeState
        BY <3>3 DEF DecodeState, NoCall
      <3>4. CASE decodeCallResult
        BY <3>4 DEF decodeCallResult, NoCall
      <3>5. QED
        BY <1>5, <3>1, <3>2, <3>3, <3>4
    <2>2. QED
      BY <1>2, <2>1
  <1>6. CASE Component \/ UNCHANGED vars
    <2>1. UNCHANGED <<call, word, written, reached>>
      BY <1>6 DEF Component, InitBegins, LoadDone, LoadFails, Handle, HandleFails, HandleReturns,
             Shutdown, guest, vars
    <2>2. QED
      BY <1>1, <2>1
  <1>7. QED
    BY <1>3, <1>4, <1>5, <1>6 DEF Next, Host

------------------------------------------------------------------------------
(* What the node is told. *)

\* A node that is told something has no call under way.
Waiting == call.fn # "none" => told.fn = "none"

LEMMA WaitingStep ==
  ASSUME GuestOK, Waiting, [Next]_vars
  PROVE  Waiting'
  <1>1. CASE Guest
    BY <1>1, GuestCalls DEF NoAnswer, Waiting
  <1>2. CASE HostStateSet \/ DecodeState \/ decodeCallResult
    <2>1. call' = NoCall
      BY <1>2 DEF HostStateSet, DecodeState, decodeCallResult
    <2>2. QED
      BY <2>1 DEF NoCall, Waiting
  <1>3. CASE HostStateGet
    BY <1>3 DEF HostStateGet, Waiting
  <1>4. CASE HostCall
    BY <1>4 DEF HostCall, Waiting
  <1>5. CASE Component \/ UNCHANGED vars
    <2>1. UNCHANGED <<call, told>>
      BY <1>5 DEF Component, InitBegins, LoadDone, LoadFails, Handle, HandleFails, HandleReturns,
             Shutdown, guest, vars
    <2>2. QED
      BY <2>1 DEF Waiting
  <1>6. QED
    BY <1>1, <1>2, <1>3, <1>4, <1>5 DEF Next, Host

LEMMA ToldStep ==
  ASSUME MemoryOK, StateOK, GuestOK, GetInv, CallInv, Waiting, StateRemembered, CallsGated,
         [Next]_vars
  PROVE  StateRemembered' /\ CallsGated'
  <1>1. HasRoom' => HasRoom
    BY MemoryGrows
  <1>2. CASE UNCHANGED <<told, written, reached>>
    BY <1>1, <1>2 DEF StateRemembered, CallsGated
  <1>3. CASE told' = NoAnswer
    BY <1>3 DEF StateRemembered, CallsGated, NoAnswer
  <1>4. CASE DecodeState
    <2>1. /\ told'.fn = "get" /\ told'.arg = call.arg /\ told'.ok = (word # 0)
          /\ told'.text = (IF word = 0 THEN Empty ELSE heap[unpack(word).ptr])
          /\ call.fn = "decode state" /\ UNCHANGED <<heap, written>>
      BY <1>4 DEF DecodeState
    <2>2. QED
      BY <2>1 DEF GetInv, StateRemembered, CallsGated, HasRoom
  <1>5. CASE decodeCallResult
    <2> DEFINE result == IF word = 0 THEN Error ELSE heap[unpack(word).ptr]
    <2>1. /\ told'.fn = "call" /\ told'.arg = call.arg
          /\ told'.ok = result.ok /\ told'.text = result.text
          /\ call.fn = "decode result" /\ UNCHANGED <<heap, reached>>
      BY <1>5 DEF decodeCallResult
    <2>2. /\ reached \in Outcomes(call.arg)
          /\ IF word = 0 THEN result = Error /\ ~HasRoom ELSE result = Answers(reached)
      BY <2>1 DEF CallInv
    <2> HIDE DEF result
    <2>3. call.arg \notin Allowed => reached = "denied"
      BY <2>2 DEF Outcomes
    <2>4. /\ result.ok => reached = result.text
          /\ ~result.ok => reached \notin Values \/ ~HasRoom
      BY <2>2 DEF Answers, Error
    <2>5. QED
      BY <2>1, <2>3, <2>4 DEF StateRemembered, CallsGated, HasRoom
  <1>6. CASE HostStateSet \/ HostStateGet \/ Component \/ UNCHANGED vars
    <2>1. UNCHANGED <<told, written, reached>>
      BY <1>6 DEF HostStateSet, HostStateGet, Component, InitBegins, LoadDone, LoadFails, Handle,
             HandleFails, HandleReturns, Shutdown, guest, vars
    <2>2. QED
      BY <1>2, <2>1
  <1>7. CASE Guest
    <2>1. told' = NoAnswer
      BY <1>7, GuestCalls
    <2>2. QED
      BY <1>3, <2>1
  <1>8. CASE HostCall
    <2>1. told.fn = "none" /\ told' = told
      BY <1>8 DEF HostCall, Waiting
    <2>2. QED
      BY <2>1 DEF StateRemembered, CallsGated
  <1>9. QED
    BY <1>4, <1>5, <1>6, <1>7, <1>8 DEF Next, Host

------------------------------------------------------------------------------
(* Theorems. *)

IInv ==
  /\ LifeOK /\ MemoryOK /\ StateOK /\ GuestOK
  /\ StoredInv /\ GetInv /\ CallInv /\ Waiting
  /\ StateRemembered /\ CallsGated

LEMMA Initially == Init => IInv
  <1> SUFFICES ASSUME Init PROVE IInv
    OBVIOUS
  <1>1. LifeOK
    <2>1. life = "new" /\ mu = FALSE /\ module = FALSE /\ handles = 0
      BY DEF Init
    <2>2. handles \in 0..MaxHandles
      BY <2>1, HostAssumption
    <2>3. ~(life = "loading") /\ life \notin {"ready", "handling", "stopping"}
      BY <2>1
    <2>4. QED
      BY <2>1, <2>2, <2>3, Zenon DEF LifeOK
  <1>2. MemoryOK
    BY HostAssumption DEF Init, MemoryOK, IsWord
  <1>3. StateOK
    BY DEF Init, StateOK
  <1>4. GuestOK
    BY HostAssumption DEF Init, GuestOK, NoCall, NoAnswer
  <1>5. StoredInv /\ GetInv /\ CallInv /\ Waiting
    BY DEF Init, NoCall, NoAnswer, StoredInv, GetInv, CallInv, Waiting
  <1>6. StateRemembered /\ CallsGated
    BY DEF Init, NoAnswer, StateRemembered, CallsGated
  <1>7. QED
    BY <1>1, <1>2, <1>3, <1>4, <1>5, <1>6 DEF IInv

LEMMA Inductive == IInv /\ [Next]_vars => IInv'
  BY LifeStep, MemoryStep, StateStep, GuestStep, StoredStep, AnswerStep, WaitingStep, ToldStep
     DEF IInv

\* Every variable has its type, the packed words lead into guest memory, and
\* Init holds mu exactly while it loads the module, for every size of memory.
THEOREM TypeCorrect == Spec => []TypeOK
  <1>1. IInv => TypeOK
    <2>1. SUFFICES ASSUME IInv PROVE TypeOK
      OBVIOUS
    <2>2. /\ mu = (life = "loading")
          /\ module = (life \in {"ready", "handling", "stopping"})
      BY <2>1 DEF IInv, LifeOK
    <2>3. Len(heap) <= MaxHeap
      BY <2>1 DEF IInv, MemoryOK
    <2>4. QED
      BY <2>1, <2>2, <2>3, WordRead DEF IInv, LifeOK, StateOK, GuestOK, TypeOK
  <1>2. QED
    BY <1>1, Initially, Inductive, PTL DEF Spec

\* A node reads back what it stored last, in any event and whatever it
\* called in between, for any number of keys and values; told "never set" of
\* a key that is, it has run out of memory or stored the empty string.
THEOREM StateRememberedHolds == Spec => []StateRemembered
  <1>1. IInv => StateRemembered
    BY DEF IInv
  <1>2. QED
    BY <1>1, Initially, Inductive, PTL DEF Spec

\* What the manifest does not permit is not called, and what the node is
\* told of a call is what it came to, for any manifest, models and tools.
THEOREM CallsGatedHolds == Spec => []CallsGated
  <1>1. IInv => CallsGated
    BY DEF IInv
  <1>2. QED
    BY <1>1, Initially, Inductive, PTL DEF Spec

==============================================================================

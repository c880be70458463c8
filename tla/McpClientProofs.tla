--------------------------- MODULE McpClientProofs ---------------------------
(***************************************************************************)
(* Safety of the MCP client for any number of calling goroutines and any   *)
(* behaviour of the server process.                                        *)
(***************************************************************************)
EXTENDS McpClient, SequenceTheorems, TLAPS

LEMMA LineType == \A i \in Ids : [id |-> i, answers |-> i] \in Line
BY DEF Line

LEMMA InitType == Init => TypeOK
<1>. SUFFICES ASSUME Init PROVE TypeOK
  OBVIOUS
<1>1. chan \in [Ids -> Seq(Line)]
  <2>. HIDE DEF Line, Ids
  <2>1. <<>> \in Seq(Line)  OBVIOUS
  <2>. QED  BY <2>1 DEF Init
<1>2. stdin \in Seq(Ids) /\ stdout \in Seq(Line)
  <2>. HIDE DEF Line, Ids
  <2>. QED  BY DEF Init
<1>3. id \in [Callers -> 0..MaxCalls] /\ nextID \in 0..MaxCalls
  BY McpAssumption DEF Init
<1>4. resp \in Line \cup {NoLine} /\ extra \in 0..MaxExtra
  BY McpAssumption DEF Init
<1>. QED  BY <1>1, <1>2, <1>3, <1>4 DEF Init, TypeOK

\* The ways a call ends without a response.
Errs(c) == EncodeFails(c) \/ WriteFails(c) \/ ContextDone(c) \/ SeeClosed(c)

\* A call that returns records one well-typed outcome.
LEMMA ReturnType ==
  ASSUME TypeOK, NEW c \in Callers, id[c] \in Ids,
         NEW outcome \in {"response", "encodeError", "writeError", "cancelled", "closed"},
         NEW line \in Line \cup {NoLine}, NEW err \in BOOLEAN,
         ReturnFrom(c, outcome, line, err)
  PROVE  /\ pc' \in [Callers -> {"idle", "register", "write", "wait"}]
         /\ id' \in [Callers -> 0..MaxCalls]
         /\ returned' \subseteq
              [id : Ids,
               outcome : {"response", "encodeError", "writeError", "cancelled", "closed"},
               line : Line \cup {NoLine}, err : BOOLEAN]
BY McpAssumption DEF TypeOK, ReturnFrom

(***************************************************************************)
(* The inductive invariant.  An id belongs to one call for good; while it  *)
(* is in pending its channel is empty and readLoop is not delivering to    *)
(* it, and taking it out of pending is what entitles readLoop to send.     *)
(***************************************************************************)
Delivering(i) == reader = "deliver" /\ resp.id = i

Fresh(i) == i \notin pending /\ chan[i] = <<>> /\ ~Delivering(i)

IdInv ==
  /\ \A c \in Callers : pc[c] # "idle" => id[c] \in 1..nextID
  /\ \A c, d \in Callers :
       c # d /\ pc[c] # "idle" /\ pc[d] # "idle" => id[c] # id[d]
  /\ \A r \in returned :
       /\ r.id <= nextID
       /\ \A c \in Callers : pc[c] # "idle" => id[c] # r.id

ChannelInv ==
  /\ \A i \in Ids : i > nextID => Fresh(i)
  /\ \A c \in Callers : pc[c] = "register" => Fresh(id[c])
  /\ \A i \in pending : chan[i] = <<>> /\ ~Delivering(i)
  /\ reader = "deliver" => resp.id \in Ids /\ chan[resp.id] = <<>>

ClosedInv ==
  /\ closed \/ reader \in {"exit", "exited"} => readErr
  /\ ClosedHasError

IInv == TypeOK /\ IdInv /\ ChannelInv /\ ClosedInv /\ ReturnsOnce

\* A caller inside call has an id that indexes the channels.
LEMMA ActiveId ==
  ASSUME TypeOK, IdInv, NEW c \in Callers, pc[c] # "idle"
  PROVE  id[c] \in Ids /\ id[c] <= nextID
BY McpAssumption DEF TypeOK, IdInv, Ids

LEMMA NextType == TypeOK /\ IdInv /\ ChannelInv /\ [Next]_vars => TypeOK'
<1>. SUFFICES ASSUME TypeOK, IdInv, ChannelInv, [Next]_vars PROVE TypeOK'
  OBVIOUS
<1>. USE McpAssumption
<1>1. ASSUME NEW c \in Callers, BeginCall(c)  PROVE TypeOK'
  BY <1>1 DEF BeginCall, TypeOK, readVars, serverVars
<1>2. ASSUME NEW c \in Callers, Register(c)  PROVE TypeOK'
  BY <1>2, ActiveId DEF Register, TypeOK, readVars, serverVars
<1>3. ASSUME NEW c \in Callers, WriteRequest(c)  PROVE TypeOK'
  BY <1>3, ActiveId DEF WriteRequest, TypeOK, readVars, serverVars
<1>4. ASSUME NEW c \in Callers, Errs(c)
      PROVE  TypeOK'
  <2>1. id[c] \in Ids  BY <1>4, ActiveId DEF Errs, EncodeFails, WriteFails, ContextDone, SeeClosed
  <2>2. PICK outcome \in {"encodeError", "writeError", "cancelled", "closed"},
                err \in BOOLEAN :
          ReturnFrom(c, outcome, NoLine, err)
    BY <1>4 DEF Errs, EncodeFails, WriteFails, ContextDone, SeeClosed, TypeOK
  <2>3. /\ pc' \in [Callers -> {"idle", "register", "write", "wait"}]
        /\ id' \in [Callers -> 0..MaxCalls]
        /\ returned' \subseteq
             [id : Ids,
              outcome : {"response", "encodeError", "writeError", "cancelled", "closed"},
              line : Line \cup {NoLine}, err : BOOLEAN]
    BY <2>1, <2>2, ReturnType
  <2>. QED
    BY <1>4, <2>3 DEF Errs, EncodeFails, WriteFails, ContextDone, SeeClosed, TypeOK,
       readVars, serverVars
<1>5. ASSUME NEW c \in Callers, ReceiveResponse(c)  PROVE TypeOK'
  <2>1. id[c] \in Ids  BY <1>5, ActiveId DEF ReceiveResponse
  <2>2. chan[id[c]] \in Seq(Line) /\ chan[id[c]] # <<>>
    BY <1>5, <2>1 DEF ReceiveResponse, TypeOK
  <2>3. Head(chan[id[c]]) \in Line /\ Tail(chan[id[c]]) \in Seq(Line)
    BY <2>2, HeadTailProperties
  <2>4. /\ pc' \in [Callers -> {"idle", "register", "write", "wait"}]
        /\ id' \in [Callers -> 0..MaxCalls]
        /\ returned' \subseteq
             [id : Ids,
              outcome : {"response", "encodeError", "writeError", "cancelled", "closed"},
              line : Line \cup {NoLine}, err : BOOLEAN]
    BY <1>5, <2>1, <2>3, ReturnType DEF ReceiveResponse
  <2>5. chan' \in [Ids -> Seq(Line)]
    BY <1>5, <2>1, <2>3 DEF ReceiveResponse, TypeOK
  <2>. QED
    BY <1>5, <2>4, <2>5 DEF ReceiveResponse, TypeOK, readVars, serverVars
<1>6. CASE ReadResponse
  <2>1. stdout \in Seq(Line) /\ stdout # <<>>  BY <1>6 DEF ReadResponse, TypeOK
  <2>2. Head(stdout) \in Line /\ Tail(stdout) \in Seq(Line)
    BY <2>1, HeadTailProperties
  <2>3. /\ pending' \subseteq Ids
        /\ resp' \in Line \cup {NoLine}
        /\ reader' \in {"read", "deliver", "exit", "exited"}
        /\ stdout' \in Seq(Line)
    BY <1>6, <2>2 DEF ReadResponse, TypeOK
  <2>. QED  BY <1>6, <2>3 DEF ReadResponse, TypeOK, serverVars
<1>7. CASE DeliverResponse
  <2>1. resp.id \in Ids /\ resp \in Line
    BY <1>7 DEF DeliverResponse, ChannelInv, TypeOK, NoLine, Ids
  <2>2. Append(chan[resp.id], resp) \in Seq(Line)
    BY <2>1, AppendProperties DEF TypeOK
  <2>3. chan' \in [Ids -> Seq(Line)]
    BY <1>7, <2>2 DEF DeliverResponse, TypeOK
  <2>. QED  BY <1>7, <2>3 DEF DeliverResponse, TypeOK, serverVars
<1>8. CASE ReadError \/ ReaderExits
  BY <1>8 DEF ReadError, ReaderExits, TypeOK, clientVars, serverVars
<1>9. CASE CloseStdin \/ CloseReturns
  BY <1>9 DEF CloseStdin, CloseReturns, TypeOK, clientVars, readVars, serverVars
<1>10. CASE ServerReads
  <2>1. Head(stdin) \in Ids /\ Tail(stdin) \in Seq(Ids)
    BY <1>10, HeadTailProperties DEF ServerReads, TypeOK
  <2>. QED  BY <1>10, <2>1 DEF ServerReads, TypeOK, clientVars, readVars
<1>11. ASSUME NEW i \in Ids, ServerAnswers(i)  PROVE TypeOK'
  <2>1. stdout' \in Seq(Line)
    BY <1>11, LineType, AppendProperties DEF ServerAnswers, TypeOK
  <2>. QED  BY <1>11, <2>1 DEF ServerAnswers, TypeOK, clientVars, readVars
<1>12. ASSUME NEW line \in Line, ServerSendsExtra(line)  PROVE TypeOK'
  <2>1. stdout' \in Seq(Line)
    BY <1>12, AppendProperties DEF ServerSendsExtra, TypeOK
  <2>. QED  BY <1>12, <2>1 DEF ServerSendsExtra, TypeOK, clientVars, readVars
<1>13. CASE ServerExits
  BY <1>13 DEF ServerExits, TypeOK, clientVars, readVars
<1>14. CASE UNCHANGED vars
  BY <1>14 DEF vars, TypeOK, clientVars, readVars, serverVars
<1>. QED
  BY <1>1, <1>2, <1>3, <1>4, <1>5, <1>6, <1>7, <1>8, <1>9, <1>10, <1>11, <1>12,
     <1>13, <1>14
  DEF Next, CallStep, Errs, ReadLoop, Server

------------------------------------------------------------------------------
LEMMA IdInvInit == Init => IdInv
BY DEF Init, IdInv

LEMMA IdInvNext == TypeOK /\ IdInv /\ [Next]_vars => IdInv'
<1>. SUFFICES ASSUME TypeOK, IdInv, [Next]_vars PROVE IdInv'
  OBVIOUS
<1>. USE McpAssumption
<1>1. ASSUME NEW c \in Callers, BeginCall(c)  PROVE IdInv'
  <2>1. /\ nextID \in Nat /\ nextID' = nextID + 1
        /\ pc'[c] = "register" /\ id'[c] = nextID + 1
        /\ \A d \in Callers : d # c => pc'[d] = pc[d] /\ id'[d] = id[d]
        /\ returned' = returned
    BY <1>1 DEF BeginCall, TypeOK
  <2>2. \A d \in Callers : pc[d] # "idle" => id[d] \in 1..nextID
    BY DEF IdInv
  <2>3. \A r \in returned : r.id \in Nat /\ r.id <= nextID
    BY DEF IdInv, TypeOK, Ids
  <2>. QED  BY <2>1, <2>2, <2>3 DEF IdInv
<1>2. ASSUME NEW c \in Callers, Register(c) \/ WriteRequest(c)  PROVE IdInv'
  BY <1>2 DEF Register, WriteRequest, IdInv, TypeOK
<1>3. ASSUME NEW c \in Callers, pc[c] # "idle", nextID' = nextID,
             NEW outcome, NEW line, NEW err, ReturnFrom(c, outcome, line, err)
      PROVE  IdInv'
  <2>1. /\ pc'[c] = "idle" /\ id[c] <= nextID
        /\ \A d \in Callers : pc'[d] # "idle" => d # c /\ pc[d] # "idle" /\ id'[d] = id[d]
    BY <1>3 DEF ReturnFrom, IdInv, TypeOK
  <2>2. \A r \in returned' : r \in returned \/ r.id = id[c]
    BY <1>3 DEF ReturnFrom
  <2>. QED  BY <1>3, <2>1, <2>2 DEF IdInv
<1>4. ASSUME NEW c \in Callers,
             Errs(c) \/ ReceiveResponse(c)
      PROVE  IdInv'
  BY <1>3, <1>4 DEF Errs, EncodeFails, WriteFails, ReceiveResponse, ContextDone,
     SeeClosed
<1>5. ASSUME UNCHANGED <<nextID, pc, id, returned>>  PROVE IdInv'
  BY <1>5 DEF IdInv
<1>6. CASE ReadLoop \/ CloseStdin \/ CloseReturns \/ Server
  BY <1>5, <1>6 DEF ReadLoop, ReadResponse, DeliverResponse, ReadError, ReaderExits,
     CloseStdin, CloseReturns, Server, ServerReads, ServerExits, ServerAnswers,
     ServerSendsExtra, clientVars
<1>7. CASE UNCHANGED vars  BY <1>5, <1>7 DEF vars, clientVars
<1>. QED  BY <1>1, <1>2, <1>4, <1>6, <1>7 DEF Next, CallStep, Errs

------------------------------------------------------------------------------
LEMMA ChannelInvInit == Init => ChannelInv
BY DEF Init, ChannelInv, Fresh, Delivering

LEMMA ChannelInvNext == TypeOK /\ IdInv /\ ChannelInv /\ [Next]_vars => ChannelInv'
<1>. SUFFICES ASSUME TypeOK, IdInv, ChannelInv, [Next]_vars PROVE ChannelInv'
  OBVIOUS
<1>. USE McpAssumption DEF ChannelInv, Fresh, Delivering
<1>1. ASSUME NEW c \in Callers, BeginCall(c)  PROVE ChannelInv'
  <2>1. nextID + 1 \in Ids /\ Fresh(nextID + 1)
    BY <1>1 DEF BeginCall, TypeOK, Ids
  <2>. QED  BY <1>1, <2>1 DEF BeginCall, TypeOK, readVars, Ids
<1>2. ASSUME NEW c \in Callers, Register(c)  PROVE ChannelInv'
  <2>1. id[c] \in Ids /\ id[c] <= nextID /\ Fresh(id[c])
    BY <1>2, ActiveId DEF Register
  <2>2. \A d \in Callers : pc'[d] = "register" => pc[d] = "register" /\ id[d] # id[c]
    BY <1>2 DEF Register, TypeOK, IdInv
  <2>. QED  BY <1>2, <2>1, <2>2 DEF Register, readVars, TypeOK, Ids
<1>3. ASSUME NEW c \in Callers, WriteRequest(c)  PROVE ChannelInv'
  BY <1>3 DEF WriteRequest, readVars, TypeOK
<1>4. ASSUME NEW c \in Callers, Errs(c)
      PROVE  ChannelInv'
  BY <1>4 DEF Errs, EncodeFails, WriteFails, ContextDone, SeeClosed, ReturnFrom, readVars, TypeOK
<1>5. ASSUME NEW c \in Callers, ReceiveResponse(c)  PROVE ChannelInv'
  <2>1. id[c] \in Ids /\ id[c] <= nextID /\ chan[id[c]] # <<>>
    BY <1>5, ActiveId DEF ReceiveResponse
  <2>2. \A i \in Ids \ {id[c]} : chan'[i] = chan[i]
    BY <1>5 DEF ReceiveResponse, TypeOK
  <2>3. id[c] \notin pending /\ ~Delivering(id[c])  BY <2>1
  <2>4. \A d \in Callers : pc'[d] = "register" =>
          pc[d] = "register" /\ id'[d] = id[d] /\ id[d] # id[c] /\ id[d] \in Ids
    BY <1>5, ActiveId DEF ReceiveResponse, ReturnFrom, TypeOK, IdInv
  <2>5. UNCHANGED <<nextID, pending, reader, resp>>
    BY <1>5 DEF ReceiveResponse, readVars
  <2>6. \A i \in Ids : i > nextID => i # id[c] /\ Fresh(i)
    BY <2>1 DEF TypeOK, Ids
  <2>7. \A i \in Ids : i > nextID => Fresh(i)'
    BY <2>2, <2>5, <2>6
  <2>8. \A d \in Callers : pc'[d] = "register" => Fresh(id[d])'
    BY <2>2, <2>4, <2>5
  <2>9. \A i \in pending' : chan'[i] = <<>> /\ ~Delivering(i)'
    BY <2>2, <2>3, <2>5 DEF TypeOK
  <2>10. reader' = "deliver" => resp'.id \in Ids /\ chan'[resp'.id] = <<>>
    BY <2>1, <2>2, <2>5
  <2>. QED  BY <2>5, <2>7, <2>8, <2>9, <2>10
<1>6. CASE ReadResponse
  <2>1. CASE Head(stdout).id \in pending
    <3>1. Head(stdout).id \in Ids /\ chan[Head(stdout).id] = <<>>
      BY <2>1 DEF TypeOK
    <3>. QED  BY <1>6, <2>1, <3>1 DEF ReadResponse, TypeOK
  <2>2. CASE Head(stdout).id \notin pending
    BY <1>6, <2>2 DEF ReadResponse
  <2>. QED  BY <2>1, <2>2
<1>7. CASE DeliverResponse
  <2>1. resp.id \in Ids /\ resp.id \notin pending /\ resp.id <= nextID
    BY <1>7 DEF DeliverResponse, TypeOK, Ids
  <2>2. \A i \in Ids \ {resp.id} : chan'[i] = chan[i]
    BY <1>7 DEF DeliverResponse, TypeOK
  <2>3. \A d \in Callers : pc[d] = "register" => id[d] \in Ids /\ id[d] # resp.id
    BY <1>7, ActiveId DEF DeliverResponse
  <2>. QED  BY <1>7, <2>1, <2>2, <2>3 DEF DeliverResponse, TypeOK, Ids
<1>8. ASSUME UNCHANGED <<nextID, pc, id, pending, chan, resp>>,
             reader' = reader \/ reader' \in {"exit", "exited"}
      PROVE  ChannelInv'
  BY <1>8
<1>9. CASE ReadError \/ ReaderExits \/ CloseStdin \/ CloseReturns \/ Server
  BY <1>8, <1>9 DEF ReadError, ReaderExits, CloseStdin, CloseReturns, Server,
     ServerReads, ServerExits, ServerAnswers, ServerSendsExtra, clientVars, readVars
<1>10. CASE UNCHANGED vars  BY <1>8, <1>10 DEF vars, clientVars, readVars
<1>. QED
  BY <1>1, <1>2, <1>3, <1>4, <1>5, <1>6, <1>7, <1>9, <1>10
  DEF Next, CallStep, Errs, ReadLoop
------------------------------------------------------------------------------
LEMMA ClosedInvInit == Init => ClosedInv
BY DEF Init, ClosedInv, ClosedHasError

LEMMA ClosedInvNext == TypeOK /\ ClosedInv /\ [Next]_vars => ClosedInv'
<1>. SUFFICES ASSUME TypeOK, ClosedInv, [Next]_vars PROVE ClosedInv'
  OBVIOUS
<1>. USE DEF ClosedInv, ClosedHasError
<1>1. ASSUME NEW c \in Callers, EncodeFails(c) \/ WriteFails(c) \/ ContextDone(c)
      PROVE  ClosedInv'
  BY <1>1 DEF EncodeFails, WriteFails, ContextDone, ReturnFrom, readVars
<1>2. ASSUME NEW c \in Callers, ReceiveResponse(c)  PROVE ClosedInv'
  BY <1>2 DEF ReceiveResponse, ReturnFrom, readVars
<1>3. ASSUME NEW c \in Callers, SeeClosed(c)  PROVE ClosedInv'
  <2>1. readErr  BY <1>3 DEF SeeClosed
  <2>2. UNCHANGED <<reader, closed, readErr>>  BY <1>3 DEF SeeClosed, readVars
  <2>. DEFINE new == [id |-> id[c], outcome |-> "closed", line |-> NoLine, err |-> readErr]
  <2>3. returned' = returned \cup {new}
    BY <1>3 DEF SeeClosed, ReturnFrom
  <2>4. new.err  BY <2>1, Zenon
  <2>. HIDE DEF new
  <2>5. \A r \in returned' : r.outcome # "response" => r.err
    BY <2>3, <2>4
  <2>. QED  BY <2>1, <2>2, <2>5
<1>4. CASE ReadError  BY <1>4 DEF ReadError, clientVars, TypeOK
<1>5. CASE ReaderExits  BY <1>5 DEF ReaderExits, clientVars
<1>6. CASE ReadResponse \/ DeliverResponse
  BY <1>6 DEF ReadResponse, DeliverResponse
<1>7. ASSUME UNCHANGED <<returned, readVars>>  PROVE ClosedInv'
  BY <1>7 DEF readVars
<1>8. ASSUME NEW c \in Callers, BeginCall(c) \/ Register(c) \/ WriteRequest(c)
      PROVE  ClosedInv'
  BY <1>7, <1>8 DEF BeginCall, Register, WriteRequest
<1>9. CASE CloseStdin \/ CloseReturns \/ Server
  BY <1>7, <1>9 DEF CloseStdin, CloseReturns, Server, ServerReads, ServerExits,
     ServerAnswers, ServerSendsExtra, clientVars
<1>10. CASE UNCHANGED vars  BY <1>7, <1>10 DEF vars, clientVars
<1>. QED
  BY <1>1, <1>2, <1>3, <1>4, <1>5, <1>6, <1>8, <1>9, <1>10
  DEF Next, CallStep, Errs, ReadLoop

------------------------------------------------------------------------------
LEMMA ReturnsOnceNext ==
  TypeOK /\ IdInv /\ ReturnsOnce /\ [Next]_vars => ReturnsOnce'
<1>. SUFFICES ASSUME TypeOK, IdInv, ReturnsOnce, [Next]_vars PROVE ReturnsOnce'
  OBVIOUS
<1>1. ASSUME NEW c \in Callers, pc[c] # "idle",
             NEW outcome, NEW line, NEW err, ReturnFrom(c, outcome, line, err)
      PROVE  ReturnsOnce'
  <2>1. \A r \in returned : r.id # id[c]  BY <1>1 DEF IdInv
  <2>. QED  BY <1>1, <2>1 DEF ReturnFrom, ReturnsOnce
<1>2. ASSUME NEW c \in Callers,
             Errs(c) \/ ReceiveResponse(c)
      PROVE  ReturnsOnce'
  BY <1>1, <1>2 DEF Errs, EncodeFails, WriteFails, ReceiveResponse, ContextDone,
     SeeClosed
<1>3. ASSUME returned' = returned  PROVE ReturnsOnce'
  BY <1>3 DEF ReturnsOnce
<1>4. ASSUME NEW c \in Callers, BeginCall(c) \/ Register(c) \/ WriteRequest(c)
      PROVE  ReturnsOnce'
  BY <1>3, <1>4 DEF BeginCall, Register, WriteRequest
<1>5. CASE ReadLoop \/ CloseStdin \/ CloseReturns \/ Server
  BY <1>3, <1>5 DEF ReadLoop, ReadResponse, DeliverResponse, ReadError, ReaderExits,
     CloseStdin, CloseReturns, Server, ServerReads, ServerExits, ServerAnswers,
     ServerSendsExtra, clientVars
<1>6. CASE UNCHANGED vars  BY <1>3, <1>6 DEF vars, clientVars
<1>. QED  BY <1>2, <1>4, <1>5, <1>6 DEF Next, CallStep, Errs

------------------------------------------------------------------------------
LEMMA IInvInit == Init => IInv
<1>1. Init => ReturnsOnce  BY DEF Init, ReturnsOnce
<1>. QED  BY <1>1, InitType, IdInvInit, ChannelInvInit, ClosedInvInit DEF IInv

LEMMA IInvNext == IInv /\ [Next]_vars => IInv'
BY NextType, IdInvNext, ChannelInvNext, ClosedInvNext, ReturnsOnceNext DEF IInv

LEMMA Invariance == Spec => []IInv
BY IInvInit, IInvNext, PTL DEF Spec

\* The goroutine readLoop never waits for a caller, whatever the server sends
\* and however many calls are cancelled: "ch <- resp" always has room.
THEOREM ReaderNeverBlocksHolds == Spec => []ReaderNeverBlocks
<1>1. IInv => ReaderNeverBlocks  BY DEF IInv, ChannelInv, ReaderNeverBlocks
<1>. QED  BY <1>1, Invariance, PTL

\* No call of the client returns twice.
THEOREM ReturnsOnceHolds == Spec => []ReturnsOnce
<1>1. IInv => ReturnsOnce  BY DEF IInv
<1>. QED  BY <1>1, Invariance, PTL

\* A call that sees Client.closed finds the error that ended readLoop.
THEOREM ClosedHasErrorHolds == Spec => []ClosedHasError
<1>1. IInv => ClosedHasError  BY DEF IInv, ClosedInv
<1>. QED  BY <1>1, Invariance, PTL

\* A call ends once, and with its answer or an error (client.go:142-166).
THEOREM SettledHolds == Spec => []Settled
<1>1. ReturnsOnce /\ ClosedHasError <=> Settled  BY DEF Settled
<1>. QED  BY <1>1, ReturnsOnceHolds, ClosedHasErrorHolds, PTL

------------------------------------------------------------------------------
(***************************************************************************)
(* Correlation.  A line answers the request whose id it carries, or is one *)
(* of the server's own, from the pipe through readLoop to the channel.     *)
(***************************************************************************)
Honest(line) ==
  line.answers = line.id \/ (line.answers = 0 /\ line.id \in ServerIds)

AnswerInv ==
  /\ \A k \in 1..Len(stdout) : Honest(stdout[k])
  /\ reader = "deliver" => Honest(resp)
  /\ \A i \in Ids : chan[i] # <<>> =>
       Len(chan[i]) = 1 /\ Head(chan[i]).id = i /\ Honest(Head(chan[i]))
  /\ OwnAnswer

LEMMA AnswerInvInit == Init => AnswerInv
BY DEF Init, AnswerInv, OwnAnswer

LEMMA AnswerInvNext == IInv /\ AnswerInv /\ [Next]_vars => AnswerInv'
<1>. SUFFICES ASSUME IInv, AnswerInv, [Next]_vars PROVE AnswerInv'
  OBVIOUS
<1>. USE DEF AnswerInv
<1>0. TypeOK /\ IdInv /\ ChannelInv  BY DEF IInv
<1>1. ASSUME NEW c \in Callers, Errs(c)
      PROVE  AnswerInv'
  <2>1. UNCHANGED <<stdout, reader, resp, chan>>
    BY <1>1 DEF Errs, EncodeFails, WriteFails, ContextDone, SeeClosed, readVars
  <2>2. \A r \in returned' : r \in returned \/ r.outcome # "response"
    BY <1>1 DEF Errs, EncodeFails, WriteFails, ContextDone, SeeClosed, ReturnFrom
  <2>. QED  BY <2>1, <2>2 DEF OwnAnswer
<1>2. ASSUME NEW c \in Callers, ReceiveResponse(c)  PROVE AnswerInv'
  <2>1. id[c] \in Ids /\ chan[id[c]] # <<>>
    BY <1>0, <1>2, ActiveId DEF ReceiveResponse
  <2>2. /\ Head(chan[id[c]]).id = id[c]
        /\ Honest(Head(chan[id[c]]))
    BY <2>1
  <2>3. \A r \in returned' :
          r \in returned \/ (r.id = id[c] /\ r.line = Head(chan[id[c]]))
    BY <1>2 DEF ReceiveResponse, ReturnFrom
  <2>4. OwnAnswer'  BY <2>2, <2>3 DEF OwnAnswer, Honest
  <2>5. chan[id[c]] \in Seq(Line) /\ Len(chan[id[c]]) = 1
    BY <1>0, <2>1 DEF TypeOK
  <2>6. Tail(chan[id[c]]) = <<>>
    <3>. DEFINE s == chan[id[c]]
    <3>1. s \in Seq(Line) /\ Len(s) = 1 /\ s # <<>>  BY <2>1, <2>5
    <3>. HIDE DEF s
    <3>2. Tail(s) \in Seq(Line) /\ Len(Tail(s)) = 0
      <4>. HIDE DEF Line
      <4>. QED  BY <3>1, HeadTailProperties
    <3>3. Tail(s) = <<>>
      <4>. HIDE DEF Line
      <4>. QED  BY <3>2, EmptySeq
    <3>. QED  BY <3>3 DEF s
  <2>7. \A i \in Ids : chan'[i] = IF i = id[c] THEN <<>> ELSE chan[i]
    BY <1>0, <1>2, <2>1, <2>6 DEF ReceiveResponse, TypeOK
  <2>8. UNCHANGED <<stdout, reader, resp>>  BY <1>2 DEF ReceiveResponse, readVars
  <2>. QED  BY <2>4, <2>7, <2>8
<1>3. CASE ReadResponse
  <2>1. stdout \in Seq(Line) /\ stdout # <<>>
    BY <1>0, <1>3 DEF ReadResponse, TypeOK
  <2>2. /\ Tail(stdout) \in Seq(Line) /\ Len(Tail(stdout)) = Len(stdout) - 1
        /\ \A k \in 1..Len(Tail(stdout)) : Tail(stdout)[k] = stdout[k + 1]
        /\ Head(stdout) = stdout[1]
    BY <2>1, HeadTailProperties
  <2>3. stdout' = Tail(stdout) /\ UNCHANGED <<chan, returned>>
    BY <1>3 DEF ReadResponse
  <2>4. Len(stdout) \in Nat \ {0}  BY <2>1
  <2>5. \A k \in 1..Len(stdout') : Honest(stdout'[k])
    <3>1. \A k \in 1..Len(Tail(stdout)) : k + 1 \in 1..Len(stdout)  BY <2>2, <2>4
    <3>. QED  BY <2>2, <2>3, <3>1 DEF Honest
  <2>6. reader' = "deliver" => resp' = Head(stdout)
    BY <1>3 DEF ReadResponse
  <2>7. Honest(Head(stdout))  BY <2>2, <2>4 DEF Honest
  <2>. QED  BY <2>3, <2>5, <2>6, <2>7 DEF OwnAnswer, Honest
<1>4. CASE DeliverResponse
  <2>1. resp.id \in Ids /\ chan[resp.id] = <<>> /\ Honest(resp)
    BY <1>0, <1>4 DEF DeliverResponse, ChannelInv
  <2>2. Append(chan[resp.id], resp) = <<resp>>  BY <2>1
  <2>3. \A i \in Ids : chan'[i] = IF i = resp.id THEN <<resp>> ELSE chan[i]
    BY <1>0, <1>4, <2>1, <2>2 DEF DeliverResponse, TypeOK
  <2>4. UNCHANGED <<stdout, returned>> /\ reader' = "read"
    BY <1>4 DEF DeliverResponse
  <2>. QED  BY <2>1, <2>3, <2>4 DEF OwnAnswer
<1>5. ASSUME NEW line \in Line, Honest(line), stdout' = Append(stdout, line),
             UNCHANGED <<reader, resp, chan, returned>>
      PROVE  AnswerInv'
  <2>1. stdout \in Seq(Line)  BY <1>0 DEF TypeOK
  <2>2. /\ Len(stdout') = Len(stdout) + 1
        /\ \A k \in 1..Len(stdout) : stdout'[k] = stdout[k]
        /\ stdout'[Len(stdout) + 1] = line
    BY <1>5, <2>1, AppendProperties
  <2>3. \A k \in 1..Len(stdout') : Honest(stdout'[k])
    <3>1. \A k \in 1..Len(stdout') : k \in 1..Len(stdout) \/ k = Len(stdout) + 1
      BY <2>1, <2>2
    <3>. QED  BY <1>5, <2>2, <3>1 DEF Honest
  <2>. QED  BY <1>5, <2>3 DEF OwnAnswer
<1>6. ASSUME NEW i \in Ids, ServerAnswers(i)  PROVE AnswerInv'
  BY <1>5, <1>6, LineType DEF ServerAnswers, Honest, clientVars, readVars
<1>7. ASSUME NEW line \in Line, ServerSendsExtra(line)  PROVE AnswerInv'
  BY <1>5, <1>7 DEF ServerSendsExtra, Honest, clientVars, readVars
<1>8. ASSUME UNCHANGED <<stdout, resp, chan, returned>>,
             reader' = reader \/ reader' \in {"exit", "exited"}
      PROVE  AnswerInv'
  BY <1>8 DEF OwnAnswer
<1>9. ASSUME NEW c \in Callers, BeginCall(c) \/ Register(c) \/ WriteRequest(c)
      PROVE  AnswerInv'
  BY <1>8, <1>9 DEF BeginCall, Register, WriteRequest, readVars
<1>10. CASE ReadError \/ ReaderExits \/ CloseStdin \/ CloseReturns
            \/ ServerReads \/ ServerExits
  BY <1>8, <1>10 DEF ReadError, ReaderExits, CloseStdin, CloseReturns, ServerReads,
     ServerExits, clientVars, readVars
<1>11. CASE UNCHANGED vars  BY <1>8, <1>11 DEF vars, clientVars, readVars
<1>. QED
  BY <1>1, <1>2, <1>3, <1>4, <1>6, <1>7, <1>9, <1>10, <1>11
  DEF Next, CallStep, Errs, ReadLoop, Server

\* Whatever the order of the answers and the number of concurrent calls, a
\* call that returns a response returns the answer to its own request, or a
\* request of the server's own with the same id.
THEOREM OwnAnswerHolds == Spec => []OwnAnswer
<1>1. Init => IInv /\ AnswerInv  BY IInvInit, AnswerInvInit
<1>2. IInv /\ AnswerInv /\ [Next]_vars => (IInv /\ AnswerInv)'
  BY IInvNext, AnswerInvNext
<1>3. AnswerInv => OwnAnswer  BY DEF AnswerInv
<1>. QED  BY <1>1, <1>2, <1>3, PTL DEF Spec

------------------------------------------------------------------------------
\* Every variable of the client keeps its type, whatever the server sends.
THEOREM TypeCorrect == Spec => []TypeOK
<1>1. IInv => TypeOK  BY DEF IInv
<1>. QED  BY <1>1, Invariance, PTL

(***************************************************************************)
(* The bookkeeping of Client.pending.  An id whose response was received   *)
(* is no longer in pending: its channel had the response, and ChannelInv   *)
(* gives an id in pending an empty channel.                                *)
(***************************************************************************)
LEMMA PendingNext == IInv /\ PendingAccounted /\ [Next]_vars => PendingAccounted'
<1>. SUFFICES ASSUME IInv, PendingAccounted, [Next]_vars PROVE PendingAccounted'
  OBVIOUS
<1>0. TypeOK /\ IdInv /\ ChannelInv  BY DEF IInv
<1>. DEFINE InProgress(i) == \E c \in Callers : id[c] = i /\ pc[c] \in {"write", "wait"}
            Ended(i) == \E r \in returned : r.id = i /\ r.outcome # "response"
<1>1. ASSUME NEW c \in Callers, BeginCall(c)  PROVE PendingAccounted'
  <2>1. \A i \in Ids : InProgress(i) => InProgress(i)'
    BY <1>0, <1>1 DEF BeginCall, TypeOK
  <2>2. pending' = pending /\ returned' = returned  BY <1>1 DEF BeginCall
  <2>. QED  BY <1>0, <2>1, <2>2 DEF PendingAccounted, TypeOK
<1>2. ASSUME NEW c \in Callers, Register(c)  PROVE PendingAccounted'
  <2>1. \A i \in Ids : InProgress(i) => InProgress(i)'
    BY <1>0, <1>2 DEF Register, TypeOK
  <2>2. \A i \in Ids : i = id[c] => InProgress(i)'
    BY <1>0, <1>2 DEF Register, TypeOK
  <2>3. pending' = pending \cup {id[c]} /\ returned' = returned
    BY <1>2 DEF Register
  <2>4. id[c] \in Ids  BY <1>0, <1>2, ActiveId DEF Register
  <2>. QED  BY <1>0, <2>1, <2>2, <2>3, <2>4 DEF PendingAccounted, TypeOK
<1>3. ASSUME NEW c \in Callers, WriteRequest(c)  PROVE PendingAccounted'
  <2>1. \A i \in Ids : InProgress(i) => InProgress(i)'
    BY <1>0, <1>3 DEF WriteRequest, TypeOK
  <2>2. pending' = pending /\ returned' = returned  BY <1>3 DEF WriteRequest
  <2>. QED  BY <1>0, <2>1, <2>2 DEF PendingAccounted, TypeOK
<1>4. ASSUME NEW c \in Callers, NEW outcome, NEW line, NEW err,
             ReturnFrom(c, outcome, line, err), pending' = pending,
             outcome # "response" \/ id[c] \notin pending
      PROVE  PendingAccounted'
  <2>1. \A i \in Ids : i # id[c] /\ InProgress(i) => InProgress(i)'
    BY <1>0, <1>4 DEF ReturnFrom, TypeOK
  <2>2. \A i \in Ids : Ended(i) => Ended(i)'  BY <1>4 DEF ReturnFrom
  <2>3. outcome # "response" => \A i \in Ids : i = id[c] => Ended(i)'
    <3>. DEFINE r == [id |-> id[c], outcome |-> outcome, line |-> line, err |-> err]
    <3>1. r \in returned'  BY <1>4 DEF ReturnFrom
    <3>2. r.id = id[c] /\ r.outcome = outcome  OBVIOUS
    <3>. HIDE DEF r
    <3>. QED  BY <3>1, <3>2
  <2>. QED  BY <1>0, <1>4, <2>1, <2>2, <2>3 DEF PendingAccounted, TypeOK
<1>5. ASSUME NEW c \in Callers, Errs(c)
      PROVE  PendingAccounted'
  BY <1>4, <1>5 DEF Errs, EncodeFails, WriteFails, ContextDone, SeeClosed
<1>6. ASSUME NEW c \in Callers, ReceiveResponse(c)  PROVE PendingAccounted'
  <2>1. id[c] \notin pending  BY <1>0, <1>6 DEF ReceiveResponse, ChannelInv
  <2>. QED  BY <1>4, <1>6, <2>1 DEF ReceiveResponse
<1>7. ASSUME pending' \subseteq pending, UNCHANGED <<pc, id, returned>>
      PROVE  PendingAccounted'
  BY <1>7 DEF PendingAccounted
<1>8. CASE ReadLoop \/ CloseStdin \/ CloseReturns \/ Server
  BY <1>7, <1>8 DEF ReadLoop, ReadResponse, DeliverResponse, ReadError, ReaderExits,
     CloseStdin, CloseReturns, Server, ServerReads, ServerExits, ServerAnswers,
     ServerSendsExtra, clientVars
<1>9. CASE UNCHANGED vars  BY <1>7, <1>9 DEF vars, clientVars
<1>. QED  BY <1>1, <1>2, <1>3, <1>5, <1>6, <1>8, <1>9 DEF Next, CallStep, Errs

\* Client.pending holds calls in progress and calls that ended without a
\* response, for any number of callers: what readLoop takes out is never
\* there again (the leak of client.go is bounded by failed calls).
THEOREM PendingAccountedHolds == Spec => []PendingAccounted
<1>1. Init => PendingAccounted  BY DEF Init, PendingAccounted
<1>. QED  BY <1>1, IInvInit, IInvNext, PendingNext, PTL DEF Spec

==============================================================================

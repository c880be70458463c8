------------------------------ MODULE McpClient ------------------------------
(***************************************************************************)
(* The MCP client (internal/mcp/client.go): goroutines that issue JSON-RPC *)
(* calls, the readLoop goroutine that hands each response to the call      *)
(* waiting for it, and the server process at the other end of two pipes.   *)
(*                                                                         *)
(* The server is external.  It reads requests in order, answers them in    *)
(* any order, may repeat an answer, may send requests of its own (which    *)
(* readLoop cannot tell from responses: only "id" is looked at), and may   *)
(* exit at any moment.  Lines readLoop skips (no id, not JSON) are left    *)
(* out: they change nothing.                                               *)
(***************************************************************************)
EXTENDS Naturals, Sequences, FiniteSets

CONSTANTS
  Callers,     \* goroutines that use the client
  MaxCalls,    \* bound on the calls of a run
  ServerIds,   \* ids of the requests the server sends on its own account
  MaxExtra,    \* bound on the lines the server sends that answer no request
  MayCancel    \* whether the context of a call can be cancelled

ASSUME McpAssumption ==
  /\ MaxCalls \in Nat
  /\ ServerIds \subseteq Nat \ {0}
  /\ MaxExtra \in Nat
  /\ MayCancel \in BOOLEAN

Ids == 1..MaxCalls

\* A line of the server: its id, and the request it answers (0: none).
Line == [id : Ids \cup ServerIds, answers : Ids \cup {0}]
NoLine == [id |-> 0, answers |-> 0]

VARIABLES
  nextID,     \* Client.nextID
  pc,         \* where each caller is in call
  id,         \* the id of its call, 0 outside of call
  pending,    \* the keys of Client.pending; the channel of a call has its id
  chan,       \* the buffered channel (capacity 1) of each call
  closed,     \* Client.closed is closed
  readErr,    \* Client.readErr is set
  reader,     \* where readLoop is
  resp,       \* the response readLoop is handing over
  stdin,      \* requests written and not yet read by the server
  stdinOpen,  \* Close has not closed the write side
  stdout,     \* lines written by the server and not yet read
  server,     \* "up" or "exited"
  asked,      \* requests the server has read and not answered
  answered,   \* requests the server has answered
  extra,      \* lines sent that answer no outstanding request
  closing,    \* where Close is
  returned    \* history: what each call returned

clientVars == <<nextID, pc, id, pending, chan, returned>>
readVars   == <<reader, resp, closed, readErr>>
serverVars == <<server, asked, answered, extra>>
vars == <<clientVars, readVars, serverVars, stdin, stdinOpen, stdout, closing>>

Init ==
  /\ nextID = 0
  /\ pc = [c \in Callers |-> "idle"]
  /\ id = [c \in Callers |-> 0]
  /\ pending = {}
  /\ chan = [i \in Ids |-> <<>>]
  /\ closed = FALSE
  /\ readErr = FALSE
  /\ reader = "read"
  /\ resp = NoLine
  /\ stdin = <<>>
  /\ stdinOpen = TRUE
  /\ stdout = <<>>
  /\ server = "up"
  /\ asked = {}
  /\ answered = {}
  /\ extra = 0
  /\ closing = "no"
  /\ returned = {}

------------------------------------------------------------------------------
(* call *)

BeginCall(c) ==
  /\ pc[c] = "idle"
  /\ nextID < MaxCalls
  /\ nextID' = nextID + 1
  /\ id' = [id EXCEPT ![c] = nextID + 1]
  /\ pc' = [pc EXCEPT ![c] = "register"]
  /\ UNCHANGED <<pending, chan, returned, readVars, serverVars, stdin,
                 stdinOpen, stdout, closing>>

\* The call returns an outcome.  Nothing removes it from pending here.
ReturnFrom(c, outcome, line, err) ==
  /\ pc' = [pc EXCEPT ![c] = "idle"]
  /\ id' = [id EXCEPT ![c] = 0]
  /\ returned' = returned \cup
       {[id |-> id[c], outcome |-> outcome, line |-> line, err |-> err]}

\* The parameters cannot be encoded; the id is used up.
EncodeFails(c) ==
  /\ pc[c] = "register"
  /\ ReturnFrom(c, "encodeError", NoLine, TRUE)
  /\ UNCHANGED <<nextID, pending, chan, readVars, serverVars, stdin,
                 stdinOpen, stdout, closing>>

Register(c) ==
  /\ pc[c] = "register"
  /\ pending' = pending \cup {id[c]}
  /\ pc' = [pc EXCEPT ![c] = "write"]
  /\ UNCHANGED <<nextID, id, chan, returned, readVars, serverVars, stdin,
                 stdinOpen, stdout, closing>>

\* The line is written under writeM, so requests do not interleave.
WriteRequest(c) ==
  /\ pc[c] = "write"
  /\ stdinOpen /\ server = "up"
  /\ stdin' = Append(stdin, id[c])
  /\ pc' = [pc EXCEPT ![c] = "wait"]
  /\ UNCHANGED <<nextID, id, pending, chan, returned, readVars, serverVars,
                 stdinOpen, stdout, closing>>

WriteFails(c) ==
  /\ pc[c] = "write"
  /\ ~stdinOpen \/ server = "exited"
  /\ ReturnFrom(c, "writeError", NoLine, TRUE)
  /\ UNCHANGED <<nextID, pending, chan, readVars, serverVars, stdin,
                 stdinOpen, stdout, closing>>

(***************************************************************************)
(* The select of call: any case that is ready may be taken, so a call      *)
(* whose response has arrived may still report the closed connection.      *)
(***************************************************************************)
ReceiveResponse(c) ==
  /\ pc[c] = "wait"
  /\ chan[id[c]] # <<>>
  /\ chan' = [chan EXCEPT ![id[c]] = Tail(@)]
  /\ ReturnFrom(c, "response", Head(chan[id[c]]), FALSE)
  /\ UNCHANGED <<nextID, pending, readVars, serverVars, stdin, stdinOpen,
                 stdout, closing>>

ContextDone(c) ==
  /\ MayCancel
  /\ pc[c] = "wait"
  /\ ReturnFrom(c, "cancelled", NoLine, TRUE)
  /\ UNCHANGED <<nextID, pending, chan, readVars, serverVars, stdin,
                 stdinOpen, stdout, closing>>

SeeClosed(c) ==
  /\ pc[c] = "wait"
  /\ closed
  /\ ReturnFrom(c, "closed", NoLine, readErr)
  /\ UNCHANGED <<nextID, pending, chan, readVars, serverVars, stdin,
                 stdinOpen, stdout, closing>>

CallStep(c) ==
  \/ EncodeFails(c) \/ Register(c) \/ WriteRequest(c) \/ WriteFails(c)
  \/ ReceiveResponse(c) \/ SeeClosed(c)

------------------------------------------------------------------------------
(* readLoop *)

\* Variant: the response goes to the oldest call in pending.
ReadResponseForOldest ==
  /\ reader = "read"
  /\ closing # "closed"
  /\ stdout # <<>>
  /\ stdout' = Tail(stdout)
  /\ IF pending # {}
       THEN LET oldest == CHOOSE i \in pending : \A j \in pending : i <= j
            IN  /\ pending' = pending \ {oldest}
                /\ resp' = [Head(stdout) EXCEPT !.id = oldest]
                /\ reader' = "deliver"
       ELSE UNCHANGED <<pending, resp, reader>>
  /\ UNCHANGED <<nextID, pc, id, chan, returned, closed, readErr, serverVars,
                 stdin, stdinOpen, closing>>

\* Variant: the id stays in pending.
ReadResponseKeeping ==
  /\ reader = "read"
  /\ closing # "closed"
  /\ stdout # <<>>
  /\ stdout' = Tail(stdout)
  /\ IF Head(stdout).id \in pending
       THEN resp' = Head(stdout) /\ reader' = "deliver"
       ELSE UNCHANGED <<resp, reader>>
  /\ UNCHANGED <<nextID, pc, id, pending, chan, returned, closed, readErr,
                 serverVars, stdin, stdinOpen, closing>>

\* Look the id up and take it out of pending, in one critical section.
ReadResponse ==
  /\ reader = "read"
  /\ closing # "closed"
  /\ stdout # <<>>
  /\ stdout' = Tail(stdout)
  /\ IF Head(stdout).id \in pending
       THEN /\ pending' = pending \ {Head(stdout).id}
            /\ resp' = Head(stdout)
            /\ reader' = "deliver"
       ELSE UNCHANGED <<pending, resp, reader>>
  /\ UNCHANGED <<nextID, pc, id, chan, returned, closed, readErr, serverVars,
                 stdin, stdinOpen, closing>>

\* A send on a full channel would block readLoop.
DeliverResponse ==
  /\ reader = "deliver"
  /\ chan[resp.id] = <<>>
  /\ chan' = [chan EXCEPT ![resp.id] = Append(@, resp)]
  /\ resp' = NoLine
  /\ reader' = "read"
  /\ UNCHANGED <<nextID, pc, id, pending, returned, closed, readErr,
                 serverVars, stdin, stdinOpen, stdout, closing>>

\* Variant: the error that ended the loop is not kept.
ReadErrorDropped ==
  /\ reader = "read"
  /\ server = "exited"
  /\ stdout = <<>> \/ closing = "closed"
  /\ reader' = "exit"
  /\ UNCHANGED <<readErr, resp, closed, clientVars, serverVars, stdin,
                 stdinOpen, stdout, closing>>

\* End of the stream, or the pipe closed by cmd.Wait with lines unread.
ReadError ==
  /\ reader = "read"
  /\ server = "exited"
  /\ stdout = <<>> \/ closing = "closed"
  /\ readErr' = TRUE
  /\ reader' = "exit"
  /\ UNCHANGED <<resp, closed, clientVars, serverVars, stdin, stdinOpen,
                 stdout, closing>>

\* Variant: Client.closed is not closed.
ReaderExitsSilently ==
  /\ reader = "exit"
  /\ reader' = "exited"
  /\ UNCHANGED <<resp, closed, readErr, clientVars, serverVars, stdin,
                 stdinOpen, stdout, closing>>

\* The deferred close of Client.closed.
ReaderExits ==
  /\ reader = "exit"
  /\ closed' = TRUE
  /\ reader' = "exited"
  /\ UNCHANGED <<resp, readErr, clientVars, serverVars, stdin, stdinOpen,
                 stdout, closing>>

ReadLoop == ReadResponse \/ DeliverResponse \/ ReadError \/ ReaderExits

------------------------------------------------------------------------------
(* Close, for a client made by Start: close stdin, wait for the process *)

\* Variant: Close waits for the process without closing its input.
CloseOnlyWaits ==
  /\ closing = "no"
  /\ closing' = "waiting"
  /\ UNCHANGED <<clientVars, readVars, serverVars, stdin, stdinOpen, stdout>>

CloseStdin ==
  /\ closing = "no"
  /\ closing' = "waiting"
  /\ stdinOpen' = FALSE
  /\ UNCHANGED <<clientVars, readVars, serverVars, stdin, stdout>>

CloseReturns ==
  /\ closing = "waiting"
  /\ server = "exited"
  /\ closing' = "closed"
  /\ UNCHANGED <<clientVars, readVars, serverVars, stdin, stdinOpen, stdout>>

------------------------------------------------------------------------------
(* The server process *)

ServerReads ==
  /\ server = "up"
  /\ stdin # <<>>
  /\ asked' = asked \cup {Head(stdin)}
  /\ stdin' = Tail(stdin)
  /\ UNCHANGED <<server, answered, extra, clientVars, readVars, stdinOpen,
                 stdout, closing>>

ServerAnswers(i) ==
  /\ server = "up"
  /\ i \in asked
  /\ asked' = asked \ {i}
  /\ answered' = answered \cup {i}
  /\ stdout' = Append(stdout, [id |-> i, answers |-> i])
  /\ UNCHANGED <<server, extra, clientVars, readVars, stdin, stdinOpen, closing>>

\* An answer once more, or a request of the server's own.
ServerSendsExtra(line) ==
  /\ server = "up"
  /\ extra < MaxExtra
  /\ \/ line.id \in answered /\ line.answers = line.id
     \/ line.id \in ServerIds /\ line.answers = 0
  /\ extra' = extra + 1
  /\ stdout' = Append(stdout, line)
  /\ UNCHANGED <<server, asked, answered, clientVars, readVars, stdin,
                 stdinOpen, closing>>

ServerExits ==
  /\ server = "up"
  /\ server' = "exited"
  /\ UNCHANGED <<asked, answered, extra, clientVars, readVars, stdin,
                 stdinOpen, stdout, closing>>

Server ==
  \/ ServerReads \/ ServerExits
  \/ \E i \in Ids : ServerAnswers(i)
  \/ \E line \in Line : ServerSendsExtra(line)

------------------------------------------------------------------------------
Next ==
  \/ \E c \in Callers : BeginCall(c) \/ CallStep(c) \/ ContextDone(c)
  \/ ReadLoop
  \/ CloseStdin \/ CloseReturns
  \/ Server

Spec == Init /\ [][Next]_vars

(***************************************************************************)
(* Go schedules every goroutine that can run.  Of the server it is assumed *)
(* that it reads its input, answers what it has read unless it exits, and  *)
(* exits once its input has ended; nothing is assumed about when a call    *)
(* is made or the client closed.                                           *)
(***************************************************************************)
Fairness ==
  /\ \A c \in Callers : WF_vars(CallStep(c))
  /\ WF_vars(ReadLoop)
  /\ WF_vars(CloseReturns)
  /\ WF_vars(ServerReads)
  /\ \A i \in Ids : WF_vars(ServerAnswers(i))
  /\ WF_vars(~stdinOpen /\ stdin = <<>> /\ asked = {} /\ ServerExits)

FairSpec == Spec /\ Fairness

------------------------------------------------------------------------------
(* Properties *)

TypeOK ==
  /\ nextID \in 0..MaxCalls
  /\ pc \in [Callers -> {"idle", "register", "write", "wait"}]
  /\ id \in [Callers -> 0..MaxCalls]
  /\ pending \subseteq Ids
  /\ chan \in [Ids -> Seq(Line)]
  /\ closed \in BOOLEAN
  /\ readErr \in BOOLEAN
  /\ reader \in {"read", "deliver", "exit", "exited"}
  /\ resp \in Line \cup {NoLine}
  /\ stdin \in Seq(Ids)
  /\ stdinOpen \in BOOLEAN
  /\ stdout \in Seq(Line)
  /\ server \in {"up", "exited"}
  /\ asked \subseteq Ids
  /\ answered \subseteq Ids
  /\ extra \in 0..MaxExtra
  /\ closing \in {"no", "waiting", "closed"}
  /\ returned \subseteq
       [id : Ids,
        outcome : {"response", "encodeError", "writeError", "cancelled", "closed"},
        line : Line \cup {NoLine}, err : BOOLEAN]

\* readLoop never blocks on a call's channel, even when the server repeats an
\* answer or the call is gone: the send of "ch <- resp" finds room.
ReaderNeverBlocks == reader = "deliver" => chan[resp.id] = <<>>

\* Concurrent calls with answers in any order get their own answers: the
\* correlation by id in pending.  The one thing that can pass for the answer
\* to a call is a request of the server's own that carries the same id.
OwnAnswer ==
  \A r \in returned :
    r.outcome = "response" =>
      \/ r.line.answers = r.id
      \/ r.line.answers = 0 /\ r.id \in ServerIds

\* A call that sees the connection closed has the error that closed it to
\* report: readErr is set before closed is closed.
ClosedHasError == \A r \in returned : r.outcome # "response" => r.err

\* Every call returns once, with one outcome.
ReturnsOnce == \A r, s \in returned : r.id = s.id => r = s

\* Every call is settled once, by its answer or with an error to report.
Settled == ReturnsOnce /\ ClosedHasError

\* Client.pending holds only calls in progress and calls that ended without
\* a response; a call that got its response leaves nothing behind.
PendingAccounted ==
  \A i \in pending :
    \/ \E c \in Callers : id[c] = i /\ pc[c] \in {"write", "wait"}
    \/ \E r \in returned : r.id = i /\ r.outcome # "response"

\* Every call returns, with a server that answers or exits: no response is
\* lost between the write of a request and the wait for its answer.
CallsReturn == \A c \in Callers : pc[c] # "idle" ~> pc[c] = "idle"

\* Close returns, with a server that exits at the end of its input.
CloseCompletes == closing = "waiting" ~> closing = "closed"

==============================================================================

------------------------------- MODULE Delivery -------------------------------
(***************************************************************************)
(* What a run promises, whatever queue carries it: the events sent during  *)
(* the run form one growing log, they are delivered in log order, each     *)
(* exactly once and at most Limit of them, events are only sent in         *)
(* reaction to a delivery, and a run that reports success has delivered    *)
(* all of them and returns exactly those addressed to "output".            *)
(***************************************************************************)
EXTENDS Graph

CONSTANT Limit

VARIABLES
  log,        \* items sent, [endpoint, event]
  delivered,  \* how many of them have been delivered
  outputs,    \* events the run has collected or returns
  phase       \* "starting", "running", "ok", "failed"

vars == <<log, delivered, outputs, phase>>

Init ==
  /\ log = <<>>
  /\ delivered = 0
  /\ outputs = <<>>
  /\ phase = "starting"

LogGrows ==
  /\ Len(log') >= Len(log)
  /\ SubSeq(log', 1, Len(log)) = log

Begin ==
  /\ phase = "starting"
  /\ phase' = "running"
  /\ LogGrows
  /\ UNCHANGED <<delivered, outputs>>

Send ==
  /\ phase = "running"
  /\ delivered > 0
  /\ LogGrows
  /\ UNCHANGED <<delivered, outputs, phase>>

Deliver ==
  /\ phase = "running"
  /\ delivered < Limit
  /\ delivered < Len(log)
  /\ delivered' = delivered + 1
  /\ outputs' = IF log[delivered'].endpoint = Output
                  THEN Append(outputs, log[delivered'].event) ELSE outputs
  /\ UNCHANGED <<log, phase>>

Succeed ==
  /\ phase = "running"
  /\ delivered = Len(log)
  /\ phase' = "ok"
  /\ UNCHANGED <<log, delivered, outputs>>

Fail ==
  /\ phase \in {"starting", "running"}
  /\ phase' = "failed"
  /\ outputs' = <<>>
  /\ UNCHANGED <<log, delivered>>

Next == Begin \/ Send \/ Deliver \/ Succeed \/ Fail

Spec == Init /\ [][Next]_vars

==============================================================================

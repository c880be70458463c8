----------------------------- MODULE MCScheduler -----------------------------
(***************************************************************************)
(* A small graph for Scheduler: a cycle through two nodes, one with a      *)
(* dotted name as composition produces; a fan-out that also feeds the      *)
(* output; an agent at the end of the bare component; and "output.text",   *)
(* behind which there is no component.                                     *)
(***************************************************************************)
EXTENDS Scheduler

MCSegments == {"", "input", "output", "text", "a", "b", "c"}

A == <<"a">>
B == <<"a", "b">>
C == <<"c">>

MCComponents == {A, B, C}
MCManaged == {A, B}

Connection(f, t) == [from |-> f, to |-> t]

MCEdges == Build(<<
  Connection(Input, <<"a", "input">>),
  Connection(<<"a", "output">>, <<"a", "b", "input">>),
  Connection(<<"a", "output">>, Output),
  Connection(<<"a", "b", "output">>, <<"a", "input">>),
  Connection(A, <<"c", "input">>),
  Connection(<<"c", "output">>, <<"output", "text">>)>>)

MCSources == {NoName, C}

==============================================================================

-------------------------------- MODULE Graph --------------------------------
(***************************************************************************)
(* Connection endpoints and the execution graph (internal/graph).          *)
(*                                                                         *)
(* An endpoint such as "search.crawler.input" is the sequence of its       *)
(* dot-separated segments, <<"search", "crawler", "input">>; joining with  *)
(* "." is concatenation.  A component name is such a sequence too, since   *)
(* composition dots the names of a child's components.                     *)
(***************************************************************************)
EXTENDS Naturals, Sequences

Input  == <<"input">>
Output == <<"output">>

\* The empty string, as a component name and as a port.
NoName == <<>>
NoPort == ""

(***************************************************************************)
(* The split is on the last dot; a bare endpoint has the empty port.       *)
(***************************************************************************)
SplitEndpoint(endpoint) ==
  IF Len(endpoint) > 1
    THEN [component |-> SubSeq(endpoint, 1, Len(endpoint) - 1),
          port      |-> endpoint[Len(endpoint)]]
    ELSE [component |-> endpoint, port |-> NoPort]

JoinEndpoint(component, port) == Append(component, port)

Elements(seq) == {seq[i] : i \in DOMAIN seq}

\* The elements of a sequence that are in a set, in their order.
Selected(seq, set) ==
  LET upTo[n \in 0..Len(seq)] ==
        IF n = 0 THEN <<>>
        ELSE IF seq[n] \in set THEN Append(upTo[n - 1], seq[n]) ELSE upTo[n - 1]
  IN  upTo[Len(seq)]

(***************************************************************************)
(* The graph of a connection list: each source endpoint with the endpoints *)
(* it fans out to, in the order the connections are written.               *)
(***************************************************************************)
Build(connections) ==
  [from \in {c.from : c \in Elements(connections)} |->
     LET out == Selected(connections, {c \in Elements(connections) : c.from = from})
     IN  [i \in DOMAIN out |-> out[i].to]]

Successors(edges, endpoint) ==
  IF endpoint \in DOMAIN edges THEN edges[endpoint] ELSE <<>>

==============================================================================

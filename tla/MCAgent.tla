------------------------------- MODULE MCAgent -------------------------------
(* Two architectures: a team of an agent with a tool and one without, and a  *)
(* crew with a component of the same name as one of these, and one without   *)
(* memory.  The model gives ids to some of its calls and names a tool there  *)
(* is not.                                                                   *)
EXTENDS Agent

Member(architecture, component) ==
  [architecture |-> <<architecture>>, component |-> <<component>>,
   provider |-> "ollama", tools |-> {}, memory |-> TRUE]

MCAgents ==
  {[Member("team", "finder") EXCEPT !.provider = "openai", !.tools = {"search"}],
   Member("team", "critic"), Member("crew", "critic"),
   [Member("crew", "clerk") EXCEPT !.memory = FALSE]}

MCRequests ==
  {<<[id |-> <<"x">>, name |-> "fetch"], [id |-> NoId, name |-> "search"]>>}

(* q is run with --model. *)
MCModelOverride == [p |-> NoOverride, q |-> "ollama"]

MCSessions == {NoSession, <<"alice">>, <<"bob">>}

==============================================================================

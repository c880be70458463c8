----------------------------- MODULE MCCommands -----------------------------
EXTENDS Commands

Agent(model, uses, skills) ==
  [type |-> "agent", model |-> <<model>>, source |-> "", version |-> "",
   tools |-> uses, skills |-> skills]
Node == [Agent("", {}, {}) EXCEPT !.type = "node", !.model = NoName, !.source = "wasm"]
Import(source, version) ==
  [Node EXCEPT !.type = "orchestration", !.source = source, !.version = version]
Wire(from, to) == [from |-> from, to |-> to]
Main(name) == <<"main">> :> [provider |-> "ollama", name |-> name]
Arch(components, connections) ==
  [components |-> components, connections |-> connections, models |-> Main("qwen")]

\* A package, and the architecture of one as a file on its own.
Package(kind, entry, dependencies) ==
  [form |-> "package", complete |-> TRUE, kind |-> kind, entry |-> entry,
   deps |-> dependencies]
Pkg(entry, dependencies) == Package("orchestration", entry, dependencies)
File(pkg) == [pkg EXCEPT !.form = "file", !.deps = <<>>]
Dep(source) == [source |-> source, version |-> "v1"]

In(name) == <<name, "input">>
Out(name) == <<name, "output">>

\* One agent, with a tool of its own dependencies.
Leaf == Pkg(Arch(<<"bot">> :> Agent("main", {<<"files", "read">>}, {}),
                 <<Wire(Input, In("bot")), Wire(Out("bot"), Output)>>),
            "files" :> Dep("disk"))

\* Named ports, an input and an output that fan out, and another model
\* under the same name.
Ports == Pkg([Arch(<<"a">> :> Agent("main", {}, {}) @@ <<"b">> :> Node,
                   <<Wire(<<"input", "query">>, In("a")),
                     Wire(<<"input", "query">>, In("b")),
                     Wire(Out("a"), In("b")),
                     Wire(Out("a"), <<"output", "docs">>),
                     Wire(Out("b"), <<"output", "docs">>)>>)
               EXCEPT !.models = Main("llama")],
             <<>>)

\* Imports Leaf, between its own input and an agent.
Middle == Pkg(Arch(<<"leaf">> :> Import("leaf", "v1") @@ <<"w">> :> Agent("main", {}, {}),
                   <<Wire(Input, <<"leaf">>), Wire(<<"leaf">>, In("w")),
                     Wire(Out("w"), Output)>>),
              <<>>)

\* Two packages that import each other.
Loop(source) ==
  Pkg(Arch(<<"again">> :> Import(source, ""),
           <<Wire(Input, <<"again">>), Wire(<<"again">>, Output)>>), <<>>)

\* Its input is also wired straight to its output.
Through == Pkg(Arch(<<"bot">> :> Agent("main", {}, {}),
                    <<Wire(Input, In("bot")), Wire(Out("bot"), Output),
                      Wire(Input, Output)>>), <<>>)

\* Refused by Pull: an undefined component.
Broken == Pkg(Arch(<<"bot">> :> Agent("main", {}, {}),
                   <<Wire(Input, In("bit"))>>), <<>>)

\* Toolboxes, a skill, a node, and a node whose module is no WASM binary.
Tool(process) == [runtime |-> "mcp", server |-> process]
Toolbox(tools) == Package("toolbox", [version |-> 1, tools |-> tools], <<>>)
Disk == Toolbox("read" :> Tool("disk-server") @@ "write" :> Tool("disk-server")
                @@ "grep" :> Tool("grep-server"))
Web == Toolbox("read" :> Tool("web-server"))
Skill == Package("skill", [instructions |-> "be brief"], <<>>)
Module(module) == Package("node", [runtime |-> "wasm", module |-> module], <<>>)

MCLibrary ==
  <<"leaf", "v1">> :> Leaf @@ <<"ports", "v1">> :> Ports @@ <<"middle", "v1">> :> Middle
  @@ <<"ping">> :> Loop("pong") @@ <<"pong">> :> Loop("ping")
  @@ <<"through">> :> Through @@ <<"broken">> :> Broken
  @@ <<"disk", "v1">> :> Disk @@ <<"web", "v1">> :> Web @@ <<"style", "v1">> :> Skill
  @@ <<"wasm">> :> Module("WASM binary") @@ <<"text">> :> Module("text")

\* An agent that uses two servers of a toolbox and one of another.
Own == Pkg(Arch(<<"bot">> :> Agent("main", {<<"t", "read">>, <<"t", "grep">>,
                                            <<"u", "read">>}, {"s"}),
                <<Wire(Input, In("bot")), Wire(Out("bot"), Output)>>),
           "t" :> Dep("disk") @@ "u" :> Dep("web") @@ "s" :> Dep("style"))

\* Two instances that feed each other in a cycle, through named ports.
Feedback == Pkg(Arch(<<"s">> :> Import("ports", "v1") @@ <<"d">> :> Import("middle", "v1"),
                  <<Wire(Input, <<"s", "query">>), Wire(<<"s", "docs">>, <<"d">>),
                    Wire(<<"d">>, <<"s", "query">>), Wire(<<"d">>, Output)>>),
             "files" :> Dep("disk"))

\* The same package twice, side by side and one level down.
Diamond == Pkg(Arch(<<"l">> :> Import("leaf", "v1") @@ <<"m">> :> Import("middle", "v1"),
                    <<Wire(Input, <<"l">>), Wire(Input, <<"m">>),
                      Wire(<<"l">>, Output), Wire(<<"m">>, Output)>>),
               "files" :> Dep("disk"))

\* Imports a package that comes back to itself.
Cyclic == Pkg(Arch(<<"p">> :> Import("ping", "") @@ <<"n">> :> Node,
                   <<Wire(Input, <<"p">>), Wire(<<"p">>, Output)>>), <<>>)

\* Names a port the package does not have, and one that is broken.
NoPortThere == Pkg(Arch(<<"s">> :> Import("ports", "v1"),
                        <<Wire(Input, <<"s", "question">>),
                          Wire(<<"s", "docs">>, Output)>>), <<>>)
Refused == Pkg(Arch(<<"b">> :> Import("broken", ""),
                    <<Wire(Input, <<"b">>)>>), <<>>)

Passing == Pkg(Arch(<<"t">> :> Import("through", ""),
                    <<Wire(Input, <<"t">>), Wire(<<"t">>, Output)>>), <<>>)

\* A node that is none, and an import that is a toolbox.
NotANode == Pkg(Arch(<<"n">> :> [Node EXCEPT !.source = "text"],
                     <<Wire(Input, In("n")), Wire(Out("n"), Output)>>), <<>>)
NotAnImport == Pkg(Arch(<<"l">> :> Import("leaf", "v1") @@ <<"x">> :> Import("disk", "v1"),
                        <<Wire(Input, <<"l">>), Wire(<<"x">>, Output)>>), <<>>)

\* An output that fans out, and a chain beside which there is another one.
Fan == Pkg(Arch(<<"a">> :> Agent("main", {}, {}) @@ <<"b">> :> Agent("main", {}, {}),
                <<Wire(Input, In("a")), Wire(Out("a"), In("b")), Wire(Out("a"), Output),
                  Wire(Out("b"), Output)>>), <<>>)
Beside == Pkg(Arch(<<"a">> :> Agent("main", {}, {}) @@ <<"b">> :> Node,
                   <<Wire(Input, In("a")), Wire(Out("a"), Output),
                     Wire(<<"a", "error">>, In("b")), Wire(Out("b"), Output)>>), <<>>)

\* A single chain of two, and two that go round in a circle.
Pair == [Fan EXCEPT !.entry.connections =
           <<Wire(Out("b"), Output), Wire(Input, In("a")), Wire(Out("a"), In("b"))>>]
Round == [Fan EXCEPT !.entry.connections =
            <<Wire(Input, In("a")), Wire(Out("a"), In("b")), Wire(Out("b"), In("a"))>>]

\* A model of a provider that there is not, and a manifest without a name.
NoProvider == [Fan EXCEPT !.entry.models =
                 <<"main">> :> [provider |-> "acme", name |-> "gpt"]]
Nameless == [Fan EXCEPT !.complete = FALSE]

MCRoots == {Own, Feedback, Diamond, Cyclic, NoPortThere, Refused, Passing, NotANode,
            NotAnImport, Fan, Beside, Pair, Round, NoProvider, Nameless, Disk,
            File(Diamond), File(Cyclic), File(Nameless)}

\* The root's toolbox "files" is not the one its import means by it.
MCClashing ==
  {Pkg(Arch(<<"l">> :> Import("leaf", "v1"),
            <<Wire(Input, <<"l">>), Wire(<<"l">>, Output)>>), "files" :> Dep("web"))}

\* Two servers of one toolbox have a tool of the same name.
MCCatalog ==
  "disk-server" :> {"read", "write"} @@ "grep-server" :> {"grep", "read"}
  @@ "web-server" :> {"read"}

MCOverrides == {<<>>, <<"openai">>, <<"openai", "gpt">>, <<"acme", "gpt">>}
==============================================================================

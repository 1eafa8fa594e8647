------------------------------- MODULE MCStdio -------------------------------
(* TLC instance of Stdio: two known tools on this OS and one of another.     *)
EXTENDS Stdio

MCWord == {"node", "srv", "node.exe", "/opt/app.js", "app.js", "pub", "alt", "dir", ".", "-y",
           "--api-key", "x-token", "sk-live-aaa111", "sk-live-bbb222", "hunter2", "-s3cret",
           "/opt/My", "Apps/node", "npx", "@acme/srv", "custom-mcp-server"}
MCCredential == {"--api-key", "x-token"}
MCSecret == {"sk-live-aaa111", "sk-live-bbb222", "hunter2", "-s3cret"}
MCEntropic == {"sk-live-aaa111", "sk-live-bbb222", "custom-mcp-server"}
MCDashed == {"-y", "--api-key", "--a", "-s3cret", "-s3"}
MCBrief == {<<w>> : w \in {"node", "srv", "node.exe", "app.js", "pub", "alt", "dir", ".", "-y",
                           "x-token", "hunter2", "-s3cret", "/opt/My", "npx"}}
           \cup {<<"dir", "pub">>}
MCTiny == {"-y", "."}
MCRunner == {<< <<"node">> >>, << <<"npx">> >>}
Slashed == {"/opt/app.js", "/op", "/opt/My", "Apps/node", "@acme/srv"}
MCBase == [w \in Slashed |-> CASE w = "/opt/app.js" -> "app.js"
                               [] w = "/op" -> "op"
                               [] w = "/opt/My" -> "My"
                               [] w = "Apps/node" -> "node"
                               [] w = "@acme/srv" -> "srv"]
MCNoExe == [w \in {"node.exe"} |-> "node"]
\* The ends of words that may be masked; of the others they do not matter.
MCHead3 == [w \in MCWord |->
  CASE w \in {"sk-live-aaa111", "sk-live-bbb222"} -> "sk-"
    [] w = "custom-mcp-server" -> "cus"
    [] w = "/opt/app.js" -> "/op"
    [] w = "--api-key" -> "--a"
    [] w = "-s3cret" -> "-s3"
    [] w = "-y" -> "-y"
    [] OTHER -> "abc"]
MCTail3 == [w \in MCWord |->
  CASE w = "sk-live-aaa111" -> "111"
    [] w = "sk-live-bbb222" -> "222"
    [] w = "custom-mcp-server" -> "ver"
    [] w = "/opt/app.js" -> ".js"
    [] OTHER -> "xyz"]

MCRegistry == <<[tool |-> "Claude", os |-> "linux"], [tool |-> "Claude", os |-> "darwin"],
                [tool |-> "Cursor", os |-> "linux"]>>

Bare(w) == [key |-> "", sep |-> "", val |-> <<w>>]
Blank(v, w) == [key |-> "", sep |-> "", val |-> <<v, w>>]
KeyVal(k, v) == [key |-> k, sep |-> "=", val |-> <<v>>]
Header(k, v) == [key |-> k, sep |-> ":", val |-> <<v>>]
Entry(name, cmd, args, env) ==
  [name |-> name, shape |-> TRUE, url |-> FALSE, command |-> cmd, args |-> args, env |-> env]
Http == [Entry("web", NoCommand, << >>, FALSE) EXCEPT !.url = TRUE]
NoCmd == Entry("none", NoCommand, << >>, TRUE)
Bad == [Entry("bad", Bare("srv"), << >>, FALSE) EXCEPT !.shape = FALSE]
Map(entries) == [kind |-> "map", entries |-> entries]
Kind(kind) == [kind |-> kind, entries |-> {}]

\* Versions of one server: its arguments regrouped, changed, its secret
\* changed, given in each of the announced shapes and in others, an env block
\* added, commands with blanks, and one that looks like a token.
Versions == {
  Entry("a", Bare("node"), <<Bare("/opt/app.js"), Bare("pub")>>, FALSE),
  Entry("a", Blank("/opt/My", "Apps/node"), <<Blank("/opt/app.js", "pub")>>, FALSE),
  Entry("a", Bare("node"), <<Bare("."), Bare("alt")>>, FALSE),
  Entry("a", Bare("node"), <<Bare("-y"), Bare("/opt/app.js"), Bare("pub")>>, TRUE),
  Entry("a", Blank("npx", "@acme/srv"), <<Bare("alt")>>, FALSE),
  Entry("a", Bare("node.exe"), <<Bare("--api-key"), Bare("hunter2"), Bare("pub")>>, FALSE),
  Entry("a", Bare("node.exe"), <<Bare("--api-key"), Bare("-s3cret"), Bare("pub")>>, FALSE),
  Entry("a", Bare("srv"), <<KeyVal("--api-key", "sk-live-aaa111")>>, FALSE),
  Entry("a", Bare("srv"), <<Blank("--api-key", "sk-live-aaa111")>>, FALSE),
  Entry("a", Bare("srv"), <<Bare("x-token"), KeyVal("dir", "pub")>>, FALSE),
  Entry("a", Bare("srv"), <<KeyVal("dir", "/opt/app.js"), Header("x-token", "sk-live-bbb222")>>, FALSE),
  Entry("a", Bare("custom-mcp-server"), <<Header("dir", "pub"), Bare("sk-live-bbb222")>>, FALSE),
  Entry("a", KeyVal("x-token", "sk-live-aaa111"), <<Bare("pub")>>, FALSE) }

B == Entry("b", Bare("srv"), << >>, FALSE)
Shared == Entry("a", Bare("srv"), <<Blank("--api-key", "sk-live-aaa111")>>, FALSE)

MCFileChoice == [t \in {"Claude", "Cursor"} |->
  IF t = "Claude" THEN {Map({v, Http, NoCmd}) : v \in Versions} \cup {Kind("denied")}
  ELSE {Map({B, Shared}), Map({B, Bad}), Kind("missing"),
        Kind("huge"), Kind("text")}]

\* What occurs in a line whose words are these, separated by blanks.
Occurring(words) ==
  LET text == [i \in DOMAIN words |-> <<words[i]>>]
      runs == {SubSeq(text, i, j) : i, j \in DOMAIN words} \ {<< >>}
  IN runs \cup {Executable(r) : r \in runs} \cup {<<BaseToken(r[1])>> : r \in runs}
Proc(pid, name, words) == [pid |-> pid, name |-> {<< <<name>> >>}, line |-> Occurring(words)]

\* A node without arguments and two with, a shell that mentions srv; and a
\* kernel thread without a command line before srv itself, a node with a secret
\* among its arguments and a program with a long name.
MCProcChoice == {
  <<Proc(1, "node", <<"node">>), Proc(2, "node", <<"/opt/My", "Apps/node", "/opt/app.js", "pub">>),
    Proc(3, "sh", <<"sh", "srv">>)>>,
  <<Proc(4, "srv", << >>), Proc(5, "srv", <<"srv", "dir", "pub">>),
    Proc(6, "node.exe", <<"node.exe", "--api-key", "hunter2", "pub">>),
    Proc(7, "custom-mcp-serv", <<"custom-mcp-server", "dir", "pub">>)>> }
=============================================================================

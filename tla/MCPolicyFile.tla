------------------------------ MODULE MCPolicyFile ------------------------------
(***************************************************************************)
(* Instances of PolicyFile for TLC: a tree of paths, policies of every     *)
(* form of glob, and what the disk holds when the program starts.          *)
(***************************************************************************)
EXTENDS PolicyFile

RootName == "/"

NameSet == {RootName, "a", "ab", "b", "bin", "sh", "shutdown", ".env", ".env.local", ".ssh",
            "id_rsa", "id_rsa.pub", "key.pem", "api", "?"}

Beginnings == {<<"a", "ab">>, <<"sh", "shutdown">>, <<".env", ".env.local">>, <<"id_rsa", "id_rsa.pub">>}

Credentials == {".env", ".env.local", ".ssh", "id_rsa", "id_rsa.pub"}

P(names) == <<RootName>> \o names

A == P(<<"a">>)
Sh == P(<<"bin", "sh">>)

\* Too long for a prefix, and too long to be written.
Deep   == P(<<"a", "b", "a", "b">>)
Deeper == P(<<"a", "b", "a", "b", "a">>)

\* Paths around the boundaries of the clusters, of the prefixes and of the buffers.
Reads ==
  {A, P(<<"a", "b">>), P(<<"a", "ab">>), P(<<"a", "b", "a">>), Deep, Deeper, P(<<"ab", "b">>), P(<<"b", ".env">>), P(<<"b", ".env.local">>),
   P(<<"b", "a">>), P(<<"b", "key.pem">>), P(<<"a", ".ssh", "b">>), P(<<"a", "id_rsa.pub">>),
   <<"a">>, <<"a", "b">>, <<".env">>}

ReadAct(p)     == [kind |-> "read", target |-> p]
NetAct(n, res) == [kind |-> "network", target |-> <<n>>, resolved |-> res]

SomeActs ==
  {ReadAct(p) : p \in Reads}
  \union {[kind |-> "write", target |-> P(<<"a", "b">>)]}
  \union {[kind |-> "exec", target |-> p] : p \in {Sh, P(<<"bin", "shutdown">>), Deep, Deeper}}
  \union {NetAct("api", TRUE), NetAct("?", FALSE)}

ShellPrograms == {Sh}

Rule(program, kill) == [call |-> "execve", program |-> program, kill |-> kill]

Plain(mode, reads, writes, denies, rules) ==
  [mode |-> mode, allow_read |-> reads, allow_write |-> writes, deny_always |-> denies,
   allow_domains |-> {}, deny_all_else |-> TRUE, rules |-> rules]

\* configs/exemplo-monitor-mode.yaml, the same with a rule for a program, and
\* policies with each form of glob.
Policies ==
  {Plain("monitor", {AnyFile}, {AnyFile}, {Named(".env"), Literal(<<".env">>)}, <<>>),
   Plain("enforce", {Anything}, {Tree(A)}, {Stemmed("id_rsa"), Tree(P(<<"a", "b">>))},
         <<Rule(Sh, TRUE), Rule(Deep, FALSE)>>),
   Plain("enforce", {Tree(A), Tree(P(<<"b">>))}, {Tree(P(<<"b">>))},
         {PemFile, Below(".ssh"), DirSlash(P(<<"a", "b">>))}, <<>>),
   Plain("enforce", {Children(A), Tree(P(<<"a", "b", "a">>))}, {Stem(A)}, {Tree(P(<<"b">>))},
         <<Rule(Sh, FALSE)>>),
   Plain("enforce", {Literal(A), TreeSlash(P(<<"bin">>))}, {Tree(P(<<>>))}, {Stem(A)}, <<>>),
   Plain("enforce", {DoubleSlash}, {}, {}, <<[call |-> "execve", program |-> <<>>, kill |-> TRUE]>>),
   Plain("monitor", {Tree(<<"a">>)}, {}, {}, <<>>),
   Plain("enforce", {Tree(A), Tree(P(<<"b">>)), Tree(P(<<"ab">>))}, {}, {}, <<>>),
   Plain("yolo", {Anything}, {}, {}, <<>>)}

Regular(p) == File("regular", TRUE, TRUE, p, {})

\* Nothing allowed: the search is over, and no session begins.
Refused == Regular(EmptyPolicy)

SearchFiles ==
  {NoFile, Refused, File("regular", FALSE, TRUE, EmptyPolicy, {}),
   File("link", TRUE, TRUE, EmptyPolicy, {}), File("dangling", TRUE, FALSE, EmptyPolicy, {}),
   File("other", TRUE, FALSE, EmptyPolicy, {})}

SomeLayouts ==
  [files : [1..Depth -> SearchFiles], repositories : SUBSET (1..Depth)]
  \union {[files |-> [d \in 1..Depth |-> IF d = 1 THEN Regular(p) ELSE NoFile],
           repositories |-> {1}] : p \in Policies}

SomeReplacements == {NoFile, Refused, File("link", TRUE, TRUE, EmptyPolicy, {})}
================================================================================

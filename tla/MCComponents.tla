----------------------------- MODULE MCComponents -----------------------------
(* Instances of modules that share no state: in every behaviour one of     *)
(* them runs, from its own initial states, and the others rest.            *)
EXTENDS LmdbDamage, ModelRegistry, Retrievers, CommandLine, PyStore, Reductions, PromptDiff

VARIABLE active

restVars == <<registry, retrieverVars, cliVars, pyVars, agentVars, diffVars>>

MCInit ==
  /\ active \in {"registry", "retrievers", "cli", "python", "agent", "diff", "damage"}
  /\ RegistryInit /\ CliInit /\ PyInit /\ AgentInit /\ DInit
  /\ IF active = "retrievers" THEN RetrieversInit ELSE listing = <<>> /\ retrieval = NoCall
  /\ IF active = "diff" THEN DiffInit ELSE prev = Missing /\ next = Missing /\ shown = Missing

MCNext ==
  /\ UNCHANGED active
  /\ \/ active = "damage" /\ DNext /\ UNCHANGED restVars
     \/ /\ UNCHANGED dvars
        /\ \/ active = "registry" /\ RegistryNext /\ UNCHANGED <<retrieverVars, cliVars, pyVars, agentVars, diffVars>>
           \/ active = "retrievers" /\ RetrieversNext /\ UNCHANGED <<registry, cliVars, pyVars, agentVars, diffVars>>
           \/ active = "cli" /\ CliNext /\ UNCHANGED <<registry, retrieverVars, pyVars, agentVars, diffVars>>
           \/ active = "python" /\ PyNext /\ UNCHANGED <<registry, retrieverVars, cliVars, agentVars, diffVars>>
           \/ active = "agent" /\ AgentNext /\ UNCHANGED <<registry, retrieverVars, cliVars, pyVars, diffVars>>
           \/ active = "diff" /\ TraceDiff /\ UNCHANGED <<registry, retrieverVars, cliVars, pyVars, agentVars>>

MCSpec == MCInit /\ [][MCNext]_<<active, dvars, restVars>>

-----------------------------------------------------------------------------
(* Ids 1 and 2 carry the same content. *)
MCHashOf == 1 :> "h1" @@ 2 :> "h1" @@ 3 :> "h2"
MCEdge == {<<1, "parent", 3>>, <<3, "parent", 2>>}

Profile(n, f, limits) == [name |-> n, family |-> f, limits |-> limits]
MCBuiltIn ==
  <<Profile(<<"gpt", "4">>, <<"gpt">>, 0), Profile(<<"gpt", "4", "mini">>, <<"gpt", "4", "mini">>, 0),
    Profile(<<"claude">>, NoFamily, 0)>>
MCBuiltInDefault == <<"gpt", "4">>
MCUserProfile ==
  {Profile(n, f, 1) : n \in {<<"gpt", "4">>, <<"gpt", "5">>, <<"claude">>},
                      f \in {NoFamily, <<>>, <<"gpt">>, <<"gpt", "4">>}}
MCRequestedModel ==
  {<<n>> : n \in {<<"gpt", "4">>, <<"gpt", "4", "mini">>, <<"gpt", "4", "mini", "x">>, <<"gpt", "4", "x">>,
                  <<"gpt", "5">>, <<"claude">>, <<"o3">>, <<>>, <<"gpt">>}}
  \union {<<<<"openrouter">>, <<"gpt", "4", "x">>>>}

MCStampOf == <<1, 1, 3>>
Words(a, ab, abc) == ("a" :> a) @@ ("ab" :> ab) @@ ("abc" :> abc)
MCBody == {Words(1, 0, 0), Words(0, 1, 0), Words(0, 0, 1), Words(1, 1, 2), Words(0, 2, 1), Binary}
MCWordLen == ("a" :> 1) @@ ("ab" :> 2) @@ ("abc" :> 3)
MCMinWordLen == ("lexical" :> 3) @@ ("bm25" :> 2)
MCQuery == {{"a"}, {"abc"}, {"ab", "abc"}}
(* in thousandths *)
MCLn == <<0, 693, 1099, 1386, 1609, 1792, 1946, 2079>>
MCPinned == <<3, 9, 1>>
MCPythonReply == {<<>>, <<<<2, 700>>, <<1, 1500>>>>, <<<<1, 500>>, <<0, 500>>>>, <<<<3, -200>>>>}

Pg(at, tls, ca) == [backend |-> "pg", at |-> at, tls |-> tls, ca |-> ca]
Lmdb(at) == [backend |-> "lmdb", at |-> at]
File(entry) == [parses |-> TRUE, applies |-> TRUE, entry |-> entry]
MCConfigFile ==
  {File(NotGiven), File(Lmdb("p2")), File(Lmdb(NotGiven)), File(Pg("u1", "require", FALSE)),
   File(Pg(NotGiven, "require-custom-ca", FALSE)), File(Pg("u1", "require-custom-ca", TRUE)),
   File(Pg(NotGiven, "verify-full", FALSE)), File(Pg("u1", "unset", FALSE)),
   [parses |-> FALSE, applies |-> TRUE, entry |-> NotGiven],
   [parses |-> TRUE, applies |-> FALSE, entry |-> Lmdb("p1")]}
MCEnvFile == {File(Lmdb("p2"))}
MCStoredAt ==
  ("p1" :> {<<"s1", "c1">>, <<"s2", "c1">>, <<"s1", "c2">>}) @@ ("p2" :> {}) @@
  ("u1" :> {<<"s1", "c1">>, <<"s1", "c2">>})

Json(state, events) == [state |-> state, events |-> events]
MCEnvelope ==
  {Json(NoState, <<<<"Fact", "x">>, <<"Plan", "x">>>>), Json("x", <<>>), Json("y", <<<<"Fact", "x">>>>),
   Json("", <<<<"Fact", "">>, <<"Summary", "z">>, <<"Summary", "z">>>>)}
=============================================================================

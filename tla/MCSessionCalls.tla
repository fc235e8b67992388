---------------------------- MODULE MCSessionCalls ----------------------------
(* Instances of SessionCalls for TLC. *)
EXTENDS SessionCalls

T(name) == <<name, <<>>>>
MCText == {T("fact"), T("bytes"), T("plan"), T("note"), T("news")}
MCUnreadable == {T("bytes")}
MCInitialStore ==
  <<[sessions |-> {"s1", "s2"}, text |-> T("fact"), parents |-> {}],
    [sessions |-> {"s1"}, text |-> T("bytes"), parents |-> {}],
    [sessions |-> {"s1"}, text |-> T("plan"), parents |-> {}],
    [sessions |-> {"s2"}, text |-> T("note"), parents |-> {}]>>
MCSimilarity == (<<"q", T("fact")>> :> 1) @@ (<<"q", T("plan")>> :> 2) @@ (<<"q", T("note")>> :> 2) @@ (<<"q", T("news")>> :> 1)

MCIngested == {<<"s1", T("news")>>}
Interchangeable == Permutations(Thread)
=============================================================================

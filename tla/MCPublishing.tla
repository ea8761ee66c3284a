---------------------------- MODULE MCPublishing ----------------------------
(* Two flushers for TLC. *)
EXTENDS Publishing

CONSTANTS p1, p2, e1, e2

TwoFlushers == {p1, p2}
Events2     == {e1, e2}

Sandbox(l) == [target |-> "sandbox", level |-> l]
OneEvent == {e1}
OneScope   == {Sandbox("real")}
ThreeScopes  == {Sandbox("real"), Sandbox("fixture"), [target |-> "test", level |-> "real"]}
TwoScopes   == {Sandbox("real"), Sandbox("fixture")}
=============================================================================

-------------------------- MODULE MCGithubPublisher ---------------------------
(* One flusher, one exact finding and one suggestion, for TLC. *)
EXTENDS GithubPublisher

CONSTANTS p1, e1, e2

OneFlusher == {p1}
Events2    == {e1, e2}
OneScope   == {[target |-> "sandbox", level |-> "real"]}

Finding(level) == [level |-> level, llm |-> "none", complete |-> TRUE, fingerprint |-> level]

MCPayload == (e1 :> Finding("L2")) @@ (e2 :> Finding("L4"))
=============================================================================

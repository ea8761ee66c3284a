----------------------------- MODULE MCInstaller -----------------------------
(* Two versions: the second changes a file, drops one and adds one. *)
EXTENDS Installer, TLC

MCTemplate == << 1 :> "x1" @@ 2 :> "y1", 1 :> "x2" @@ 3 :> "z2" >>
MCContents == {"x1", "y1", "x2", "z2"}
=============================================================================

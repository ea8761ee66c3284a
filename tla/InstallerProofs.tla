--------------------------- MODULE InstallerProofs ---------------------------
(***************************************************************************)
(* Proofs about Installer for any templates and any number of versions,    *)
(* commands, edits and crashes.                                            *)
(***************************************************************************)
EXTENDS Installer, TLAPS

USE TemplateAssumption

(* What a manifest on the disk can name.                                   *)
LEMMA ManifestFacts ==
    ASSUME manifest \in Manifests
    PROVE  /\ Managed \subseteq Paths
           /\ \A p \in Managed : Entries[p] \in Contents
           /\ Installed <=> \E v \in Versions : manifest = ManifestOf(v)
           /\ ~ Installed => Managed = {}
<1>1. CASE manifest = NoManifest
  <2>1. Managed = {}
    BY <1>1 DEF Managed, Entries, NoManifest
  <2>2. ASSUME NEW v \in Versions
        PROVE  NoManifest # ManifestOf(v)
    <3>1. DOMAIN NoManifest.entries = {} /\ DOMAIN ManifestOf(v).entries # {}
      BY DEF NoManifest, ManifestOf
    <3> QED
      BY <3>1
  <2> QED
    BY <1>1, <2>1, <2>2 DEF Installed
<1>2. ASSUME NEW v \in Versions, manifest = ManifestOf(v)
      PROVE  /\ Managed = DOMAIN Template[v] /\ Entries = Template[v]
             /\ Managed # {}
  BY <1>2 DEF Managed, Entries, ManifestOf
<1>3. CASE \E v \in Versions : manifest = ManifestOf(v)
  <2>1. manifest # NoManifest
    BY <1>2, <1>3 DEF Managed, Entries, NoManifest
  <2> QED
    BY <1>2, <1>3, <2>1 DEF Installed
<1> QED
  BY <1>1, <1>3 DEF Manifests

LEMMA InitEstablishes == Init => IInv
<1> SUFFICES ASSUME Init PROVE IInv
  OBVIOUS
<1>1. TypeOK
  BY DEF Init, TypeOK, Manifests, NoCommand
<1>2. Steps /\ CheckedBefore /\ WrittenSoFar /\ OwnedSoFar
  BY DEF Init, Steps, CheckedBefore, WrittenSoFar, OwnedSoFar
<1>3. FinishedIsComplete /\ TrackedUnlessKilled
  BY DEF Init, FinishedIsComplete, TrackedUnlessKilled, Tracked
<1> QED
  BY <1>1, <1>2, <1>3 DEF IInv

(* A command that may start finds, without --force, no file of the user's  *)
(* where it will write or remove one.                                      *)
LEMMA NothingInTheWay ==
    ASSUME TypeOK, Modified = {},
           NEW v \in Versions, NEW p \in Paths,
           p \in Managed \/ (p \in DOMAIN Template[v] /\ Conflicts(v) = {})
    PROVE  disk[p] # "user"
<1>1. CASE p \in Managed
  <2>1. disk[p] = Entries[p] /\ Entries[p] \in Contents
    BY <1>1, ManifestFacts DEF Modified, TypeOK
  <2> QED
    BY <2>1
<1>2. CASE p \notin Managed
  BY <1>2 DEF Conflicts
<1> QED
  BY <1>1, <1>2

LEMMA InstallStep ==
    ASSUME IInv, NEW upgrade \in BOOLEAN, NEW force \in BOOLEAN, NEW dry \in BOOLEAN,
           Install(upgrade, force, dry)
    PROVE  IInv'
<1> DEFINE verdict == InstallVerdict(home, upgrade, force, dry)
<1>0. /\ TypeOK /\ Steps /\ TrackedUnlessKilled
      /\ pc = "idle" /\ late' = {} /\ home \in Versions
      /\ UNCHANGED <<disk, manifest, home, killed, own>>
      /\ command' = [kind |-> IF Installed THEN "upgrade" ELSE "install",
                     force |-> force, dry |-> dry, version |-> home]
      /\ todo = {} /\ drop = {}
      /\ Managed \subseteq Paths
  BY ManifestFacts DEF IInv, Install, Begins, files, TypeOK
<1>1. CASE verdict # "go"
  <2>1. pc' = "idle" /\ UNCHANGED <<todo, drop>> /\ result' = verdict
    BY <1>0, <1>1 DEF Install
  <2>2. verdict \notin {"install", "upgrade"}
    BY DEF InstallVerdict
  <2>3. TypeOK'
    BY <1>0, <2>1 DEF TypeOK
  <2>4. Steps' /\ CheckedBefore' /\ WrittenSoFar' /\ OwnedSoFar'
    BY <1>0, <2>1 DEF Steps, CheckedBefore, WrittenSoFar, OwnedSoFar
  <2>5. FinishedIsComplete'
    BY <2>1, <2>2 DEF FinishedIsComplete
  <2>6. TrackedUnlessKilled'
    BY <1>0, <2>1 DEF TrackedUnlessKilled, Tracked, Managed, Entries
  <2> QED
    BY <2>3, <2>4, <2>5, <2>6 DEF IInv
<1>2. CASE verdict = "go"
  <2>1. /\ pc' = "write" /\ result' = "running"
        /\ todo' = DOMAIN Template[home] /\ drop' = Obsolete(home)
    BY <1>2 DEF Install
  <2>2. ~ force => Modified = {} /\ Conflicts(home) = {}
    BY <1>2 DEF InstallVerdict
  <2>3. Source' = DOMAIN Template[home]
    BY <1>0 DEF Source
  <2>4. drop' \subseteq Managed /\ drop' \cap Source' = {} /\ todo' \subseteq Paths
        /\ Managed' = Managed
    BY <1>0, <2>1, <2>3 DEF Obsolete, Managed, Entries
  <2>5. TypeOK'
    BY <1>0, <2>1, <2>4 DEF TypeOK
  <2>6. Steps'
    BY <1>0, <2>1, <2>3, <2>4 DEF Steps
  <2>7. CheckedBefore'
    BY <1>0, <2>1, <2>2, <2>4, NothingInTheWay DEF CheckedBefore, Obsolete
  <2>8. WrittenSoFar'
    BY <2>1, <2>3 DEF WrittenSoFar
  <2>9. OwnedSoFar'
    <3>1. ASSUME ~ killed, NEW p \in own
          PROVE  p \in Managed
      BY <1>0, <3>1 DEF TrackedUnlessKilled, Tracked
    <3>2. \A p \in Managed : p \in Source' \/ p \in drop'
      BY <2>1, <2>3 DEF Obsolete
    <3> QED
      BY <1>0, <2>1, <2>3, <3>1, <3>2 DEF OwnedSoFar
  <2>10. FinishedIsComplete' /\ TrackedUnlessKilled'
    BY <2>1 DEF FinishedIsComplete, TrackedUnlessKilled
  <2> QED
    BY <2>5, <2>6, <2>7, <2>8, <2>9, <2>10 DEF IInv
<1> QED
  BY <1>1, <1>2

LEMMA UninstallStep ==
    ASSUME IInv, NEW force \in BOOLEAN, NEW dry \in BOOLEAN, Uninstall(force, dry)
    PROVE  IInv'
<1> DEFINE verdict == UninstallVerdict(force, dry)
<1>0. /\ TypeOK /\ Steps /\ TrackedUnlessKilled
      /\ pc = "idle" /\ late' = {} /\ home \in Versions
      /\ UNCHANGED <<disk, manifest, home, todo, killed, own>>
      /\ command' = [kind |-> "uninstall", force |-> force, dry |-> dry, version |-> home]
      /\ todo = {} /\ drop = {}
      /\ Managed \subseteq Paths /\ Managed' = Managed
  BY ManifestFacts DEF IInv, Uninstall, Begins, files, TypeOK, Managed, Entries
<1>1. CASE verdict # "go"
  <2>1. pc' = "idle" /\ UNCHANGED drop /\ result' = verdict
    BY <1>0, <1>1 DEF Uninstall
  <2>2. verdict \notin {"install", "upgrade"}
    BY DEF UninstallVerdict
  <2>3. TypeOK'
    BY <1>0, <2>1 DEF TypeOK
  <2>4. Steps' /\ CheckedBefore' /\ WrittenSoFar' /\ OwnedSoFar'
    BY <1>0, <2>1 DEF Steps, CheckedBefore, WrittenSoFar, OwnedSoFar
  <2>5. FinishedIsComplete'
    BY <2>1, <2>2 DEF FinishedIsComplete
  <2>6. TrackedUnlessKilled'
    BY <1>0, <2>1 DEF TrackedUnlessKilled, Tracked, Managed, Entries
  <2> QED
    BY <2>3, <2>4, <2>5, <2>6 DEF IInv
<1>2. CASE verdict = "go"
  <2>1. pc' = "remove" /\ result' = "running" /\ drop' = Managed
    BY <1>2 DEF Uninstall
  <2>2. ~ force => Modified = {}
    BY <1>2 DEF UninstallVerdict
  <2>3. TypeOK'
    BY <1>0, <2>1 DEF TypeOK
  <2>4. Steps' /\ WrittenSoFar'
    BY <1>0, <2>1 DEF Steps, WrittenSoFar
  <2>5. CheckedBefore'
    BY <1>0, <2>1, <2>2, NothingInTheWay DEF CheckedBefore
  <2>6. OwnedSoFar'
    BY <1>0, <2>1 DEF OwnedSoFar, TrackedUnlessKilled, Tracked
  <2>7. FinishedIsComplete' /\ TrackedUnlessKilled'
    BY <2>1 DEF FinishedIsComplete, TrackedUnlessKilled
  <2> QED
    BY <2>3, <2>4, <2>5, <2>6, <2>7 DEF IInv
<1> QED
  BY <1>1, <1>2

LEMMA WriteFileStep == ASSUME IInv, WriteFile PROVE IInv'
<1>0. PICK p \in todo :
        /\ disk' = [disk EXCEPT ![p] = Template[command.version][p]]
        /\ own' = IF disk[p] = Template[command.version][p] THEN own ELSE own \cup {p}
        /\ todo' = todo \ {p}
  BY DEF WriteFile
<1>1. /\ pc = "write" /\ TypeOK /\ Steps /\ CheckedBefore /\ WrittenSoFar /\ OwnedSoFar
      /\ UNCHANGED <<manifest, home, pc, command, drop, result, killed, late>>
      /\ Source' = Source /\ Managed' = Managed
      /\ p \in Paths /\ p \in Source /\ p \notin drop
      /\ command.version \in Versions /\ command.kind # "uninstall"
      /\ Template[command.version][p] \in Contents
  BY DEF IInv, WriteFile, Steps, Source, Managed, Entries, TypeOK
<1>2. /\ disk' \in [Paths -> Contents \cup {"absent", "user"}]
      /\ disk'[p] = Template[command.version][p]
      /\ \A q \in Paths \ {p} : disk'[q] = disk[q]
  BY <1>0, <1>1 DEF TypeOK
<1>3. own' \subseteq own \cup {p} /\ own \subseteq Paths /\ todo \subseteq Paths
      /\ drop \subseteq Paths /\ Source \subseteq Paths
  BY <1>0, <1>1 DEF TypeOK, Source
<1>4. TypeOK'
  BY <1>0, <1>1, <1>2, <1>3 DEF TypeOK
<1>5. Steps'
  BY <1>0, <1>1 DEF Steps
<1>6. CheckedBefore'
  BY <1>0, <1>1, <1>2, <1>3 DEF CheckedBefore
<1>7. WrittenSoFar'
  BY <1>0, <1>1, <1>2, <1>3 DEF WrittenSoFar
<1>8. OwnedSoFar'
  BY <1>0, <1>1, <1>2, <1>3 DEF OwnedSoFar
<1>9. FinishedIsComplete' /\ TrackedUnlessKilled'
  BY <1>1 DEF FinishedIsComplete, TrackedUnlessKilled, Steps
<1> QED
  BY <1>4, <1>5, <1>6, <1>7, <1>8, <1>9 DEF IInv

LEMMA RemoveFileStep == ASSUME IInv, RemoveFile PROVE IInv'
<1>0. PICK p \in drop :
        /\ disk' = [disk EXCEPT ![p] = "absent"]
        /\ own' = own \ {p}
        /\ drop' = drop \ {p}
  BY DEF RemoveFile
<1>1. /\ pc = "remove" /\ TypeOK /\ Steps /\ CheckedBefore /\ WrittenSoFar /\ OwnedSoFar
      /\ UNCHANGED <<manifest, home, pc, command, todo, result, killed, late>>
      /\ Source' = Source /\ Managed' = Managed
      /\ p \in Paths /\ todo = {} /\ result = "running"
      /\ command.kind # "uninstall" => p \notin Source
      /\ own \subseteq Paths /\ drop \subseteq Paths /\ Source \subseteq Paths
  BY DEF IInv, RemoveFile, Steps, Source, Managed, Entries, TypeOK
<1>2. /\ disk' \in [Paths -> Contents \cup {"absent", "user"}]
      /\ disk'[p] = "absent"
      /\ \A q \in Paths \ {p} : disk'[q] = disk[q]
  BY <1>0, <1>1 DEF TypeOK
<1>3. TypeOK'
  BY <1>0, <1>1, <1>2 DEF TypeOK
<1>4. Steps'
  BY <1>0, <1>1 DEF Steps
<1>5. CheckedBefore'
  BY <1>0, <1>1, <1>2 DEF CheckedBefore
<1>6. WrittenSoFar'
  BY <1>0, <1>1, <1>2 DEF WrittenSoFar
<1>7. OwnedSoFar'
  BY <1>0, <1>1, <1>2 DEF OwnedSoFar
<1>8. FinishedIsComplete' /\ TrackedUnlessKilled'
  BY <1>1 DEF FinishedIsComplete, TrackedUnlessKilled
<1> QED
  BY <1>3, <1>4, <1>5, <1>6, <1>7, <1>8 DEF IInv

LEMMA AllWrittenStep == ASSUME IInv, AllWritten PROVE IInv'
<1>1. /\ pc = "write" /\ todo = {} /\ pc' = "remove"
      /\ UNCHANGED <<disk, manifest, home, command, todo, drop, result, killed, late, own>>
      /\ Source' = Source /\ Managed' = Managed
      /\ TypeOK /\ Steps /\ CheckedBefore /\ WrittenSoFar /\ OwnedSoFar
  BY DEF IInv, AllWritten, files, history, Source, Managed, Entries
<1>2. TypeOK'
  BY <1>1 DEF TypeOK
<1>3. Steps' /\ CheckedBefore' /\ WrittenSoFar' /\ OwnedSoFar'
  BY <1>1 DEF Steps, CheckedBefore, WrittenSoFar, OwnedSoFar
<1>4. FinishedIsComplete' /\ TrackedUnlessKilled'
  BY <1>1 DEF FinishedIsComplete, TrackedUnlessKilled, Steps
<1> QED
  BY <1>2, <1>3, <1>4 DEF IInv

LEMMA WriteManifestStep == ASSUME IInv, WriteManifest PROVE IInv'
<1>1. /\ pc = "remove" /\ drop = {} /\ command.kind # "uninstall" /\ pc' = "idle"
      /\ manifest' = ManifestOf(command.version) /\ command.version \in Versions
      /\ UNCHANGED <<disk, home, command, todo, drop, killed, late, own>>
      /\ TypeOK /\ todo = {} /\ WrittenSoFar /\ OwnedSoFar
  BY DEF IInv, WriteManifest, Ended, history, Steps, TypeOK
<1>2. Managed' = Source /\ Entries' = Template[command.version]
  BY <1>1 DEF Managed, Entries, ManifestOf, Source
<1>3. TypeOK'
  BY <1>1 DEF TypeOK, Manifests
<1>4. Steps' /\ CheckedBefore' /\ WrittenSoFar' /\ OwnedSoFar'
  BY <1>1 DEF Steps, CheckedBefore, WrittenSoFar, OwnedSoFar
<1>5. FinishedIsComplete'
  BY <1>1, <1>2 DEF FinishedIsComplete, WrittenSoFar
<1>6. TrackedUnlessKilled'
  BY <1>1, <1>2 DEF TrackedUnlessKilled, Tracked, OwnedSoFar
<1> QED
  BY <1>3, <1>4, <1>5, <1>6 DEF IInv

LEMMA RemoveManifestStep == ASSUME IInv, RemoveManifest PROVE IInv'
<1>1. /\ pc = "remove" /\ drop = {} /\ command.kind = "uninstall" /\ pc' = "idle"
      /\ manifest' = NoManifest /\ result' = "uninstall"
      /\ UNCHANGED <<disk, home, command, todo, drop, killed, late, own>>
      /\ TypeOK /\ todo = {} /\ OwnedSoFar
  BY DEF IInv, RemoveManifest, Ended, history, Steps
<1>2. TypeOK'
  BY <1>1 DEF TypeOK, Manifests
<1>3. Steps' /\ CheckedBefore' /\ WrittenSoFar' /\ OwnedSoFar'
  BY <1>1 DEF Steps, CheckedBefore, WrittenSoFar, OwnedSoFar
<1>4. FinishedIsComplete'
  BY <1>1 DEF FinishedIsComplete
<1>5. TrackedUnlessKilled'
  BY <1>1 DEF TrackedUnlessKilled, Tracked, OwnedSoFar
<1> QED
  BY <1>2, <1>3, <1>4, <1>5 DEF IInv

LEMMA CrashStep == ASSUME IInv, Crash PROVE IInv'
<1>1. /\ pc' = "idle" /\ result' = "killed" /\ todo' = {} /\ drop' = {} /\ killed' = TRUE
      /\ UNCHANGED <<disk, manifest, home, command, late, own>>
      /\ TypeOK
  BY DEF IInv, Crash, Ended, files
<1>2. TypeOK'
  BY <1>1 DEF TypeOK
<1>3. Steps' /\ CheckedBefore' /\ WrittenSoFar' /\ OwnedSoFar'
  BY <1>1 DEF Steps, CheckedBefore, WrittenSoFar, OwnedSoFar
<1>4. FinishedIsComplete' /\ TrackedUnlessKilled'
  BY <1>1 DEF FinishedIsComplete, TrackedUnlessKilled
<1> QED
  BY <1>2, <1>3, <1>4 DEF IInv

LEMMA EditStep ==
    ASSUME IInv, NEW p \in Paths, NEW content \in {"absent", "user"}, Edit(p, content)
    PROVE  IInv'
<1>1. /\ disk' = [disk EXCEPT ![p] = content]
      /\ late' = late \cup {p} /\ own' = own \ {p}
      /\ UNCHANGED <<manifest, home, pc, command, todo, drop, result, killed>>
      /\ Source' = Source /\ Managed' = Managed /\ Entries' = Entries
      /\ TypeOK /\ Steps /\ CheckedBefore /\ WrittenSoFar /\ OwnedSoFar
      /\ FinishedIsComplete /\ TrackedUnlessKilled
  BY DEF IInv, Edit, Source, Managed, Entries
<1>2. /\ disk' \in [Paths -> Contents \cup {"absent", "user"}]
      /\ \A q \in Paths \ {p} : disk'[q] = disk[q]
      /\ own \subseteq Paths /\ todo \subseteq Paths /\ drop \subseteq Paths
      /\ Source \subseteq Paths /\ Managed \subseteq Paths
  BY <1>1, ManifestFacts DEF TypeOK, Source
<1>3. TypeOK'
  BY <1>1, <1>2 DEF TypeOK
<1>4. Steps'
  BY <1>1 DEF Steps
<1>5. CheckedBefore' /\ WrittenSoFar'
  BY <1>1, <1>2 DEF CheckedBefore, WrittenSoFar
<1>6. OwnedSoFar'
  BY <1>1, <1>2 DEF OwnedSoFar
<1>7. FinishedIsComplete'
  BY <1>1, <1>2 DEF FinishedIsComplete
<1>8. TrackedUnlessKilled'
  BY <1>1, <1>2 DEF TrackedUnlessKilled, Tracked
<1> QED
  BY <1>3, <1>4, <1>5, <1>6, <1>7, <1>8 DEF IInv

LEMMA BumpStep == ASSUME IInv, Bump PROVE IInv'
<1>1. /\ home' \in Versions
      /\ UNCHANGED <<disk, manifest, pc, command, todo, drop, result, killed, late, own>>
  BY DEF Bump, files, history
<1>2. TypeOK'
  BY <1>1 DEF IInv, TypeOK
<1>3. Steps' /\ CheckedBefore' /\ WrittenSoFar' /\ OwnedSoFar'
  BY <1>1 DEF IInv, Steps, CheckedBefore, WrittenSoFar, OwnedSoFar, Source, Managed, Entries
<1>4. FinishedIsComplete' /\ TrackedUnlessKilled'
  BY <1>1 DEF IInv, FinishedIsComplete, TrackedUnlessKilled, Tracked, Managed, Entries
<1> QED
  BY <1>2, <1>3, <1>4 DEF IInv

LEMMA StutterStep == ASSUME IInv, UNCHANGED vars PROVE IInv'
<1>1. UNCHANGED <<disk, manifest, home, pc, command, todo, drop, result, killed, late, own>>
  BY DEF vars, files, history
<1>2. TypeOK'
  BY <1>1 DEF IInv, TypeOK
<1>3. Steps' /\ CheckedBefore' /\ WrittenSoFar' /\ OwnedSoFar'
  BY <1>1 DEF IInv, Steps, CheckedBefore, WrittenSoFar, OwnedSoFar, Source, Managed, Entries
<1>4. FinishedIsComplete' /\ TrackedUnlessKilled'
  BY <1>1 DEF IInv, FinishedIsComplete, TrackedUnlessKilled, Tracked, Managed, Entries
<1> QED
  BY <1>2, <1>3, <1>4 DEF IInv

LEMMA NextPreserves == IInv /\ [Next]_vars => IInv'
<1> SUFFICES ASSUME IInv, [Next]_vars PROVE IInv'
  OBVIOUS
<1>1. ASSUME NEW upgrade \in BOOLEAN, NEW force \in BOOLEAN, NEW dry \in BOOLEAN,
             Install(upgrade, force, dry)
      PROVE  IInv'
  BY <1>1, InstallStep
<1>2. ASSUME NEW force \in BOOLEAN, NEW dry \in BOOLEAN, Uninstall(force, dry)
      PROVE  IInv'
  BY <1>2, UninstallStep
<1>3. CASE WriteFile
  BY <1>3, WriteFileStep
<1>4. CASE AllWritten
  BY <1>4, AllWrittenStep
<1>5. CASE RemoveFile
  BY <1>5, RemoveFileStep
<1>6. CASE WriteManifest
  BY <1>6, WriteManifestStep
<1>7. CASE RemoveManifest
  BY <1>7, RemoveManifestStep
<1>8. CASE Crash
  BY <1>8, CrashStep
<1>9. ASSUME NEW p \in Paths, NEW content \in {"absent", "user"}, Edit(p, content)
      PROVE  IInv'
  BY <1>9, EditStep
<1>10. CASE Bump
  BY <1>10, BumpStep
<1>11. CASE UNCHANGED vars
  BY <1>11, StutterStep
<1> QED
  BY <1>1, <1>2, <1>3, <1>4, <1>5, <1>6, <1>7, <1>8, <1>9, <1>10, <1>11 DEF Next

(* The inductive invariant: what a command that runs has checked, written  *)
(* and still to do.                                                        *)
THEOREM Inductive == Spec => []IInv
<1> QED
  BY InitEstablishes, NextPreserves, PTL DEF Spec

(* Types: the manifest on the disk is always that of a whole version.      *)
THEOREM TypeCorrect == Spec => []TypeOK
<1>1. IInv => TypeOK
  BY DEF IInv
<1> QED
  BY <1>1, Inductive, PTL

(* After an install or upgrade that ends with success the disk agrees with *)
(* the manifest, but for what the user changed in the meantime.            *)
THEOREM InstallsAreComplete == Spec => []FinishedIsComplete
<1>1. IInv => FinishedIsComplete
  BY DEF IInv
<1> QED
  BY <1>1, Inductive, PTL

(* As long as no command died half-way, the manifest names every file the  *)
(* installer wrote and that is still as it wrote it.                       *)
THEOREM FilesAreTracked == Spec => []TrackedUnlessKilled
<1>1. IInv => TrackedUnlessKilled
  BY DEF IInv
<1> QED
  BY <1>1, Inductive, PTL

(* doctor calls a product healthy exactly when install finds nothing to do.*)
THEOREM DoctorAndInstallerAgree == Spec => []DoctorAgrees
<1>1. ASSUME TypeOK, Healthy
      PROVE  InstallVerdict(home, FALSE, FALSE, FALSE) = "unchanged"
  <2>1. PICK v \in Versions : manifest = ManifestOf(v)
    BY <1>1, ManifestFacts DEF Healthy, TypeOK
  <2>2. manifest = ManifestOf(home) /\ Managed = DOMAIN Template[home]
        /\ Entries = Template[home]
    BY <1>1, <2>1 DEF Healthy, ManifestOf, Managed, Entries
  <2>3. Modified = {} /\ Installed
    BY <1>1 DEF Healthy
  <2>4. Changed(home) = {} /\ Obsolete(home) = {} /\ Conflicts(home) = {}
    BY <2>2, <2>3 DEF Changed, Obsolete, Conflicts, Modified
  <2>5. ~ Outdated(home)
    BY <2>2, <2>4 DEF Outdated
  <2> QED
    BY <2>3, <2>4, <2>5 DEF InstallVerdict
<1>2. ASSUME TypeOK, InstallVerdict(home, FALSE, FALSE, FALSE) = "unchanged"
      PROVE  Healthy
  <2>1. Modified = {} /\ Installed /\ ~ Outdated(home)
    BY <1>2 DEF InstallVerdict
  <2>2. manifest = ManifestOf(home)
    BY <2>1 DEF Outdated
  <2> QED
    BY <2>1, <2>2 DEF Healthy, ManifestOf, Entries
<1>3. TypeOK => DoctorAgrees
  BY <1>1, <1>2 DEF DoctorAgrees
<1> QED
  BY <1>3, TypeCorrect, PTL

(* The counters count. *)
Counts == commands \in Nat /\ edits \in Nat

LEMMA CountsStep == ASSUME Counts, [Next]_vars PROVE Counts'
<1>1. CASE \E upgrade, force, dry \in BOOLEAN : Install(upgrade, force, dry)
  BY <1>1 DEF Counts, Install, Begins
<1>2. CASE \E force, dry \in BOOLEAN : Uninstall(force, dry)
  BY <1>2 DEF Counts, Uninstall, Begins
<1>3. CASE \E p \in Paths, content \in {"absent", "user"} : Edit(p, content)
  BY <1>3 DEF Counts, Edit
<1>4. CASE UNCHANGED <<commands, edits>>
  BY <1>4 DEF Counts
<1> QED
  BY <1>1, <1>2, <1>3, <1>4 DEF Next, WriteFile, AllWritten, RemoveFile, WriteManifest,
     RemoveManifest, Crash, Bump, vars, history

LEMMA Counted == Spec => []Counts
<1>1. Init => Counts
  BY DEF Init, Counts
<1> QED
  BY <1>1, CountsStep, PTL DEF Spec

(* What the user put at a path before a command began, only the user or a  *)
(* command with --force takes away.                                        *)
THEOREM UserEditsAreKept == Spec => EditsKept
<1> DEFINE Kept == \A p \in Paths : UserFile(p) /\ disk'[p] # "user" /\ edits' = edits
                       => command.force \/ p \in late
<1>1. IInv /\ Counts /\ [Next]_vars => Kept
  <2> SUFFICES ASSUME IInv, Counts, [Next]_vars, NEW p \in Paths,
                      disk[p] = "user", disk'[p] # "user", edits' = edits
               PROVE  command.force \/ p \in late
    BY DEF UserFile
  <2>1. disk \in [Paths -> Contents \cup {"absent", "user"}] /\ edits' = edits
         /\ edits \in Nat
    BY DEF IInv, TypeOK, Counts
  <2>2. CASE WriteFile
    BY <2>1, <2>2 DEF WriteFile, IInv, CheckedBefore
  <2>3. CASE RemoveFile
    BY <2>1, <2>3 DEF RemoveFile, IInv, CheckedBefore
  <2>4. CASE \E q \in Paths, content \in {"absent", "user"} : Edit(q, content)
    BY <2>1, <2>4 DEF Edit
  <2>5. CASE UNCHANGED disk
    BY <2>5
  <2> QED
    BY <2>2, <2>3, <2>4, <2>5 DEF Next, Install, Uninstall, Begins, AllWritten,
       WriteManifest, RemoveManifest, Crash, Bump, vars, files
<1> QED
  BY <1>1, Inductive, Counted, PTL DEF Spec, EditsKept

(* A file goes only while the manifest on the disk still names it.         *)
THEOREM OnlyRecordedFilesGo == Spec => RemovesOnlyRecorded
<1> DEFINE Recorded == \A p \in Paths : disk[p] # "absent" /\ disk'[p] = "absent"
                           /\ edits' = edits => p \in Managed
<1>1. IInv /\ Counts /\ [Next]_vars => Recorded
  <2> SUFFICES ASSUME IInv, Counts, [Next]_vars, NEW p \in Paths,
                      disk[p] # "absent", disk'[p] = "absent", edits' = edits
               PROVE  p \in Managed
    OBVIOUS
  <2>1. /\ disk \in [Paths -> Contents \cup {"absent", "user"}] /\ edits' = edits
        /\ edits \in Nat
    BY DEF IInv, TypeOK, Counts
  <2>2. CASE WriteFile
    <3>1. PICK q \in todo : disk' = [disk EXCEPT ![q] = Template[command.version][q]]
      BY <2>2 DEF WriteFile
    <3>2. q \in DOMAIN Template[command.version] /\ command.version \in Versions
      BY <2>2 DEF WriteFile, IInv, Steps, Source, TypeOK
    <3> QED
      BY <2>1, <3>1, <3>2
  <2>3. CASE RemoveFile
    BY <2>1, <2>3 DEF RemoveFile, IInv, Steps
  <2>4. CASE \E q \in Paths, content \in {"absent", "user"} : Edit(q, content)
    BY <2>1, <2>4 DEF Edit
  <2>5. CASE UNCHANGED disk
    BY <2>5
  <2> QED
    BY <2>2, <2>3, <2>4, <2>5 DEF Next, Install, Uninstall, Begins, AllWritten,
       WriteManifest, RemoveManifest, Crash, Bump, vars, files
<1> QED
  BY <1>1, Inductive, Counted, PTL DEF Spec, RemovesOnlyRecorded

=============================================================================

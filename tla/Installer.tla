------------------------------ MODULE Installer ------------------------------
(***************************************************************************)
(* The template installer (scripts/installer/installer.py): it copies the  *)
(* templates of a product into the product's directory, and keeps their    *)
(* digests in a manifest that tells it later which files are its own and   *)
(* whether somebody edited them.  Every file is replaced atomically, the   *)
(* manifest last; between two files the command may die, and the user may  *)
(* edit any file at any time.  A digest is the content here.               *)
(***************************************************************************)
EXTENDS Naturals

CONSTANTS
    Paths,          \* the destinations, in sorted order: numbers
    Versions,       \* the framework versions: numbers
    Contents,       \* what a template can contain
    Template,       \* version -> its templates: a function from some paths
    MaxCommands,    \* bound: commands
    MaxEdits,       \* bound: edits of the user
    CanCrash        \* whether a command may die

ASSUME TemplateAssumption ==
    /\ Paths \subseteq Nat /\ Versions \subseteq Nat /\ 1 \in Versions
    /\ {"absent", "user"} \cap Contents = {}
    /\ DOMAIN Template = Versions
    /\ \A v \in Versions : /\ DOMAIN Template[v] \subseteq Paths
                           /\ DOMAIN Template[v] # {}
                           /\ \A p \in DOMAIN Template[v] : Template[v][p] \in Contents

VARIABLES
    disk,       \* path -> content in the product directory
    manifest,   \* the manifest file: version and digests
    home,       \* the framework version of the pipeline home
    pc,         \* where the command stands
    command,    \* the command, and the version whose templates it has read
    todo,       \* paths it still has to write
    drop,       \* paths it still has to remove
    result,     \* status of the last command
    commands, edits,    \* how many there were
    killed,     \* history: a command died half-way
    late,       \* history: paths the user changed since the command began
    own         \* history: paths with a content the installer wrote

files == <<disk, manifest>>
history == <<commands, edits, killed, late, own>>
vars == <<files, home, pc, command, todo, drop, result, history>>

NoManifest == [version |-> 0, entries |-> [p \in {} |-> "absent"]]

NoCommand == [kind |-> "none", force |-> FALSE, dry |-> FALSE, version |-> 1]

Init ==
    /\ disk \in [Paths -> {"absent", "user"}]
    /\ manifest = NoManifest
    /\ home = 1
    /\ pc = "idle" /\ command = NoCommand /\ todo = {} /\ drop = {}
    /\ result = "none"
    /\ commands = 0 /\ edits = 0 /\ killed = FALSE /\ late = {} /\ own = {}

-----------------------------------------------------------------------------
(* What a command finds *)

Installed == manifest # NoManifest
Entries   == manifest.entries
Managed   == DOMAIN Entries

ManifestOf(v) == [version |-> v, entries |-> Template[v]]

Modified_OnlyPresent ==     \* mutant: a missing file is not a modification
    {p \in Managed : disk[p] \notin {Entries[p], "absent"}}

(* detect_local_modifications: edited or missing. *)
Modified == {p \in Managed : disk[p] # Entries[p]}

Changed(v) ==
    {p \in DOMAIN Template[v] : disk[p] # Template[v][p]
                                \/ p \notin Managed
                                \/ Entries[p] # Template[v][p]}

Obsolete_None(v) == {}     \* mutant: nothing is ever obsolete

Obsolete(v) == Managed \ DOMAIN Template[v]

Conflicts_None(v) == {}     \* mutant: whatever is in the way is overwritten

(* Files in the way that no manifest knows. *)
Conflicts(v) == {p \in DOMAIN Template[v] \ Managed : disk[p] # "absent"}

Outdated(v) == Changed(v) # {} \/ Obsolete(v) # {} \/ manifest # ManifestOf(v)

(* install_or_upgrade, up to its first write. *)
InstallVerdict(v, upgrade, force, dry) ==
    IF ~ force /\ Modified # {} THEN "modified"
    ELSE IF Installed /\ ~ upgrade /\ Outdated(v) THEN "differ"
    ELSE IF ~ force /\ Conflicts(v) # {} THEN "conflict"
    ELSE IF Installed /\ ~ Outdated(v) THEN "unchanged"
    ELSE IF dry THEN "dry-run" ELSE "go"

(* uninstall, up to its first removal. *)
UninstallVerdict(force, dry) ==
    IF ~ Installed THEN "unchanged"
    ELSE IF ~ force /\ Modified # {} THEN "modified"
    ELSE IF dry THEN "dry-run" ELSE "go"

(* doctor_product: the version, the templates and the files all agree. *)
Healthy == /\ Installed
           /\ manifest.version = home
           /\ Entries = Template[home]
           /\ Modified = {}

-----------------------------------------------------------------------------
(* Commands *)

Begins ==
    /\ pc = "idle" /\ commands < MaxCommands
    /\ commands' = commands + 1
    /\ late' = {}

Install(upgrade, force, dry) ==
    /\ Begins
    /\ command' = [kind |-> IF Installed THEN "upgrade" ELSE "install",
                   force |-> force, dry |-> dry, version |-> home]
    /\ LET verdict == InstallVerdict(home, upgrade, force, dry)
       IN  IF verdict = "go"
           THEN /\ todo' = DOMAIN Template[home] /\ drop' = Obsolete(home)
                /\ pc' = "write" /\ result' = "running"
           ELSE UNCHANGED <<todo, drop, pc>> /\ result' = verdict
    /\ UNCHANGED <<files, home, edits, killed, own>>

Uninstall(force, dry) ==
    /\ Begins
    /\ command' = [kind |-> "uninstall", force |-> force, dry |-> dry, version |-> home]
    /\ LET verdict == UninstallVerdict(force, dry)
       IN  IF verdict = "go"
           THEN drop' = Managed /\ pc' = "remove" /\ result' = "running"
           ELSE UNCHANGED <<drop, pc>> /\ result' = verdict
    /\ UNCHANGED <<files, home, todo, edits, killed, own>>

First(p, S) == p \in S /\ \A q \in S : p <= q

WriteFile_KeepsExisting ==  \* mutant: only a missing file is written
    /\ pc = "write"
    /\ \E p \in todo :
         LET new == IF disk[p] = "absent" THEN Template[command.version][p] ELSE disk[p]
         IN  /\ First(p, todo)
             /\ disk' = [disk EXCEPT ![p] = new]
             /\ own' = IF disk[p] = new THEN own ELSE own \cup {p}
             /\ todo' = todo \ {p}
    /\ UNCHANGED <<manifest, home, pc, command, drop, result, commands, edits, killed, late>>

(* The files in sorted order; one that has its content already is left     *)
(* alone.                                                                  *)
WriteFile ==
    /\ pc = "write"
    /\ \E p \in todo :
         LET new == Template[command.version][p]
         IN  /\ First(p, todo)
             /\ disk' = [disk EXCEPT ![p] = new]
             /\ own' = IF disk[p] = new THEN own ELSE own \cup {p}
             /\ todo' = todo \ {p}
    /\ UNCHANGED <<manifest, home, pc, command, drop, result, commands, edits, killed, late>>

AllWritten ==
    /\ pc = "write" /\ todo = {}
    /\ pc' = "remove"
    /\ UNCHANGED <<files, home, command, todo, drop, result, history>>

RemoveFile ==
    /\ pc = "remove"
    /\ \E p \in drop :
         /\ First(p, drop)
         /\ disk' = [disk EXCEPT ![p] = "absent"]
         /\ own' = own \ {p}
         /\ drop' = drop \ {p}
    /\ UNCHANGED <<manifest, home, pc, command, todo, result, commands, edits, killed, late>>

Ended(status) == pc' = "idle" /\ result' = status

WriteManifest ==
    /\ pc = "remove" /\ drop = {} /\ command.kind \in {"install", "upgrade"}
    /\ manifest' = ManifestOf(command.version)
    /\ Ended(command.kind)
    /\ UNCHANGED <<disk, home, command, todo, drop, history>>

RemoveManifest ==
    /\ pc = "remove" /\ drop = {} /\ command.kind = "uninstall"
    /\ manifest' = NoManifest
    /\ Ended("uninstall")
    /\ UNCHANGED <<disk, home, command, todo, drop, history>>

(* The command dies between two files, or an exception stops it there. *)
Crash ==
    /\ CanCrash /\ pc # "idle"
    /\ Ended("killed") /\ todo' = {} /\ drop' = {}
    /\ killed' = TRUE
    /\ UNCHANGED <<files, home, command, commands, edits, late, own>>

-----------------------------------------------------------------------------
(* External: the user changes or deletes a file, or updates the framework. *)
Edit(p, content) ==
    /\ edits < MaxEdits /\ disk[p] # content
    /\ disk' = [disk EXCEPT ![p] = content]
    /\ edits' = edits + 1 /\ late' = late \cup {p} /\ own' = own \ {p}
    /\ UNCHANGED <<manifest, home, pc, command, todo, drop, result, commands, killed>>

Bump ==
    /\ home + 1 \in Versions
    /\ home' = home + 1
    /\ UNCHANGED <<files, pc, command, todo, drop, result, history>>

Next ==
    \/ \E upgrade, force, dry \in BOOLEAN : Install(upgrade, force, dry)
    \/ \E force, dry \in BOOLEAN : Uninstall(force, dry)
    \/ WriteFile \/ AllWritten \/ RemoveFile \/ WriteManifest \/ RemoveManifest
    \/ Crash
    \/ \E p \in Paths, content \in {"absent", "user"} : Edit(p, content)
    \/ Bump

Spec == Init /\ [][Next]_vars

-----------------------------------------------------------------------------
(* Properties *)

Manifests == {NoManifest} \cup {ManifestOf(v) : v \in Versions}

(* Types; a manifest is always the one of a whole version.                 *)
TypeOK ==
    /\ disk \in [Paths -> Contents \cup {"absent", "user"}]
    /\ manifest \in Manifests
    /\ home \in Versions
    /\ pc \in {"idle", "write", "remove"}
    /\ command \in [kind : {"none", "install", "upgrade", "uninstall"},
                    force : BOOLEAN, dry : BOOLEAN, version : Versions]
    /\ todo \subseteq Paths /\ drop \subseteq Paths
    /\ pc = "idle" => todo = {} /\ drop = {}
    /\ killed \in BOOLEAN /\ late \subseteq Paths /\ own \subseteq Paths

(* doctor and the installer agree: an installation is healthy exactly when *)
(* installing it again changes nothing.                                    *)
DoctorAgrees == Healthy <=> InstallVerdict(home, FALSE, FALSE, FALSE) = "unchanged"

(* When a command ends with success the files on the disk are those of the *)
(* manifest, but for those the user changed since it began; whatever an    *)
(* earlier command that died had left, and whatever it overwrote by force. *)
FinishedIsComplete ==
    result \in {"install", "upgrade"} =>
        \A p \in Managed \ late : disk[p] = Entries[p]

(* Every file the installer wrote is in the manifest between commands, so  *)
(* that an uninstall removes it: as long as no command died half-way.      *)
Tracked == \A p \in own : p \in Managed /\ Entries[p] = disk[p]

TrackedUnlessKilled == pc = "idle" /\ ~ killed => Tracked

UserFile(p) == disk[p] = "user"

(* README.md:243, "protects locally modified files": what the user has put *)
(* at a path before a command began is only overwritten or removed by the  *)
(* user, or with --force.                                                  *)
EditsKept ==
    [][\A p \in Paths : UserFile(p) /\ disk'[p] # "user" /\ edits' = edits
         => command.force \/ p \in late]_vars

(* README.md:244, "removes only files it recorded in the manifest": at the *)
(* moment a file goes, the manifest on disk still names it; so a command   *)
(* that dies leaves no file it has forgotten to remove.                    *)
RemovesOnlyRecorded ==
    [][\A p \in Paths : disk[p] # "absent" /\ disk'[p] = "absent" /\ edits' = edits
         => p \in Managed]_vars

-----------------------------------------------------------------------------
(* The inductive invariant *)

Source == DOMAIN Template[command.version]

(* What a command still has to do, in the order of its two halves.         *)
Steps ==
    /\ pc # "write" => todo = {}
    /\ pc # "idle" => result = "running" /\ command.kind # "none" /\ drop \subseteq Managed
    /\ pc = "write" => command.kind # "uninstall"
    /\ pc # "idle" /\ command.kind # "uninstall" =>
         todo \subseteq Source /\ drop \cap Source = {}

(* The check looked at every file the command has still to touch: without  *)
(* --force, one with a user's content got it after the check.              *)
CheckedBefore ==
    pc # "idle" /\ ~ command.force =>
        \A p \in todo \cup drop : disk[p] = "user" => p \in late

(* What was written is still there, unless the user changed it.            *)
WrittenSoFar ==
    pc # "idle" /\ command.kind # "uninstall" =>
        \A p \in Source \ todo : disk[p] = Template[command.version][p] \/ p \in late

(* A file of the installer's will be named by the manifest of this command *)
(* or removed by it.                                                       *)
OwnedSoFar ==
    pc # "idle" /\ ~ killed =>
        \A p \in own :
            \/ p \in drop
            \/ /\ command.kind # "uninstall" /\ p \in Source
               /\ p \in todo \/ disk[p] = Template[command.version][p]

IInv == /\ TypeOK /\ Steps /\ CheckedBefore /\ WrittenSoFar /\ OwnedSoFar
        /\ FinishedIsComplete /\ TrackedUnlessKilled

=============================================================================

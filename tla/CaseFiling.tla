----------------------------- MODULE CaseFiling -----------------------------
(***************************************************************************)
(* What the pipeline promises about bug reports, without batches, phases   *)
(* or crashes: a fingerprint is sighted again and again, each sighting     *)
(* either proven by reruns or not, and a report may be filed only for the  *)
(* latest sighting, only when it was proven, and at most once.             *)
(***************************************************************************)
EXTENDS Naturals

CONSTANT Fingerprints

VARIABLES
    sightings,  \* fingerprint -> number of sightings counted
    proven,     \* fingerprint -> whether the latest one was reproduced
    filed       \* fingerprint -> the sightings reports were filed for

vars == <<sightings, proven, filed>>

Init ==
    /\ sightings = [f \in Fingerprints |-> 0]
    /\ proven = [f \in Fingerprints |-> FALSE]
    /\ filed = [f \in Fingerprints |-> {}]

Sight(f, p) ==
    /\ sightings' = [sightings EXCEPT ![f] = @ + 1]
    /\ proven' = [proven EXCEPT ![f] = p]
    /\ UNCHANGED filed

File(f) ==
    /\ proven[f]
    /\ sightings[f] \notin filed[f]
    /\ filed' = [filed EXCEPT ![f] = @ \cup {sightings[f]}]
    /\ UNCHANGED <<sightings, proven>>

Next == \E f \in Fingerprints : File(f) \/ \E p \in BOOLEAN : Sight(f, p)

Spec == Init /\ [][Next]_vars

=============================================================================

-------------------------------- MODULE Shelf --------------------------------
(***************************************************************************)
(* What internal/files promises of each file, in the abstract: it is put   *)
(* on the shelf once, an upload that is acknowledged is on the shelf, and  *)
(* only a file whose deletion was asked for, or whose upload was never     *)
(* acknowledged, is taken off; what is taken off does not come back.       *)
(***************************************************************************)
CONSTANT File

VARIABLES
    shelf,     \* [File -> "never", "kept" (it can be downloaded) or "gone"]
    promised,  \* uploads that were acknowledged
    asked      \* files somebody has asked to delete

vars == <<shelf, promised, asked>>

Keep(f) ==
    /\ shelf[f] = "never"
    /\ shelf' = [shelf EXCEPT ![f] = "kept"]
    /\ promised' \in {promised, promised \cup {f}}
    /\ UNCHANGED asked

Ask(f) ==
    /\ shelf[f] # "never"
    /\ asked' = asked \cup {f}
    /\ UNCHANGED <<shelf, promised>>

Drop(f) ==
    /\ shelf[f] = "kept"
    /\ f \in promised => f \in asked
    /\ shelf' = [shelf EXCEPT ![f] = "gone"]
    /\ UNCHANGED <<promised, asked>>

Init ==
    /\ shelf = [f \in File |-> "never"]
    /\ promised = {}
    /\ asked = {}

Next == \E f \in File : Keep(f) \/ Ask(f) \/ Drop(f)

Spec == Init /\ [][Next]_vars
=============================================================================

------------------------------ MODULE GapFill ------------------------------
(***************************************************************************)
(* What the UpstreamReconciler promises (spec sections 4.5 and 8), with no *)
(* reference to how it is done: a record's synced field may change only   *)
(* from a gap to the value the upstream record holds for the same path,   *)
(* only when that value is not empty, and nothing else of the record ever *)
(* changes.  Nothing forces a fill: fetches are best effort.               *)
(***************************************************************************)
CONSTANTS
    Files,      \* the record files
    Protected,  \* local values that are never overwritten: non-empty,
                \* non-whitespace strings
    Blanks,     \* values that count as empty: absent, "", whitespace
    NoRecord,   \* upstream has no record at this path
    Opaque      \* contents that are not a record (cannot be read)

VARIABLES rec, upstream

Init == DOMAIN rec = Files /\ DOMAIN upstream = Files

\* Fill the gap of f with the upstream value.
Fill(f) ==
    /\ rec[f] \notin Opaque
    /\ rec[f].field \notin Protected
    /\ upstream[f] # NoRecord
    /\ upstream[f].field \notin Blanks
    /\ rec' = [rec EXCEPT ![f].field = upstream[f].field]
    /\ UNCHANGED upstream

Next == \E f \in Files : Fill(f)

Spec == Init /\ [][Next]_<<rec, upstream>>
=============================================================================

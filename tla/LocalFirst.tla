------------------------------ MODULE LocalFirst ------------------------------
(***************************************************************************)
(* What the agent promises of its two stores, whoever samples: a snapshot  *)
(* is on the board only after the local history has it, each at most once, *)
(* and nothing that goes wrong later takes either back.                    *)
(***************************************************************************)
CONSTANT Instants  \* the moments snapshots are taken at

VARIABLES
    kept,  \* snapshots committed to the local history
    shown  \* snapshots the board has accepted

Init == kept = {} /\ shown = {}

Keep(t) == /\ t \notin kept
           /\ kept' = kept \cup {t}
           /\ UNCHANGED shown

Show(t) == /\ t \in kept \ shown
           /\ shown' = shown \cup {t}
           /\ UNCHANGED kept

Next == \E t \in Instants : Keep(t) \/ Show(t)

Spec == Init /\ [][Next]_<<kept, shown>>
=============================================================================

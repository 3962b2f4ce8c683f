----------------------------- MODULE UsageWindow -----------------------------
(***************************************************************************)
(* What the live usage state of a GPU promises, with the whole history of  *)
(* readings in hand: a GPU a compute process resides on is active while    *)
(* one of its last Window readings was above the threshold, and idle_held  *)
(* otherwise.  UsageState shows that a counter and a set suffice for it.   *)
(***************************************************************************)
EXTENDS Naturals, Sequences

CONSTANTS
    Gpus,       \* device UUIDs
    Window,     \* LOW_UTIL_STREAK_WINDOW
    MaxReadings \* bound: readings per GPU and tracker

(* One GPU of a snapshot: util_pct above U_IDLE or not, and what NVML says *)
(* of its compute processes (graphics ones do not count).                  *)
Samples == [util : {"low", "high"}, compute : {"resident", "none", "unavailable"}]
Gone    == [util |-> "gone", compute |-> "none"]  \* not in the snapshot
Snaps   == [Gpus -> Samples \cup {Gone}]

States  == {"active", "idle_held", "idle", "unknown", "absent"}

VARIABLES
    readings,  \* readings[g]: the util readings since the tracker was created
    state      \* state[g]: usage_state as last published

HighWithin(s, w) == \E i \in 1 .. Len(s) : i + w > Len(s) /\ s[i] = "high"

Verdict(sample, s) ==
    CASE sample.compute = "unavailable" -> "unknown"
      [] sample.compute = "none"        -> "idle"
      [] sample.compute = "resident"    ->
            IF HighWithin(s, Window) THEN "active" ELSE "idle_held"

Extend(snap) ==
    [g \in Gpus |-> IF snap[g] = Gone THEN readings[g]
                                      ELSE Append(readings[g], snap[g].util)]

Init == /\ readings = [g \in Gpus |-> <<>>]
        /\ state = [g \in Gpus |-> "absent"]

(* A tick of the daemon.                                                   *)
Observe(snap) ==
    /\ \A g \in Gpus : Len(readings[g]) < MaxReadings
    /\ readings' = Extend(snap)
    /\ state' = [g \in Gpus |-> IF snap[g] = Gone THEN "absent"
                                ELSE Verdict(snap[g], readings'[g])]

(* sync-once has its own reading and no other.                             *)
Glance(snap) ==
    /\ state' = [g \in Gpus |-> IF snap[g] = Gone THEN "absent"
                                ELSE Verdict(snap[g], <<snap[g].util>>)]
    /\ UNCHANGED readings

(* A new daemon process knows nothing of the readings before it.           *)
Restart == /\ readings' = [g \in Gpus |-> <<>>]
           /\ state' = [g \in Gpus |-> "absent"]

(* Nothing is published: first, as TLC need not try every snapshot then.   *)
Rest == UNCHANGED <<readings, state>>

Next == \/ Rest
        \/ \E snap \in Snaps : Observe(snap) \/ Glance(snap)
        \/ Restart

Spec == Init /\ [][Next]_<<readings, state>>
=============================================================================

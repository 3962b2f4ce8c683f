----------------------------- MODULE UsageState ------------------------------
(***************************************************************************)
(* UsageStateTracker (usage_state.py): per GPU a counter of consecutive    *)
(* low readings and whether it was ever seen above the threshold, kept in  *)
(* memory for the life of the daemon and lost with it.  sync-once          *)
(* classifies its single snapshot with a tracker of its own.               *)
(*                                                                         *)
(* readings is a history variable: no step depends on it, and the          *)
(* properties and the refinement of UsageWindow are stated with it.        *)
(***************************************************************************)
EXTENDS Naturals, Sequences

CONSTANTS
    Gpus,       \* device UUIDs
    Window,     \* LOW_UTIL_STREAK_WINDOW
    MaxReadings \* bound: readings per GPU and tracker

ASSUME WindowAssumption == Window \in Nat \ {0}

VARIABLES
    readings,  \* history: the util readings of each GPU, oldest first
    state,     \* usage_state as last published
    streak,    \* low_util_streak_by_uuid; 0 where the dict has no entry
    seen       \* seen_active_by_uuid

tracker == <<readings, state, streak, seen>>

(* The same verdicts from the whole history of readings.                   *)
Promise == INSTANCE UsageWindow WITH readings <- readings, state <- state

Gone  == Promise!Gone
Snaps == Promise!Snaps

UInit == /\ Promise!Init
         /\ streak = [g \in Gpus |-> 0]
         /\ seen = {}

High(snap) == {g \in Gpus : snap[g] # Gone /\ snap[g].util = "high"}
Low(snap)  == {g \in Gpus : snap[g] # Gone /\ snap[g].util = "low"}

(* The counters after the readings of a snapshot.                          *)
Counted(str, snap) ==
    [g \in Gpus |-> IF g \in Low(snap) THEN str[g] + 1
                    ELSE IF g \in High(snap) THEN 0 ELSE str[g]]

(* mutant: held only once the counter has passed the window                *)
HeldLate(g, str, sn, sync_once) ==
    \/ sync_once
    \/ str[g] > Window
    \/ g \notin sn

(* A resident GPU whose current reading is low is held...                  *)
Held(g, str, sn, sync_once) ==
    \/ sync_once
    \/ str[g] >= Window
    \/ g \notin sn

(* UsageStateTracker.apply for one GPU, given the updated tracker.         *)
Label(g, sample, str, sn, sync_once) ==
    IF sample.compute = "unavailable" THEN "unknown"
    ELSE IF sample.compute = "none" THEN "idle"
    ELSE IF sample.util = "high" THEN "active"
    ELSE IF Held(g, str, sn, sync_once) THEN "idle_held" ELSE "active"

Labels(snap, str, sn, sync_once) ==
    [g \in Gpus |-> IF snap[g] = Gone THEN "absent"
                    ELSE Label(g, snap[g], str, sn, sync_once)]

(* A tick of the daemon.  Both updates precede the check for unavailable   *)
(* processes: such a reading counts.  A tick whose collect raises leaves   *)
(* the tracker alone; one whose write fails does not take it back.         *)
Apply(snap) ==
    /\ \A g \in Gpus : Len(readings[g]) < MaxReadings
    /\ streak' = Counted(streak, snap)
    /\ seen' = seen \cup High(snap)
    /\ state' = Labels(snap, streak', seen', FALSE)
    /\ readings' = Promise!Extend(snap)

(* classify_usage_states: a fresh tracker, dropped afterwards              *)
Classify(snap) ==
    /\ state' = Labels(snap, Counted([g \in Gpus |-> 0], snap), High(snap), TRUE)
    /\ UNCHANGED <<readings, streak, seen>>

(* The daemon is restarted; nothing is published until its first tick.     *)
NewTracker ==
    /\ Promise!Restart
    /\ streak' = [g \in Gpus |-> 0]
    /\ seen' = {}

UNext == \/ \E snap \in Snaps : Apply(snap) \/ Classify(snap)
         \/ NewTracker

USpec == UInit /\ [][UNext]_tracker

-----------------------------------------------------------------------------
(* The values each variable takes.                                         *)
TrackerTypeOK ==
    /\ readings \in [Gpus -> Seq({"low", "high"})]
    /\ state \in [Gpus -> Promise!States]
    /\ streak \in [Gpus -> Nat]
    /\ seen \in SUBSET Gpus

(* The counter is the length of the run of low readings that ends now, a   *)
(* GPU missing from some snapshots or unreadable in others included, and   *)
(* the set knows of every high reading (usage_state.py:29-37).             *)
TrackerSound ==
    \A g \in Gpus : LET s == readings[g] IN
        /\ streak[g] <= Len(s)
        /\ \A i \in 1 .. Len(s) : i + streak[g] > Len(s) => s[i] = "low"
        /\ streak[g] < Len(s) => s[Len(s) - streak[g]] = "high"
        /\ g \in seen <=> \E i \in 1 .. Len(s) : s[i] = "high"

(* The tracker publishes what the whole history would: UsageWindow, for    *)
(* ticks, for sync-once and across restarts (usage_state.py:43-55).        *)
ImplementsWindow == Promise!Spec
=============================================================================

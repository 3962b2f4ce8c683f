---------------------------- MODULE TickSchedule -----------------------------
(***************************************************************************)
(* The schedule of run_daemon (daemon.py): when a tick starts.  Time is    *)
(* time.monotonic() in units of the caller's choice, starting at 0, and    *)
(* may pass between any two steps: a tick lasts as long as it likes, and   *)
(* so may the loop take to wake up.                                        *)
(***************************************************************************)
EXTENDS Integers

CONSTANTS
    Intervals, \* what `--interval` may be given, for each process anew; 0s is accepted
    MaxNow     \* bound: the last instant

ASSUME IntervalAssumption == Intervals \subseteq Nat /\ MaxNow \in Nat

VARIABLES
    interval, \* time from one slot to the next
    now,      \* time.monotonic()
    pc,       \* where the loop is
    nextAt,   \* next_at: the slot of the current or next tick
    n,        \* ticks ended
    stop,     \* the stop event is set
    since,    \* history: the instant the process entered its loop
    last,     \* history: start of the newest tick
    prev,     \* history: start of the tick before it
    begun,    \* history: ticks started
    late      \* history: ticks started after stop was set

process == <<interval, since>>
hist == <<last, prev, begun, late>>
vars == <<now, pc, nextAt, n, stop, process, hist>>

Never == since - interval   \* the start of a tick that has not been

Init ==
    /\ interval \in Intervals
    /\ now = 0 /\ pc = "check" /\ nextAt = 0 /\ n = 0 /\ stop = FALSE
    /\ since = 0 /\ last = Never /\ prev = Never /\ begun = 0 /\ late = 0

Elapse ==
    /\ now < MaxNow
    /\ now' = now + 1
    /\ UNCHANGED <<pc, nextAt, n, stop, process, hist>>

SetStop ==
    /\ ~stop
    /\ stop' = TRUE
    /\ UNCHANGED <<now, pc, nextAt, n, process, hist>>

(* mutant: the event is only looked at while waiting                       *)
CheckBlind ==
    /\ pc = "check"
    /\ pc' = "begin"
    /\ UNCHANGED <<now, nextAt, n, stop, process, hist>>

(* while not stop.is_set()                                                 *)
Check ==
    /\ pc = "check"
    /\ pc' = IF stop THEN "end" ELSE "begin"
    /\ UNCHANGED <<now, nextAt, n, stop, process, hist>>

Begin ==
    /\ pc = "begin"
    /\ pc' = "tick"
    /\ prev' = last /\ last' = now
    /\ begun' = begun + 1
    /\ late' = IF stop THEN late + 1 ELSE late
    /\ UNCHANGED <<now, nextAt, n, stop, process>>

(* mutant: every missed slot is made up for                                *)
NextSlotCatchingUp(t) == nextAt + interval

(* The slot after this one, or now when it has already passed.             *)
NextSlot(t) == IF t > nextAt + interval THEN t ELSE nextAt + interval

(* The tick ends, having succeeded or not.                                 *)
TickEnds ==
    /\ pc = "tick"
    /\ pc' = "delay"
    /\ n' = n + 1
    /\ nextAt' = NextSlot(now)
    /\ UNCHANGED <<now, stop, process, hist>>

(* delay = next_at - time.monotonic(), a second reading of the clock       *)
Delay ==
    /\ pc = "delay"
    /\ pc' = IF nextAt > now THEN "wait" ELSE "check"
    /\ UNCHANGED <<now, nextAt, n, stop, process, hist>>

(* mutant: the delay is rounded down                                       *)
WaitShort ==
    /\ pc = "wait"
    /\ \/ stop /\ pc' = "end"
       \/ ~stop /\ now + 1 >= nextAt /\ pc' = "check"
    /\ UNCHANGED <<now, nextAt, n, stop, process, hist>>

(* stop.wait(delay): returns once the event is set or the delay is over    *)
Wait ==
    /\ pc = "wait"
    /\ \/ stop /\ pc' = "end"
       \/ ~stop /\ now >= nextAt /\ pc' = "check"
    /\ UNCHANGED <<now, nextAt, n, stop, process, hist>>

Next == Elapse \/ SetStop \/ Check \/ Begin \/ TickEnds \/ Delay \/ Wait

Spec == Init /\ [][Next]_vars

-----------------------------------------------------------------------------
Pcs == {"check", "begin", "tick", "delay", "wait", "end"}

(* The values each variable takes.                                         *)
TypeOK ==
    /\ interval \in Intervals /\ since \in Nat
    /\ now \in Nat /\ nextAt \in Nat /\ n \in Nat
    /\ pc \in Pcs /\ stop \in BOOLEAN
    /\ last \in Int /\ prev \in Int /\ begun \in Nat /\ late \in Nat

(* Every tick but the one in progress has ended; the slots advance by at   *)
(* least an interval per tick and never by more than one beyond now; no    *)
(* tick starts before its slot, and its slot is no earlier than the start  *)
(* of the tick before (the inductive invariant).                           *)
SlotsInOrder ==
    /\ begun = IF pc = "tick" THEN n + 1 ELSE n
    /\ since <= now
    /\ n * interval <= nextAt - since /\ nextAt <= now + interval
    /\ pc \in {"check", "begin", "tick"} => nextAt <= now
    /\ prev <= last /\ last <= now
    /\ pc = "tick" => prev <= nextAt
    /\ pc # "tick" => last <= nextAt /\ prev + interval <= nextAt

(* Only the tick whose check was past when the event was set is late.      *)
LateOnce ==
    /\ late > 0 => stop
    /\ pc = "begin" => late = 0

(* However often ticks overrun and however long the process is starved,    *)
(* the daemon never samples more than once per interval elapsed since it   *)
(* started, plus one (daemon.py:132-135, the database must not swell).     *)
RateBounded == begun * interval <= (now - since) + interval

(* Three ticks never start within one interval: after an overrun the loop  *)
(* does not pump the slots it missed back to back (daemon.py:132-134).     *)
NoBurst == [][Begin => now >= prev + interval]_vars

(* Once the stop event is set at most one more tick starts: the one whose  *)
(* check was already past (daemon.py:156, 192).                            *)
StopIsPrompt == late <= 1
=============================================================================

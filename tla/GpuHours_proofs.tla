-------------------------- MODULE GpuHours_proofs --------------------------
(* Proofs about GpuHours and the schedule it rests on, for every interval, *)
(* set of cards and snapshots, and every bound.                            *)
EXTENDS GpuHours, FiniteSetTheorems, WellFoundedInduction, TLAPS

(* A set of as many pairs as the sum of w over T: every sum of this module *)
(* is the size of a set, whatever the order CHOOSE takes the terms in.     *)
Units(w, T) == UNION {{x} \X (1 .. w[x]) : x \in T}

(* What a fold over the subsets of S has to satisfy to be their sum.       *)
SumsUp(w, S, it) ==
    it = [T \in SUBSET S |-> IF T = {} THEN 0
                             ELSE w[CHOOSE x \in T : TRUE] + it[T \ {CHOOSE x \in T : TRUE}]]

(* What holds of the empty set, and of a set when of all that lack one of  *)
(* its elements, holds of a finite set.                                    *)
LEMMA OneByOne ==
    ASSUME NEW S, IsFiniteSet(S), NEW G \in SUBSET (SUBSET S), {} \in G,
           \A T \in SUBSET S : T # {} /\ (\A x \in T : T \ {x} \in G) => T \in G
    PROVE  S \in G
<1> SUFFICES ASSUME S \notin G PROVE FALSE
  OBVIOUS
<1> DEFINE Bad == (SUBSET S) \ G
<1>1. Bad # {} /\ Bad \subseteq FiniteSubsetsOf(S)
  BY FS_Subset DEF FiniteSubsetsOf
<1>2. IsWellFoundedOn(StrictSubsetOrdering(S), FiniteSubsetsOf(S))
  BY FS_StrictSubsetOrderingWellFounded
<1> HIDE DEF Bad
<1>3. PICK T \in Bad : \A U \in Bad : ~(<<U, T>> \in StrictSubsetOrdering(S))
  BY <1>1, <1>2, WFMin
<1>4. T \in SUBSET S /\ T \notin G
  BY <1>3 DEF Bad
<1>5. PICK x \in T : T \ {x} \notin G
  BY <1>4
<1>6. T \ {x} \in Bad
  BY <1>4, <1>5 DEF Bad
<1>7. <<T \ {x}, T>> \in StrictSubsetOrdering(S)
  <2> DEFINE U == T \ {x}
  <2>1. U \subseteq T /\ U # T /\ U \in SUBSET S
    BY <1>4, <1>5
  <2> HIDE DEF U
  <2>2. <<U, T>> \in StrictSubsetOrdering(S)
    BY <1>4, <2>1 DEF StrictSubsetOrdering
  <2> QED BY <2>2 DEF U
<1> QED BY <1>3, <1>6, <1>7

LEMMA UnitsOfOne ==
    ASSUME NEW x, NEW k \in Nat
    PROVE  IsFiniteSet({x} \X (1 .. k)) /\ Cardinality({x} \X (1 .. k)) = k
<1> DEFINE A == {x}
           B == 1 .. k
<1>1. IsFiniteSet(A) /\ Cardinality(A) = 1
  BY FS_Singleton
<1>2. IsFiniteSet(B) /\ Cardinality(B) = k
  BY FS_Interval
<1> HIDE DEF A, B
<1>3. IsFiniteSet(A \X B) /\ Cardinality(A \X B) = Cardinality(A) * Cardinality(B)
  BY <1>1, <1>2, FS_Product
<1>4. IsFiniteSet(A \X B) /\ Cardinality(A \X B) = k
  BY <1>1, <1>2, <1>3
<1> QED BY <1>4 DEF A, B

LEMMA UnitsAreFinite ==
    ASSUME NEW S, IsFiniteSet(S), NEW w \in [S -> Nat], NEW T \in SUBSET S
    PROVE  IsFiniteSet(Units(w, T)) /\ Cardinality(Units(w, T)) \in Nat
<1> DEFINE F == {{x} \X (1 .. w[x]) : x \in T}
           f == [x \in T |-> {x} \X (1 .. w[x])]
<1>1. IsFiniteSet(T)
  BY FS_Subset
<1>2. f \in Surjection(T, F)
  BY DEF Surjection
<1>3. IsFiniteSet(F)
  <2> HIDE DEF F, f
  <2> QED BY <1>1, <1>2, FS_Surjection
<1>4. ASSUME NEW x \in T
      PROVE  IsFiniteSet({x} \X (1 .. w[x]))
  BY UnitsOfOne
<1>5. IsFiniteSet(UNION F)
  <2>1. \A U \in F : IsFiniteSet(U)
    BY <1>4
  <2> HIDE DEF F
  <2> QED BY <1>3, <2>1, FS_UNION
<1> QED BY <1>5, FS_CardinalityType DEF Units

(* One element more.                                                       *)
LEMMA UnitsGrow ==
    ASSUME NEW S, IsFiniteSet(S), NEW w \in [S -> Nat], NEW T \in SUBSET S, NEW x \in T
    PROVE  Cardinality(Units(w, T)) = w[x] + Cardinality(Units(w, T \ {x}))
<1> DEFINE A == {x} \X (1 .. w[x])
           B == Units(w, T \ {x})
<1>1. IsFiniteSet(A) /\ Cardinality(A) = w[x]
  BY UnitsOfOne
<1>2. IsFiniteSet(B) /\ Cardinality(B) \in Nat
  BY UnitsAreFinite
<1>3. Units(w, T) = A \cup B
  BY DEF Units
<1>4. A \cap B = {}
  BY DEF Units
<1> HIDE DEF A, B
<1>5. Cardinality(A \cup B) = Cardinality(A) + Cardinality(B) - Cardinality(A \cap B)
  BY <1>1, <1>2, FS_Union
<1>6. Cardinality(A \cap B) = 0
  BY <1>4, FS_EmptySet
<1>7. Cardinality(Units(w, T)) = w[x] + Cardinality(B)
  BY <1>1, <1>2, <1>3, <1>5, <1>6
<1> QED BY <1>7 DEF B

(* Such a fold exists...                                                   *)
LEMMA SumExists ==
    ASSUME NEW S, IsFiniteSet(S), NEW w \in [S -> Nat]
    PROVE  \E it : SumsUp(w, S, it)
<1> DEFINE it == [T \in SUBSET S |-> Cardinality(Units(w, T))]
<1>1. ASSUME NEW T \in SUBSET S, T = {}
      PROVE  Cardinality(Units(w, T)) = 0
  BY <1>1, FS_EmptySet DEF Units
<1>2. ASSUME NEW T \in SUBSET S, T # {}
      PROVE  Cardinality(Units(w, T))
                = w[CHOOSE x \in T : TRUE] + it[T \ {CHOOSE x \in T : TRUE}]
  <2> DEFINE x == CHOOSE y \in T : TRUE
  <2>1. x \in T
    BY <1>2
  <2> HIDE DEF x
  <2>2. T \ {x} \in SUBSET S
    OBVIOUS
  <2>3. it[T \ {x}] = Cardinality(Units(w, T \ {x}))
    BY <2>2
  <2>4. Cardinality(Units(w, T)) = w[x] + it[T \ {x}]
    BY <2>1, <2>3, UnitsGrow
  <2> QED BY <2>4 DEF x
<1>3. \A T \in SUBSET S :
        it[T] = IF T = {} THEN 0
                ELSE w[CHOOSE x \in T : TRUE] + it[T \ {CHOOSE x \in T : TRUE}]
  BY <1>1, <1>2
<1>4. it = [T \in SUBSET S |-> it[T]]
  OBVIOUS
<1> HIDE DEF it
<1>5. SumsUp(w, S, it)
  BY <1>3, <1>4 DEF SumsUp
<1> QED BY <1>5

(* ... and there is only one.                                              *)
LEMMA SumIsUnits ==
    ASSUME NEW S, IsFiniteSet(S), NEW w \in [S -> Nat], NEW it, SumsUp(w, S, it)
    PROVE  it[S] = Cardinality(Units(w, S))
<1> DEFINE G == {T \in SUBSET S : it[T] = Cardinality(Units(w, T))}
<1>1. \A T \in SUBSET S :
        it[T] = IF T = {} THEN 0
                ELSE w[CHOOSE x \in T : TRUE] + it[T \ {CHOOSE x \in T : TRUE}]
  BY DEF SumsUp
<1>2. {} \in G
  <2>1. Units(w, {}) = {}
    BY DEF Units
  <2> QED BY <1>1, <2>1, FS_EmptySet
<1>3. ASSUME NEW T \in SUBSET S, T # {}, \A x \in T : T \ {x} \in G
      PROVE  T \in G
  <2> DEFINE x == CHOOSE y \in T : TRUE
  <2>1. x \in T
    BY <1>3
  <2>2. it[T] = w[x] + it[T \ {x}]
    BY <1>1, <1>3
  <2> HIDE DEF x
  <2>3. it[T \ {x}] = Cardinality(Units(w, T \ {x}))
    BY <1>3, <2>1
  <2>4. Cardinality(Units(w, T)) = w[x] + Cardinality(Units(w, T \ {x}))
    BY <2>1, UnitsGrow
  <2> QED BY <2>2, <2>3, <2>4
<1>4. S \in G
  <2> HIDE DEF G
  <2>1. G \in SUBSET (SUBSET S)
    BY DEF G
  <2> QED BY <1>2, <1>3, <2>1, OneByOne
<1> QED BY <1>4

IInv == TypeOK /\ SlotsInOrder /\ LateOnce

LEMMA IntervalType == TypeOK => interval \in Nat
BY IntervalAssumption DEF TypeOK

(* The next slot lies at or after now and after this slot's interval, and  *)
(* no further ahead than one of the two.                                   *)
LEMMA NextSlotBounds ==
    ASSUME NEW t \in Nat, nextAt \in Nat, nextAt <= t, interval \in Nat
    PROVE  /\ NextSlot(t) \in Nat
           /\ NextSlot(t) >= t
           /\ NextSlot(t) >= nextAt + interval
           /\ NextSlot(t) <= t + interval
BY DEF NextSlot

LEMMA TickCount ==
    ASSUME NEW k \in Nat, NEW i \in Nat
    PROVE  (k + 1) * i = k * i + i /\ k * i \in Nat
OBVIOUS

(* What a process finds when it enters its loop.                           *)
Entered ==
    /\ interval \in Intervals /\ since \in Nat
    /\ now = since /\ nextAt = since /\ pc = "check" /\ n = 0 /\ stop = FALSE
    /\ last = since - interval /\ prev = since - interval /\ begun = 0 /\ late = 0

LEMMA EnteredInv == Entered => IInv
<1> SUFFICES ASSUME Entered PROVE IInv
  OBVIOUS
<1>1. interval \in Nat /\ since \in Nat /\ 0 * interval = 0
  BY IntervalAssumption DEF Entered
<1>2. TypeOK
  <2>1. stop \in BOOLEAN /\ pc \in Pcs
    BY DEF Entered, Pcs
  <2>2. last \in Int /\ prev \in Int
    BY <1>1 DEF Entered
  <2>3. now \in Nat /\ nextAt \in Nat /\ n \in Nat /\ begun \in Nat /\ late \in Nat
    BY DEF Entered
  <2> QED BY <2>1, <2>2, <2>3 DEF TypeOK, Entered
<1>3. SlotsInOrder
  BY <1>1 DEF Entered, SlotsInOrder
<1>4. LateOnce
  BY DEF Entered, LateOnce
<1> QED BY <1>2, <1>3, <1>4 DEF IInv

LEMMA InitInv == Init => IInv
<1>1. Init => Entered
  BY DEF Init, Entered, Never
<1> QED BY <1>1, EnteredInv

LEMMA StepInv == IInv /\ [Next]_vars => IInv'
<1> SUFFICES ASSUME IInv, [Next]_vars PROVE IInv'
  OBVIOUS
<1>0. interval \in Nat
  BY IntervalType DEF IInv
<1> USE <1>0, IntervalAssumption DEF IInv, TypeOK, Pcs, process
<1>1. CASE Elapse
  <2>1. TypeOK'
    BY <1>1 DEF Elapse, hist
  <2>2. SlotsInOrder'
    BY <1>1 DEF Elapse, hist, SlotsInOrder
  <2> QED BY <1>1, <2>1, <2>2 DEF Elapse, hist, LateOnce
<1>2. CASE SetStop
  BY <1>2 DEF SetStop, hist, SlotsInOrder, LateOnce
<1>3. CASE Check
  BY <1>3 DEF Check, hist, SlotsInOrder, LateOnce
<1>4. CASE Begin
  BY <1>4 DEF Begin, SlotsInOrder, LateOnce
<1>5. CASE TickEnds
  <2>1. /\ NextSlot(now) \in Nat /\ NextSlot(now) >= now
        /\ NextSlot(now) >= nextAt + interval /\ NextSlot(now) <= now + interval
    BY <1>5, NextSlotBounds DEF TickEnds, SlotsInOrder
  <2>2. n' = n + 1 /\ nextAt' = NextSlot(now) /\ pc = "tick" /\ pc' = "delay"
        /\ UNCHANGED <<now, stop, process, hist>>
    BY <1>5 DEF TickEnds
  <2>3. (n + 1) * interval <= NextSlot(now) - since
    <3>1. (n + 1) * interval = n * interval + interval /\ n * interval \in Nat
      BY TickCount
    <3> DEFINE m == n * interval
               m1 == (n + 1) * interval
               slot == NextSlot(now)
    <3>2. m \in Nat /\ m1 = m + interval /\ m <= nextAt - since
      BY <3>1 DEF SlotsInOrder
    <3>3. slot \in Nat /\ slot >= nextAt + interval
      BY <2>1
    <3> HIDE DEF m, m1, slot
    <3>4. m1 <= slot - since
      BY <3>2, <3>3
    <3> QED BY <3>4 DEF m1, slot
  <2>4. TypeOK'
    BY <2>1, <2>2 DEF hist
  <2>5. SlotsInOrder'
    <3> DEFINE slot == NextSlot(now)
               m1 == (n + 1) * interval
    <3>1. slot \in Nat /\ slot >= now /\ slot >= nextAt + interval /\ slot <= now + interval
          /\ m1 <= slot - since /\ nextAt' = slot
      BY <2>1, <2>2, <2>3
    <3>2. n' * interval' = m1 /\ UNCHANGED <<interval, since, now, stop, hist>>
      BY <2>2
    <3>3. pc = "tick" /\ pc' = "delay" /\ begun' = n'
      BY <2>2 DEF hist, SlotsInOrder
    <3>4. /\ now \in Nat /\ nextAt \in Nat /\ since \in Nat /\ since <= now
          /\ prev \in Int /\ last \in Int /\ prev <= last /\ last <= now /\ prev <= nextAt
      BY <3>3 DEF SlotsInOrder
    <3> HIDE DEF slot, m1
    <3>5. m1 <= slot - since /\ slot <= now + interval /\ last <= slot /\ prev + interval <= slot
      BY <1>0, <3>1, <3>4
    <3>6. UNCHANGED <<last, prev>>
      BY <3>2 DEF hist
    <3>7. begun' = IF pc' = "tick" THEN n' + 1 ELSE n'
      BY <3>3
    <3>8. n' * interval' <= nextAt' - since' /\ nextAt' <= now' + interval'
      BY <3>1, <3>2, <3>5
    <3> QED BY <3>1, <3>2, <3>3, <3>4, <3>5, <3>6, <3>7, <3>8 DEF SlotsInOrder
  <2>6. LateOnce'
    BY <2>2 DEF LateOnce, hist
  <2> QED BY <2>4, <2>5, <2>6
<1>6. CASE Delay
  BY <1>6 DEF Delay, hist, SlotsInOrder, LateOnce
<1>7. CASE Wait
  BY <1>7 DEF Wait, hist, SlotsInOrder, LateOnce
<1>8. CASE UNCHANGED vars
  BY <1>8 DEF vars, hist, SlotsInOrder, LateOnce
<1> QED BY <1>1, <1>2, <1>3, <1>4, <1>5, <1>6, <1>7, <1>8 DEF Next

LEMMA Invariance == Spec => []IInv
BY InitInv, StepInv, PTL DEF Spec

LEMMA RateFromInv == IInv => RateBounded
<1> SUFFICES ASSUME IInv PROVE RateBounded
  OBVIOUS
<1>0. interval \in Nat
  BY IntervalType DEF IInv
<1>1. (n + 1) * interval = n * interval + interval /\ n * interval \in Nat
  BY <1>0, TickCount DEF IInv, TypeOK
<1> DEFINE m == n * interval
<1>2. m \in Nat /\ m <= nextAt - since /\ nextAt <= now + interval
  BY <1>1 DEF IInv, SlotsInOrder
<1>3. CASE pc = "tick"
  <2>1. nextAt <= now /\ begun * interval = m + interval
    BY <1>1, <1>3 DEF IInv, SlotsInOrder
  <2> HIDE DEF m
  <2>2. m + interval <= (now - since) + interval
    BY <1>0, <1>2, <2>1 DEF IInv, TypeOK
  <2> QED BY <2>1, <2>2 DEF RateBounded
<1>4. CASE pc # "tick"
  <2>1. begun * interval = m
    BY <1>4 DEF IInv, SlotsInOrder
  <2> HIDE DEF m
  <2>2. m <= (now - since) + interval
    BY <1>0, <1>2 DEF IInv, TypeOK
  <2> QED BY <2>1, <2>2 DEF RateBounded
<1> QED BY <1>3, <1>4

(* The daemon never samples more than once per interval elapsed, plus one. *)
THEOREM SamplingRate == Spec => []RateBounded
BY RateFromInv, Invariance, PTL

LEMMA BurstFromInv == IInv /\ Begin => now >= prev + interval
<1> SUFFICES ASSUME IInv, Begin PROVE now >= prev + interval
  OBVIOUS
<1>1. interval \in Nat
  BY IntervalType DEF IInv
<1> QED BY <1>1 DEF IInv, TypeOK, SlotsInOrder, Begin

(* Three ticks never start within one interval.                            *)
THEOREM NoBurstEver == Spec => NoBurst
<1>1. IInv /\ [Next]_vars => [Begin => now >= prev + interval]_vars
  BY BurstFromInv
<1> QED BY <1>1, Invariance, PTL DEF Spec, NoBurst

LEMMA StopStep == IInv /\ StopIsPrompt /\ [Next]_vars => StopIsPrompt'
BY DEF StopIsPrompt, IInv, TypeOK, LateOnce, Next, vars, hist, Elapse, SetStop, Check,
       Begin, TickEnds, Delay, Wait

(* At most one tick starts after the stop event has been set.              *)
THEOREM PromptStop == Spec => []StopIsPrompt
<1>1. Init => StopIsPrompt
  BY DEF Init, StopIsPrompt
<1> QED BY <1>1, StopStep, Invariance, PTL DEF Spec

-----------------------------------------------------------------------------
(* The same across restarts.                                               *)
LEMMA LaunchInv == IInv /\ Relaunch => IInv'
<1> SUFFICES ASSUME IInv, Relaunch PROVE IInv'
  OBVIOUS
<1>1. Entered'
  BY DEF Relaunch, Entered, Never, IInv, TypeOK
<1>2. Entered' => IInv'
  BY EnteredInv, PTL
<1> QED BY <1>1, <1>2

LEMMA RunsStep == IInv /\ [HNext]_hvars => IInv'
<1> SUFFICES ASSUME IInv, [HNext]_hvars PROVE IInv'
  OBVIOUS
<1>1. CASE SampleBegins
  BY <1>1, StepInv DEF SampleBegins, Next
<1>2. CASE SampleEnds
  BY <1>2, StepInv DEF SampleEnds, Next
<1>3. CASE Rest
  BY <1>3, StepInv DEF Rest, Next
<1>4. CASE Relaunch
  BY <1>4, LaunchInv
<1>5. CASE OnceWrites
  BY <1>5, StepInv DEF OnceWrites
<1>6. CASE UNCHANGED hvars
  BY <1>6, StepInv DEF hvars
<1> QED BY <1>1, <1>2, <1>3, <1>4, <1>5, <1>6 DEF HNext

LEMMA RunsInvariance == HSpec => []IInv
<1>1. HInit => IInv
  BY InitInv DEF HInit
<1> QED BY <1>1, RunsStep, PTL DEF HSpec

(* Each of the processes that follow each other starts no more than a tick *)
(* per interval, its own, elapsed since it started, plus one.              *)
THEOREM SamplingRateOfRuns == HSpec => []RateBounded
BY RateFromInv, RunsInvariance, PTL

(* No burst of ticks in any of the runs.                                   *)
THEOREM NoBurstInRuns == HSpec => NoBurst
<1>1. IInv /\ [HNext]_hvars => [Begin => now >= prev + interval]_vars
  BY BurstFromInv
<1> QED BY <1>1, RunsInvariance, PTL DEF HSpec, NoBurst

(* Each run stops at once.                                                 *)
THEOREM RunsStop == HSpec => []StopIsPrompt
<1> DEFINE J == late <= 1
<1>1. HInit => J
  BY DEF HInit, Init
<1>2. IInv /\ J /\ [HNext]_hvars => J'
  <2> SUFFICES ASSUME IInv, J, [HNext]_hvars PROVE J'
    OBVIOUS
  <2>1. CASE Relaunch
    BY <2>1 DEF Relaunch
  <2>2. CASE Next \/ UNCHANGED vars
    BY <2>2, StopStep DEF StopIsPrompt
  <2>3. [HNext]_hvars => Relaunch \/ Next \/ UNCHANGED vars
    BY DEF HNext, SampleBegins, SampleEnds, Rest, OnceWrites, hvars, Next
  <2> QED BY <2>1, <2>2, <2>3
<1>3. J <=> StopIsPrompt
  BY DEF StopIsPrompt
<1> QED BY <1>1, <1>2, <1>3, RunsInvariance, PTL DEF HSpec

-----------------------------------------------------------------------------
(* What the tables hold: the rows of the snapshots logged, and no others.  *)
Row(l, g) == [gpu |-> g, ts |-> l.ts, run |-> l.run, util |-> l.snap.util[g]]
ProcRow(l, p) ==
    [gpu |-> p.gpu, pid |-> p.pid, mem |-> p.mem, user |-> p.user, ts |-> l.ts, run |-> l.run]

Stored ==
    /\ \A r \in gpuSample : \E l \in log, g \in Gpus : r = Row(l, g)
    /\ \A l \in log, g \in Gpus : Row(l, g) \in gpuSample
    /\ \A r \in procSample : \E l \in log : \E p \in l.snap.procs : r = ProcRow(l, p)
    /\ \A l \in log : \A p \in l.snap.procs : ProcRow(l, p) \in procSample

(* The runs opened, each with the interval of its process, and what is     *)
(* logged under them.                                                      *)
LoggedRow(l) ==
    /\ l \in [ts : Nat \X Nat, run : Nat \cup {NoRun}, every : Nat, snap : Snapshots]
    /\ l.ts[1] <= now
    /\ l.run # NoRun => l.run \in 1 .. runs /\ l.every = daemonRun[l.run]
    /\ l.run = NoRun => l.every = Fallback

Logged ==
    /\ IsFiniteSet(log)
    /\ runs \in Nat /\ run \in Nat \cup {NoRun}
    /\ daemonRun \in [1 .. runs -> Nat]
    /\ run # NoRun => run \in 1 .. runs /\ daemonRun[run] = interval
    /\ pc = "tick" => run # NoRun /\ last >= 0
    /\ \A l \in log : LoggedRow(l)

(* The snapshots that runs of Q left since c.                              *)
Left(c, Q) == {l \in log : l.ts[1] >= c /\ l.run \in Q}

(* The time that the snapshots L stand for; an interval of each run of Q.  *)
Worth(L) == Cardinality(Units([l \in L |-> l.every], L))
Taken(Q) == Cardinality(Units([r \in Q |-> daemonRun[r]], Q))

(* They fill the time from c to the next slot, but for an interval per run *)
(* and one as long as any of theirs for the slot c cuts; the run at work,  *)
(* if one of theirs, has its own still ahead.                              *)
PacedIn(c, Q, x) ==
    Left(c, Q) # {} =>
        LET k == Worth(Left(c, Q))
            q == Taken(Q)
        IN  IF run \in Q THEN k + interval <= (nextAt - c) + q + x
            ELSE k <= (nextAt - c) + q + x /\ k <= (now - c) + q + x

(* x is an interval that none of the runs Q exceeds.                       *)
AtLeast(x, Q) == \A r \in Q : daemonRun[r] <= x

Paced ==
    \A c \in Nat : \A Q \in SUBSET (1 .. runs) : \A x \in Nat :
        AtLeast(x, Q) => PacedIn(c, Q, x)

HInv == IInv /\ Stored /\ Logged /\ Paced

(* A timestamp is an instant and a rank.                                   *)
LEMMA StampType ==
    ASSUME IsFiniteSet(log), NEW at \in Nat, NEW r
    PROVE  Stamp(at, r) \in Nat \X Nat /\ Stamp(at, r)[1] = at
<1> DEFINE L == {l \in log : l.run = r /\ l.ts[1] = at}
<1>1. L \in SUBSET log
  OBVIOUS
<1> HIDE DEF L
<1>2. Cardinality(L) \in Nat
  BY <1>1, FS_Subset, FS_CardinalityType
<1>3. Stamp(at, r) = <<at, Cardinality(L)>>
  BY DEF Stamp, L
<1> QED BY <1>2, <1>3

LEMMA StoredStep ==
    ASSUME Stored, [HNext]_hvars
    PROVE  Stored'
<1>1. ASSUME NEW s \in Snapshots, NEW ts, NEW r, NEW v, Write(s, ts, r, v)
      PROVE  Stored'
  <2> DEFINE e == [ts |-> ts, run |-> r, every |-> v, snap |-> s]
  <2>1. log' = log \cup {e}
    BY <1>1 DEF Write
  <2>2. gpuSample' = gpuSample \cup {Row(e, g) : g \in Gpus}
    BY <1>1 DEF Write, Row
  <2>3. procSample' = procSample \cup {ProcRow(e, p) : p \in s.procs}
    BY <1>1 DEF Write, ProcRow
  <2>4. e.snap = s
    OBVIOUS
  <2> HIDE DEF e
  <2>5. \A x \in gpuSample' : \E l \in log', g \in Gpus : x = Row(l, g)
    BY <2>1, <2>2 DEF Stored
  <2>6. \A l \in log', g \in Gpus : Row(l, g) \in gpuSample'
    BY <2>1, <2>2 DEF Stored
  <2>7. \A x \in procSample' : \E l \in log' : \E p \in l.snap.procs : x = ProcRow(l, p)
    BY <2>1, <2>3, <2>4 DEF Stored
  <2>8. \A l \in log' : \A p \in l.snap.procs : ProcRow(l, p) \in procSample'
    BY <2>1, <2>3, <2>4 DEF Stored
  <2> QED BY <2>5, <2>6, <2>7, <2>8 DEF Stored, Row, ProcRow
<1>2. CASE UNCHANGED tables
  BY <1>2 DEF tables, Stored, Row, ProcRow
<1>3. UNCHANGED tables \/ \E s \in Snapshots : \E ts, r, v : Write(s, ts, r, v)
  BY DEF HNext, SampleBegins, SampleEnds, Rest, Relaunch, OnceWrites, hvars, tables
<1> QED BY <1>1, <1>2, <1>3

(* The log grows by a snapshot that is written under the right run.        *)
LEMMA WriteLogs ==
    ASSUME Logged, now \in Nat, NEW s \in Snapshots, NEW at \in 0 .. now, NEW r \in Nat \cup {NoRun},
           NEW v \in Nat, r # NoRun => r \in 1 .. runs /\ v = daemonRun[r],
           r = NoRun => v = Fallback, Write(s, Stamp(at, r), r, v), runs' = runs, run' = run,
           daemonRun' = daemonRun, interval' = interval, now' = now,
           pc' = pc \/ pc' # "tick", last' = last
    PROVE  Logged'
<1> DEFINE e == [ts |-> Stamp(at, r), run |-> r, every |-> v, snap |-> s]
<1>1. log' = log \cup {e}
  BY DEF Write
<1>2. LoggedRow(e)
  <2>1. at \in Nat /\ IsFiniteSet(log)
    BY DEF Logged
  <2>2. Stamp(at, r) \in Nat \X Nat /\ Stamp(at, r)[1] = at
    BY <2>1, StampType
  <2>3. /\ e.ts = Stamp(at, r) /\ e.run = r /\ e.every = v
        /\ e \in [ts : Nat \X Nat, run : Nat \cup {NoRun}, every : Nat, snap : Snapshots]
    BY <2>2
  <2> HIDE DEF e
  <2> QED BY <2>2, <2>3 DEF LoggedRow
<1> HIDE DEF e
<1>3. IsFiniteSet(log')
  BY <1>1, FS_AddElement DEF Logged
<1>4. \A l \in log' : LoggedRow(l)
  BY <1>1, <1>2 DEF Logged
<1>5. \A l \in log' : LoggedRow(l)'
  BY <1>4 DEF LoggedRow
<1> QED BY <1>3, <1>5 DEF Logged

(* A run is added to the table, and none of the others changes.            *)
LEMMA TableGrows ==
    ASSUME TypeOK, Logged, [HNext]_hvars
    PROVE  /\ runs' \in Nat /\ runs <= runs' /\ daemonRun' \in [1 .. runs' -> Nat]
           /\ \A r \in 1 .. runs : r \in 1 .. runs' /\ daemonRun'[r] = daemonRun[r]
<1>1. CASE SampleBegins /\ run = NoRun
  <2>1. PICK m \in Nat : m = runs + 1
    BY DEF Logged
  <2>2. /\ runs' = m
        /\ daemonRun' = [r \in 1 .. m |-> IF r = m THEN interval ELSE daemonRun[r]]
    BY <1>1, <2>1 DEF SampleBegins, StartRun
  <2>3. interval \in Nat
    BY IntervalType
  <2> QED BY <2>1, <2>2, <2>3 DEF Logged
<1>2. CASE runs' = runs /\ daemonRun' = daemonRun
  BY <1>2 DEF Logged
<1> QED BY <1>1, <1>2 DEF HNext, SampleBegins, SampleEnds, Rest, Relaunch, OnceWrites, hvars

(* The runs of the table have numbers.                                     *)
LEMMA RunsAreNumbers ==
    ASSUME TypeOK, Logged, [HNext]_hvars, NEW Q \in SUBSET (1 .. runs')
    PROVE  NoRun \notin Q
<1>1. PICK m \in Nat : m = runs'
  BY TableGrows
<1>2. Q \in SUBSET (1 .. m)
  BY <1>1
<1>3. 1 .. m \subseteq Nat
  OBVIOUS
<1> QED BY <1>2, <1>3, HoursAssumption

(* What is logged stays so.                                                *)
LEMMA RowStays ==
    ASSUME Logged, TypeOK, [HNext]_hvars, now' >= now, now' \in Nat, NEW l \in log
    PROVE  LoggedRow(l)'
<1>1. LoggedRow(l)
  BY DEF Logged
<1>2. l.run \in 1 .. runs => l.run \in 1 .. runs' /\ daemonRun'[l.run] = daemonRun[l.run]
  BY TableGrows
<1> DEFINE time == now'
<1>3. time \in Nat /\ time >= now /\ now \in Nat
  BY DEF TypeOK
<1> HIDE DEF time
<1>4. l.ts[1] <= now /\ l.ts[1] \in Nat
  BY <1>1 DEF LoggedRow
<1>5. l.ts[1] <= time
  BY <1>3, <1>4
<1> QED BY <1>1, <1>2, <1>5 DEF LoggedRow, time

LEMMA LoggedStep ==
    ASSUME IInv, Logged, [HNext]_hvars
    PROVE  Logged'
<1>0. now \in Nat /\ interval \in Nat /\ Fallback \in Nat /\ runs \in Nat
  BY IntervalType, HoursAssumption DEF IInv, TypeOK, Logged
<1>1. CASE SampleBegins
  <2>1. now' = now /\ last' = now /\ pc' = "tick" /\ interval' = interval /\ log' = log
    BY <1>1 DEF SampleBegins, Begin, tables, process
  <2>2. \A l \in log' : LoggedRow(l)'
    BY <1>0, <2>1, RowStays DEF IInv
  <2>3. /\ run' # NoRun /\ run' \in Nat
        /\ run' \in 1 .. runs' /\ daemonRun'[run'] = interval'
    <3>1. CASE run = NoRun
      <4>1. PICK m \in Nat : m = runs + 1
        BY DEF Logged
      <4>2. /\ runs' = m /\ run' = m
            /\ daemonRun' = [r \in 1 .. m |-> IF r = m THEN interval ELSE daemonRun[r]]
        BY <1>1, <3>1, <4>1 DEF SampleBegins, StartRun
      <4>3. m \in 1 .. m
        BY <1>0, <4>1
      <4> QED BY <2>1, <4>2, <4>3, HoursAssumption
    <3>2. CASE run # NoRun
      <4>1. run' = run /\ runs' = runs /\ daemonRun' = daemonRun
        BY <1>1, <3>2 DEF SampleBegins
      <4> QED BY <2>1, <3>2, <4>1 DEF Logged
    <3> QED BY <3>1, <3>2
  <2>4. runs' \in Nat /\ daemonRun' \in [1 .. runs' -> Nat]
    BY TableGrows DEF IInv
  <2>5. IsFiniteSet(log')
    BY <2>1 DEF Logged
  <2>6. last' >= 0
    BY <1>0, <2>1
  <2> QED BY <2>2, <2>3, <2>4, <2>5, <2>6 DEF Logged
<1>2. CASE SampleEnds
  <2>1. /\ run' = run /\ runs' = runs /\ daemonRun' = daemonRun /\ interval' = interval
        /\ now' = now /\ last' = last /\ pc' = "delay" /\ pc = "tick"
    BY <1>2 DEF SampleEnds, TickEnds, hist, process
  <2>2. CASE UNCHANGED tables
    BY <2>1, <2>2 DEF tables, Logged, LoggedRow
  <2>3. ASSUME NEW s \in Snapshots, Write(s, Stamp(last, run), run, interval)
        PROVE  Logged'
    <3>1. last \in 0 .. now
      BY <2>1 DEF IInv, TypeOK, Logged, SlotsInOrder
    <3>2. run \in Nat \cup {NoRun} /\ run # NoRun
          /\ run \in 1 .. runs /\ interval = daemonRun[run]
      BY <2>1 DEF Logged
    <3> QED BY <1>0, <2>1, <2>3, <3>1, <3>2, WriteLogs
  <2> QED BY <1>2, <2>2, <2>3 DEF SampleEnds
<1>3. CASE Rest
  <2>1. /\ run' = run /\ runs' = runs /\ daemonRun' = daemonRun /\ interval' = interval
        /\ log' = log /\ last' = last
    BY <1>3 DEF Rest, Elapse, SetStop, Check, Delay, Wait, hist, tables, process
  <2>2. now' \in Nat /\ now' >= now
    BY <1>0, <1>3 DEF Rest, Elapse, SetStop, Check, Delay, Wait
  <2>3. \A l \in log' : LoggedRow(l)'
    BY <2>1, <2>2, RowStays DEF IInv
  <2>4. pc' = "tick" => pc = "tick"
    BY <1>3 DEF Rest, Elapse, SetStop, Check, Delay, Wait
  <2> QED BY <2>1, <2>3, <2>4 DEF Logged
<1>4. CASE Relaunch
  BY <1>4, HoursAssumption DEF Relaunch, tables, Logged, LoggedRow
<1>5. CASE OnceWrites
  <2>1. PICK at \in 0 .. now, s \in Snapshots : Write(s, Stamp(at, NoRun), NoRun, Fallback)
    BY <1>5 DEF OnceWrites
  <2>2. /\ run' = run /\ runs' = runs /\ daemonRun' = daemonRun /\ interval' = interval
        /\ now' = now /\ last' = last /\ pc' = pc
    BY <1>5 DEF OnceWrites, vars, process, hist
  <2> QED BY <1>0, <2>1, <2>2, WriteLogs
<1>6. CASE UNCHANGED hvars
  BY <1>6 DEF hvars, vars, process, hist, tables, Logged, LoggedRow
<1> QED BY <1>1, <1>2, <1>3, <1>4, <1>5, <1>6 DEF HNext

-----------------------------------------------------------------------------
(* The sum of w over T is that of any function that agrees with w on T.    *)
LEMMA UnitsAgree ==
    ASSUME NEW T, NEW w, NEW v, \A x \in T : w[x] = v[x]
    PROVE  Units(w, T) = Units(v, T)
BY DEF Units

(* One more snapshot is worth at most its own interval more.               *)
LEMMA OneMore ==
    ASSUME NEW S, IsFiniteSet(S), NEW U, NEW e, U \subseteq S \cup {e},
           \A l \in S \cup {e} : l.every \in Nat
    PROVE  /\ Worth(S) \in Nat /\ Worth(U) \in Nat
           /\ Worth(U) <= Worth(S) + e.every
           /\ S = {} => Worth(U) <= e.every
<1> DEFINE w == [l \in S \cup {e} |-> l.every]
           A == Units(w, S)
           B == {e} \X (1 .. w[e])
           V == Units(w, U)
<1>1. IsFiniteSet(S \cup {e})
  BY FS_AddElement
<1>2. w \in [S \cup {e} -> Nat] /\ w[e] = e.every
  OBVIOUS
<1>3. S \in SUBSET (S \cup {e}) /\ U \in SUBSET (S \cup {e})
  OBVIOUS
<1>4. /\ IsFiniteSet(A) /\ Cardinality(A) \in Nat
      /\ IsFiniteSet(V) /\ Cardinality(V) \in Nat
  <2> HIDE DEF w
  <2> QED BY <1>1, <1>2, <1>3, UnitsAreFinite
<1>5. IsFiniteSet(B) /\ Cardinality(B) = e.every /\ e.every \in Nat
  <2>1. e.every \in Nat
    OBVIOUS
  <2> HIDE DEF w
  <2> QED BY <1>2, <2>1, UnitsOfOne
<1>6. V \subseteq A \cup B
  <2> HIDE DEF w
  <2> QED BY <1>3 DEF Units
<1>7. Worth(S) = Cardinality(A) /\ Worth(U) = Cardinality(V)
  <2>1. Units([l \in S |-> l.every], S) = A
    BY UnitsAgree
  <2>2. Units([l \in U |-> l.every], U) = V
    BY UnitsAgree
  <2> QED BY <2>1, <2>2 DEF Worth
<1>8. S = {} => A = {}
  BY DEF Units
<1> HIDE DEF A, B, V
<1>9. IsFiniteSet(A \cup B) /\ Cardinality(A \cup B) <= Cardinality(A) + Cardinality(B)
      /\ Cardinality(A \cup B) \in Nat
  <2>1. Cardinality(A \cup B) = Cardinality(A) + Cardinality(B) - Cardinality(A \cap B)
    BY <1>4, <1>5, FS_Union
  <2>2. Cardinality(A \cap B) \in Nat /\ IsFiniteSet(A \cup B)
    BY <1>4, <1>5, FS_Union, FS_Intersection, FS_CardinalityType
  <2>3. Cardinality(A \cup B) \in Nat
    BY <2>2, FS_CardinalityType
  <2> QED BY <1>4, <1>5, <2>1, <2>2, <2>3
<1>10. Cardinality(V) <= Cardinality(A \cup B)
  BY <1>6, <1>9, FS_Subset
<1>11. S = {} => Cardinality(A) = 0
  BY <1>8, FS_EmptySet
<1> QED BY <1>4, <1>5, <1>7, <1>9, <1>10, <1>11

LEMMA WithoutOne ==
    ASSUME NEW Q, IsFiniteSet(Q), NEW w \in [Q -> Nat], NEW m \in Q
    PROVE  Cardinality(Units(w, Q)) = w[m] + Cardinality(Units(w, Q \ {m}))
<1>1. Q \in SUBSET Q
  OBVIOUS
<1> QED BY <1>1, UnitsGrow

(* A member of Q counts for its own interval.                              *)
LEMMA MemberCounts ==
    ASSUME NEW Q, IsFiniteSet(Q), \A r \in Q : daemonRun[r] \in Nat
    PROVE  /\ Taken(Q) \in Nat
           /\ \A r \in Q : /\ Taken(Q) = daemonRun[r] + Taken(Q \ {r})
                           /\ Taken(Q) >= daemonRun[r] /\ Taken(Q \ {r}) \in Nat
<1> DEFINE w == [r \in Q |-> daemonRun[r]]
<1>1. w \in [Q -> Nat]
  OBVIOUS
<1>2. Taken(Q) = Cardinality(Units(w, Q))
  BY DEF Taken
<1>3. \A r \in Q : Taken(Q \ {r}) = Cardinality(Units(w, Q \ {r}))
  <2> TAKE r \in Q
  <2>1. Units([x \in Q \ {r} |-> daemonRun[x]], Q \ {r}) = Units(w, Q \ {r})
    BY UnitsAgree
  <2> QED BY <2>1 DEF Taken
<1>4. \A r \in Q : w[r] = daemonRun[r]
  OBVIOUS
<1> HIDE DEF w
<1>5. Taken(Q) \in Nat
  BY <1>1, <1>2, UnitsAreFinite
<1>6. ASSUME NEW r \in Q
      PROVE  /\ Taken(Q) = daemonRun[r] + Taken(Q \ {r})
             /\ Taken(Q) >= daemonRun[r] /\ Taken(Q \ {r}) \in Nat
  <2>1. Cardinality(Units(w, Q)) = w[r] + Cardinality(Units(w, Q \ {r}))
    BY <1>1, UnitsGrow
  <2>2. Cardinality(Units(w, Q \ {r})) \in Nat
    <3>1. Q \ {r} \in SUBSET Q
      OBVIOUS
    <3> QED BY <1>1, <3>1, UnitsAreFinite
  <2>3. daemonRun[r] \in Nat
    OBVIOUS
  <2> QED BY <1>2, <1>3, <1>4, <2>1, <2>2, <2>3
<1> QED BY <1>5, <1>6

LEMMA RunsAreFinite ==
    ASSUME Logged, NEW Q \in SUBSET (1 .. runs)
    PROVE  IsFiniteSet(Q) /\ \A r \in Q : daemonRun[r] \in Nat
<1>1. IsFiniteSet(1 .. runs)
  BY FS_Interval DEF Logged
<1> QED BY <1>1, FS_Subset DEF Logged

LEMMA LeftIsFinite ==
    ASSUME Logged, NEW c, NEW Q
    PROVE  /\ IsFiniteSet(Left(c, Q)) /\ Worth(Left(c, Q)) \in Nat
           /\ \A l \in Left(c, Q) : l.every \in Nat
<1> DEFINE S == Left(c, Q)
<1>1. S \in SUBSET log
  BY DEF Left
<1>2. \A l \in S : l.every \in Nat
  <2> HIDE DEF S
  <2> QED BY <1>1 DEF Logged, LoggedRow
<1> HIDE DEF S
<1>3. IsFiniteSet(S)
  BY <1>1, FS_Subset DEF Logged
<1> DEFINE w == [l \in S |-> l.every]
<1>4. w \in [S -> Nat]
  BY <1>2
<1>5. Cardinality(Units(w, S)) \in Nat
  <2> HIDE DEF w
  <2> QED BY <1>3, <1>4, UnitsAreFinite
<1>6. Worth(S) \in Nat
  BY <1>5 DEF Worth
<1> QED BY <1>2, <1>3, <1>6 DEF S

(* What is written under a run that is not in Q leaves Q's alone; what is  *)
(* written under one that is, was sampled at c or later to count.          *)
LEMMA LeftGrows ==
    ASSUME NEW c, NEW Q, NEW s, NEW ts, NEW r, NEW v, Write(s, ts, r, v)
    PROVE  /\ r \notin Q \/ ~(ts[1] >= c) => Left(c, Q)' = Left(c, Q)
           /\ Left(c, Q)' \subseteq
                Left(c, Q) \cup {[ts |-> ts, run |-> r, every |-> v, snap |-> s]}
<1> DEFINE e == [ts |-> ts, run |-> r, every |-> v, snap |-> s]
<1>1. log' = log \cup {e} /\ e.ts = ts /\ e.run = r
  BY DEF Write
<1> HIDE DEF e
<1>2. Left(c, Q)' = {l \in log \cup {e} : l.ts[1] >= c /\ l.run \in Q}
  BY <1>1 DEF Left
<1>3. r \notin Q \/ ~(ts[1] >= c) => Left(c, Q)' = Left(c, Q)
  BY <1>1, <1>2 DEF Left
<1>4. Left(c, Q)' \subseteq Left(c, Q) \cup {e}
  BY <1>2 DEF Left
<1> QED BY <1>3, <1>4 DEF e

(* The steps of the schedule and of the runs that write nothing.           *)
LEMMA PacedQuiet ==
    ASSUME HInv, [HNext]_hvars, UNCHANGED log, NEW c \in Nat, NEW Q \in SUBSET (1 .. runs'),
           NEW x \in Nat, AtLeast(x, Q)'
    PROVE  PacedIn(c, Q, x)'
<1> SUFFICES ASSUME Left(c, Q)' # {} PROVE PacedIn(c, Q, x)'
  BY DEF PacedIn
<1> DEFINE k == Worth(Left(c, Q))
           p == Taken(Q)
           q == Taken(Q)'
<1>1. Left(c, Q)' = Left(c, Q)
  BY DEF Left
<1>2. k \in Nat /\ interval \in Nat
  BY LeftIsFinite, IntervalType DEF HInv, IInv
<1>3. now \in Nat /\ nextAt \in Nat /\ nextAt <= now + interval
  BY DEF HInv, IInv, TypeOK, SlotsInOrder
<1>4. SUFFICES IF run' \in Q THEN k + interval' <= (nextAt' - c) + q + x
               ELSE k <= (nextAt' - c) + q + x /\ k <= (now' - c) + q + x
  BY <1>1 DEF PacedIn, Worth
(* The runs that were open before.                                         *)
<1>5. ASSUME Q \in SUBSET (1 .. runs)
      PROVE  /\ p \in Nat /\ q = p
             /\ IF run \in Q THEN k + interval <= (nextAt - c) + p + x
                ELSE k <= (nextAt - c) + p + x /\ k <= (now - c) + p + x
  <2>1. \A r \in Q : daemonRun'[r] = daemonRun[r]
    BY <1>5, TableGrows DEF HInv, IInv
  <2>2. AtLeast(x, Q)
    BY <2>1 DEF AtLeast
  <2>3. PacedIn(c, Q, x)
    BY <1>5, <2>2 DEF HInv, Paced
  <2>4. [r \in Q |-> daemonRun[r]]' = [r \in Q |-> daemonRun[r]]
    BY <2>1
  <2>5. q = p
    BY <2>4 DEF Taken
  <2>6. p \in Nat
    BY <1>5, RunsAreFinite, MemberCounts DEF HInv
  <2> QED BY <1>1, <2>3, <2>5, <2>6 DEF PacedIn
<1>6. CASE /\ run' = run /\ nextAt' \in Nat /\ now' \in Nat /\ runs' = runs
           /\ interval' = interval /\ nextAt' >= nextAt /\ now' >= now
  <2> DEFINE slot == nextAt'
             time == now'
  <2>1. slot \in Nat /\ time \in Nat /\ slot >= nextAt /\ time >= now
    BY <1>6
  <2>2. /\ p \in Nat /\ q = p
        /\ IF run \in Q THEN k + interval <= (nextAt - c) + p + x
           ELSE k <= (nextAt - c) + p + x /\ k <= (now - c) + p + x
    BY <1>5, <1>6
  <2>3. CASE run \in Q
    <3>1. k + interval <= (nextAt - c) + p + x /\ run' \in Q /\ interval' = interval
      BY <1>6, <2>2, <2>3
    <3> HIDE DEF k, q, p, slot, time
    <3>2. k + interval <= (slot - c) + q + x
      BY <1>2, <1>3, <2>1, <2>2, <3>1
    <3> QED BY <3>1, <3>2 DEF slot
  <2>4. CASE run \notin Q
    <3>1. k <= (nextAt - c) + p + x /\ k <= (now - c) + p + x /\ run' \notin Q
      BY <1>6, <2>2, <2>4
    <3> HIDE DEF k, q, p, slot, time
    <3>2. k <= (slot - c) + q + x /\ k <= (time - c) + q + x
      BY <1>2, <1>3, <2>1, <2>2, <3>1
    <3> QED BY <3>1, <3>2 DEF slot, time
  <2> QED BY <2>3, <2>4
<1>7. CASE Relaunch
  <2>1. run' = NoRun /\ nextAt' = now /\ now' = now /\ runs' = runs
    BY <1>7 DEF Relaunch
  <2>2. NoRun \notin Q
    BY RunsAreNumbers DEF HInv, IInv
  <2>3. /\ p \in Nat /\ q = p
        /\ IF run \in Q THEN k + interval <= (nextAt - c) + p + x
           ELSE k <= (nextAt - c) + p + x /\ k <= (now - c) + p + x
    BY <1>5, <2>1
  <2>4. k <= (now - c) + p + x
    <3> HIDE DEF k, q, p
    <3> QED BY <1>2, <1>3, <2>3
  <2> HIDE DEF k, q, p
  <2> QED BY <2>1, <2>2, <2>3, <2>4
<1>8. CASE SampleBegins /\ run = NoRun
  <2>1. PICK m \in Nat : m = runs + 1
    BY DEF HInv, Logged
  <2>2. /\ run' = m /\ runs' = m /\ nextAt' = nextAt /\ now' = now /\ interval' = interval
        /\ daemonRun' = [r \in 1 .. m |-> IF r = m THEN interval ELSE daemonRun[r]]
    BY <1>8, <2>1 DEF SampleBegins, StartRun, Begin, process
  <2>3. run \notin Q /\ run \notin Q \ {m}
    BY <1>8, RunsAreNumbers DEF HInv, IInv
  <2>4. CASE m \notin Q
    <3>1. Q \in SUBSET (1 .. runs)
      <4>1. \A r \in 1 .. m : r # m => r \in 1 .. runs
        BY <2>1 DEF HInv, Logged
      <4> QED BY <2>2, <2>4, <4>1
    <3>2. /\ p \in Nat /\ q = p
          /\ k <= (nextAt - c) + p + x /\ k <= (now - c) + p + x
      BY <1>5, <2>3, <3>1
    <3> HIDE DEF k, q, p
    <3> QED BY <2>2, <2>4, <3>2
  <2>5. CASE m \in Q
    <3> DEFINE P == Q \ {m}
    <3>1. P \in SUBSET (1 .. runs)
      <4>1. \A r \in 1 .. m : r # m => r \in 1 .. runs
        BY <2>1 DEF HInv, Logged
      <4> QED BY <2>2, <4>1
    <3>2. \A r \in P : daemonRun'[r] = daemonRun[r]
      BY <3>1, TableGrows DEF HInv, IInv
    <3>3. AtLeast(x, P)
      BY <3>2 DEF AtLeast
    <3>4. PacedIn(c, P, x)
      <4> HIDE DEF P
      <4> QED BY <3>1, <3>3 DEF HInv, Paced
    <3>5. Left(c, P) = Left(c, Q)
      <4>1. \A l \in log : l.run # m
        <5>1. m \notin 1 .. runs /\ m # NoRun
          BY <2>1, HoursAssumption DEF HInv, Logged
        <5> QED BY <5>1 DEF HInv, Logged, LoggedRow
      <4> QED BY <4>1 DEF Left
    <3>6. k <= (nextAt - c) + Taken(P) + x
      <4>1. run \notin P /\ Left(c, P) # {} /\ k = Worth(Left(c, P))
        BY <1>1, <2>3, <3>5
      <4> HIDE DEF P, k
      <4> QED BY <3>4, <4>1 DEF PacedIn
    <3>7. Taken(P) \in Nat
      <4> HIDE DEF P
      <4> QED BY <3>1, RunsAreFinite, MemberCounts DEF HInv
    <3>8. q = interval + Taken(P)
      <4>1. IsFiniteSet(Q) /\ \A r \in Q : daemonRun'[r] \in Nat
        <5>1. IsFiniteSet(1 .. m)
          BY FS_Interval
        <5>2. daemonRun' \in [1 .. m -> Nat]
          BY <2>2, TableGrows DEF HInv, IInv
        <5> QED BY <2>2, <5>1, <5>2, FS_Subset
      <4>2. PICK w \in [Q -> Nat] : w = [r \in Q |-> daemonRun'[r]]
        BY <4>1
      <4>3. q = Cardinality(Units(w, Q))
        BY <4>2 DEF Taken
      <4>4. w[m] = interval
        BY <2>2, <2>5, <4>2
      <4>5. Units(w, P) = Units([r \in P |-> daemonRun[r]], P)
        <5>1. \A r \in P : w[r] = [y \in P |-> daemonRun[y]][r]
          BY <3>2, <4>2
        <5> HIDE DEF P
        <5> QED BY <5>1, UnitsAgree
      <4>6. Cardinality(Units(w, Q)) = w[m] + Cardinality(Units(w, P))
        BY <2>5, <4>1, <4>2, WithoutOne
      <4> HIDE DEF P
      <4> QED BY <4>3, <4>4, <4>5, <4>6 DEF Taken
    <3> DEFINE y == Taken(P)
    <3>9. y \in Nat /\ q = interval + y /\ k <= (nextAt - c) + y + x
      BY <3>6, <3>7, <3>8
    <3> HIDE DEF k, q, y
    <3>10. k + interval <= (nextAt - c) + q + x
      BY <1>2, <1>3, <3>9
    <3> QED BY <2>2, <2>5, <3>10
  <2> QED BY <2>4, <2>5
<1>9. /\ run' = run /\ nextAt' \in Nat /\ now' \in Nat /\ runs' = runs
      /\ interval' = interval /\ nextAt' >= nextAt /\ now' >= now
      \/ Relaunch \/ (SampleBegins /\ run = NoRun)
  <2>1. CASE SampleBegins
    BY <1>3, <2>1 DEF SampleBegins, Begin, process
  <2>2. CASE SampleEnds
    <3>1. /\ pc = "tick" /\ nextAt' = NextSlot(now) /\ now' = now /\ run' = run
          /\ runs' = runs /\ interval' = interval
      BY <2>2 DEF SampleEnds, TickEnds, process
    <3>2. NextSlot(now) \in Nat /\ NextSlot(now) >= now /\ nextAt <= now
      BY <1>2, <1>3, <3>1, NextSlotBounds DEF HInv, IInv, SlotsInOrder
    <3> QED BY <1>3, <3>1, <3>2
  <2>3. CASE Rest
    BY <1>3, <2>3 DEF Rest, Elapse, SetStop, Check, Delay, Wait, process
  <2>4. CASE OnceWrites \/ UNCHANGED hvars
    <3>1. run' = run /\ nextAt' = nextAt /\ now' = now /\ runs' = runs /\ interval' = interval
      BY <2>4 DEF OnceWrites, hvars, vars, process
    <3> QED BY <1>3, <3>1
  <2> QED BY <2>1, <2>2, <2>3, <2>4 DEF HNext
<1> QED BY <1>6, <1>7, <1>8, <1>9

(* The tick that is written has a slot of its own.                         *)
LEMMA PacedTick ==
    ASSUME HInv, SampleEnds, NEW s \in Snapshots, Write(s, Stamp(last, run), run, interval),
           NEW c \in Nat, NEW Q \in SUBSET (1 .. runs), NEW x \in Nat, AtLeast(x, Q)
    PROVE  PacedIn(c, Q, x)'
<1> SUFFICES ASSUME Left(c, Q)' # {} PROVE PacedIn(c, Q, x)'
  BY DEF PacedIn
<1> DEFINE k == Worth(Left(c, Q))
           h == Worth(Left(c, Q)')
           q == Taken(Q)
           slot == nextAt'
<1>1. k \in Nat /\ q \in Nat /\ interval \in Nat
  BY LeftIsFinite, RunsAreFinite, MemberCounts, IntervalType DEF HInv, IInv
<1>2. Left(c, Q) # {} =>
        IF run \in Q THEN k + interval <= (nextAt - c) + q + x
        ELSE k <= (nextAt - c) + q + x /\ k <= (now - c) + q + x
  BY DEF HInv, Paced, PacedIn
<1>3. /\ pc = "tick" /\ run' = run /\ now' = now /\ nextAt' = NextSlot(now)
      /\ daemonRun' = daemonRun /\ interval' = interval
  BY DEF SampleEnds, TickEnds, process
<1>4. now \in Nat /\ nextAt \in Nat /\ nextAt <= now /\ last \in Nat /\ last <= now
  BY <1>3 DEF HInv, IInv, TypeOK, SlotsInOrder, Logged
<1>5. slot \in Nat /\ slot >= nextAt + interval /\ slot >= now
  BY <1>1, <1>3, <1>4, NextSlotBounds
<1>6. SUFFICES IF run \in Q THEN h + interval <= (slot - c) + q + x
               ELSE h <= (slot - c) + q + x /\ h <= (now - c) + q + x
  BY <1>3 DEF PacedIn, Taken, Worth
<1>7. Stamp(last, run)[1] = last
  BY <1>4, StampType DEF HInv, Logged
<1>8. CASE Left(c, Q)' = Left(c, Q)
  <2>1. h = k /\ Left(c, Q) # {}
    BY <1>8
  <2>2. IF run \in Q THEN k + interval <= (nextAt - c) + q + x
        ELSE k <= (nextAt - c) + q + x /\ k <= (now - c) + q + x
    BY <1>2, <2>1
  <2> HIDE DEF k, q, h, slot
  <2> QED BY <1>1, <1>4, <1>5, <2>1, <2>2
<1>9. CASE run \in Q /\ last >= c
  <2>1. h \in Nat /\ h <= k + interval /\ (Left(c, Q) = {} => h <= interval)
    <3> DEFINE S == Left(c, Q)
               U == Left(c, Q)'
               e == [ts |-> Stamp(last, run), run |-> run, every |-> interval, snap |-> s]
    <3>1. IsFiniteSet(S) /\ U \subseteq S \cup {e} /\ \A l \in S : l.every \in Nat
      BY LeftIsFinite, LeftGrows DEF HInv
    <3>2. e.every = interval
      OBVIOUS
    <3> HIDE DEF S, U, e
    <3>3. /\ Worth(S) \in Nat /\ Worth(U) \in Nat /\ Worth(U) <= Worth(S) + e.every
          /\ S = {} => Worth(U) <= e.every
      BY <1>1, <3>1, <3>2, OneMore
    <3> QED BY <3>2, <3>3 DEF S, U
  <2>2. q >= interval /\ x >= interval
    <3>1. daemonRun[run] = interval
      BY <1>9, HoursAssumption DEF HInv, Logged
    <3>2. q >= daemonRun[run]
      BY <1>9, RunsAreFinite, MemberCounts DEF HInv
    <3>3. daemonRun[run] <= x
      BY <1>9 DEF AtLeast
    <3> HIDE DEF q
    <3> QED BY <1>1, <3>1, <3>2, <3>3
  <2>3. CASE Left(c, Q) = {}
    <3>1. h <= interval
      BY <2>1, <2>3
    <3> HIDE DEF k, q, h, slot
    <3>2. h + interval <= (slot - c) + q + x
      BY <1>1, <1>4, <1>5, <1>9, <2>1, <2>2, <3>1
    <3> QED BY <1>9, <3>2
  <2>4. CASE Left(c, Q) # {}
    <3>1. k + interval <= (nextAt - c) + q + x
      BY <1>2, <1>9, <2>4
    <3> HIDE DEF k, q, h, slot
    <3>2. h + interval <= (slot - c) + q + x
      BY <1>1, <1>4, <1>5, <2>1, <3>1
    <3> QED BY <1>9, <3>2
  <2> QED BY <2>3, <2>4
<1>10. run \notin Q \/ ~(last >= c) => Left(c, Q)' = Left(c, Q)
  BY <1>7, LeftGrows
<1> QED BY <1>8, <1>9, <1>10

LEMMA PacedStep == HInv /\ [HNext]_hvars => Paced'
<1> SUFFICES ASSUME HInv, [HNext]_hvars, NEW c \in Nat, NEW Q \in SUBSET (1 .. runs'),
                    NEW x \in Nat, AtLeast(x, Q)'
             PROVE  PacedIn(c, Q, x)'
  BY DEF Paced
<1>1. CASE UNCHANGED log
  BY <1>1, PacedQuiet
<1>2. CASE SampleEnds /\ ~UNCHANGED log
  <2>1. PICK s \in Snapshots : Write(s, Stamp(last, run), run, interval)
    BY <1>2 DEF SampleEnds, tables
  <2>2. runs' = runs /\ daemonRun' = daemonRun
    BY <1>2 DEF SampleEnds
  <2>3. AtLeast(x, Q)
    BY <2>2 DEF AtLeast
  <2> QED BY <1>2, <2>1, <2>2, <2>3, PacedTick
<1>3. CASE OnceWrites
  <2>1. PICK at \in 0 .. now, s \in Snapshots : Write(s, Stamp(at, NoRun), NoRun, Fallback)
    BY <1>3 DEF OnceWrites
  <2>2. run' = run /\ now' = now /\ nextAt' = nextAt /\ runs' = runs
        /\ daemonRun' = daemonRun /\ interval' = interval
    BY <1>3 DEF OnceWrites, vars, process
  <2>3. Left(c, Q)' = Left(c, Q)
    <3>1. NoRun \notin Q
      BY RunsAreNumbers DEF HInv, IInv
    <3> QED BY <2>1, <3>1, LeftGrows
  <2>4. PacedIn(c, Q, x)
    BY <2>2 DEF HInv, Paced, AtLeast
  <2> QED BY <2>2, <2>3, <2>4 DEF PacedIn, Taken
<1> QED BY <1>1, <1>2, <1>3 DEF HNext, SampleBegins, Rest, Relaunch, hvars, tables

LEMMA HoursInit == HInit => HInv
<1> SUFFICES ASSUME HInit PROVE HInv
  OBVIOUS
<1>1. IInv
  BY InitInv DEF HInit
<1>2. Stored
  BY DEF HInit, Stored
<1>3. Logged
  BY FS_EmptySet, HoursAssumption DEF HInit, Init, Logged
<1>4. Paced
  BY DEF HInit, Paced, PacedIn, Left
<1> QED BY <1>1, <1>2, <1>3, <1>4 DEF HInv

LEMMA HoursStep == HInv /\ [HNext]_hvars => HInv'
BY RunsStep, StoredStep, LoggedStep, PacedStep DEF HInv

LEMMA HoursInvariance == HSpec => []HInv
BY HoursInit, HoursStep, PTL DEF HSpec

-----------------------------------------------------------------------------
(* The image of a finite set.                                              *)
LEMMA ImageIsFinite ==
    ASSUME NEW S, IsFiniteSet(S), NEW f, f = [x \in S |-> f[x]]
    PROVE  /\ IsFiniteSet({f[x] : x \in S})
           /\ Cardinality({f[x] : x \in S}) <= Cardinality(S)
<1> DEFINE T == {f[x] : x \in S}
<1>1. f \in [S -> T]
  BY Zenon
<1>2. \A t \in T : \E x \in S : f[x] = t
  OBVIOUS
<1> HIDE DEF T
<1>3. f \in Surjection(S, T)
  BY <1>1, <1>2 DEF Surjection
<1>4. IsFiniteSet(T) /\ Cardinality(T) <= Cardinality(S)
  BY <1>3, FS_Surjection
<1> QED BY <1>4 DEF T

LEMMA RowsAreFinite ==
    ASSUME Stored, Logged
    PROVE  IsFiniteSet(gpuSample) /\ IsFiniteSet(procSample)
<1>1. IsFiniteSet(gpuSample)
  <2> DEFINE S == log \X Gpus
             f == [x \in S |-> Row(x[1], x[2])]
  <2>1. IsFiniteSet(S)
    BY FS_Product, HoursAssumption DEF Logged
  <2>2. IsFiniteSet({f[x] : x \in S})
    <3>1. f = [x \in S |-> f[x]]
      OBVIOUS
    <3> HIDE DEF S, f
    <3> QED BY <2>1, <3>1, ImageIsFinite
  <2>3. gpuSample \in SUBSET {f[x] : x \in S}
    <3> SUFFICES ASSUME NEW r \in gpuSample PROVE r \in {f[x] : x \in S}
      OBVIOUS
    <3>1. PICK l \in log, g \in Gpus : r = Row(l, g)
      BY DEF Stored
    <3>2. <<l, g>> \in S /\ f[<<l, g>>] = r
      BY <3>1
    <3> HIDE DEF S, f
    <3> QED BY <3>2
  <2> HIDE DEF S, f
  <2> QED BY <2>2, <2>3, FS_Subset
<1>2. IsFiniteSet(procSample)
  <2> DEFINE Rows(l) == {ProcRow(l, p) : p \in l.snap.procs}
             f == [l \in log |-> Rows(l)]
             F == {f[l] : l \in log}
  <2>1. ASSUME NEW l \in log
        PROVE  IsFiniteSet(Rows(l))
    <3> DEFINE P == l.snap.procs
               h == [p \in P |-> ProcRow(l, p)]
    <3>1. IsFiniteSet(P)
      BY SnapshotAssumption DEF Logged, LoggedRow
    <3>2. h = [p \in P |-> h[p]] /\ Rows(l) = {h[p] : p \in P}
      OBVIOUS
    <3> HIDE DEF P, h, Rows
    <3> QED BY <3>1, <3>2, ImageIsFinite
  <2>2. IsFiniteSet(F)
    <3>1. IsFiniteSet(log)
      BY DEF Logged
    <3>2. f = [l \in log |-> f[l]]
      OBVIOUS
    <3> HIDE DEF f
    <3> QED BY <3>1, <3>2, ImageIsFinite
  <2>3. \A T \in F : IsFiniteSet(T)
    <3> HIDE DEF Rows
    <3> QED BY <2>1
  <2>4. procSample \in SUBSET (UNION F)
    <3>1. \A l \in log : f[l] = Rows(l) /\ Rows(l) \in F
      <4> HIDE DEF Rows
      <4> QED OBVIOUS
    <3>2. \A r \in procSample : \E l \in log : r \in Rows(l)
      BY DEF Stored
    <3> HIDE DEF Rows, f, F
    <3> QED BY <3>1, <3>2
  <2> HIDE DEF F
  <2>5. IsFiniteSet(UNION F)
    BY <2>2, <2>3, FS_UNION
  <2> QED BY <2>4, <2>5, FS_Subset
<1> QED BY <1>1, <1>2

(* What a set of processes is said to hold.                                *)
LEMMA TotalIsUnits ==
    ASSUME NEW P, IsFiniteSet(P), \A p \in P : p.mem \in Nat
    PROVE  /\ Total(P) = Cardinality(Units([p \in P |-> p.mem], P))
           /\ Total(P) \in Nat
<1> DEFINE w == [p \in P |-> p.mem]
           Rec(it) == it = [T \in SUBSET P |-> IF T = {} THEN 0
                            ELSE (CHOOSE x \in T : TRUE).mem + it[T \ {CHOOSE x \in T : TRUE}]]
           SumOf(it) == SumsUp(w, P, it)
<1>1. Total(P) = (CHOOSE it : Rec(it))[P]
  BY DEF Total, MapThenSumSet, MapThenFoldSet
<1>2. \A it : SumOf(it) <=> Rec(it)
  BY DEF SumsUp
<1>3. w \in [P -> Nat]
  OBVIOUS
<1>4. \E it : SumOf(it)
  <2> HIDE DEF w
  <2> QED BY <1>3, SumExists
<1>5. SumOf(CHOOSE it : Rec(it))
  <2> HIDE DEF SumOf, Rec
  <2> QED BY <1>2, <1>4
<1> HIDE DEF w
<1>6. (CHOOSE it : Rec(it))[P] = Cardinality(Units(w, P))
  <2> HIDE DEF Rec
  <2>1. SumsUp(w, P, CHOOSE it : Rec(it))
    BY <1>5
  <2> QED BY <1>3, <2>1, SumIsUnits
<1>7. Cardinality(Units(w, P)) \in Nat
  BY <1>3, UnitsAreFinite
<1> QED BY <1>1, <1>6, <1>7 DEF w

(* What a set of joined rows is worth.                                     *)
LEMMA HoursAreUnits ==
    ASSUME NEW S, IsFiniteSet(S), NEW o, \A j \in S : Weight(j.row.run, o) \in Nat
    PROVE  Hours(S, o) = Cardinality(Units([j \in S |-> Weight(j.row.run, o)], S))
<1> DEFINE w == [j \in S |-> Weight(j.row.run, o)]
           Rec(it) == it = [T \in SUBSET S |-> IF T = {} THEN 0
                            ELSE Weight((CHOOSE x \in T : TRUE).row.run, o)
                                    + it[T \ {CHOOSE x \in T : TRUE}]]
           SumOf(it) == SumsUp(w, S, it)
<1>1. Hours(S, o) = (CHOOSE it : Rec(it))[S]
  BY DEF Hours, MapThenSumSet, MapThenFoldSet
<1>2. \A it : SumOf(it) <=> Rec(it)
  BY DEF SumsUp
<1>3. w \in [S -> Nat]
  OBVIOUS
<1>4. \E it : SumOf(it)
  <2> HIDE DEF w
  <2> QED BY <1>3, SumExists
<1>5. SumOf(CHOOSE it : Rec(it))
  <2> HIDE DEF SumOf, Rec
  <2> QED BY <1>2, <1>4
<1> HIDE DEF w
<1>6. (CHOOSE it : Rec(it))[S] = Cardinality(Units(w, S))
  <2> HIDE DEF Rec
  <2>1. SumsUp(w, S, CHOOSE it : Rec(it))
    BY <1>5
  <2> QED BY <1>3, <2>1, SumIsUnits
<1> QED BY <1>1, <1>6 DEF w

(* A sum of which every term is k.                                         *)
LEMMA EvenSum ==
    ASSUME NEW A, IsFiniteSet(A), NEW w, NEW k \in Nat, \A x \in A : w[x] = k
    PROVE  IsFiniteSet(Units(w, A)) /\ Cardinality(Units(w, A)) = Cardinality(A) * k
<1> DEFINE B == 1 .. k
<1>1. Units(w, A) = A \X B
  <2>1. \A u \in Units(w, A) : u \in A \X B
    BY DEF Units
  <2>2. \A u \in A \X B : u \in Units(w, A)
    BY DEF Units
  <2> QED BY <2>1, <2>2
<1>2. IsFiniteSet(B) /\ Cardinality(B) = k
  BY FS_Interval
<1> HIDE DEF B
<1> QED BY <1>1, <1>2, FS_Product

(* What a row weighs: the interval of its run, or the fallback.            *)
LEMMA WeightIs ==
    ASSUME Logged, NEW r
    PROVE  /\ Weight(r, NoOverride) \in Nat
           /\ r \in 1 .. runs => r # NoRun /\ Weight(r, NoOverride) = daemonRun[r]
           /\ r \notin 1 .. runs => Weight(r, NoOverride) = Fallback
<1>1. DOMAIN daemonRun = 1 .. runs /\ \A x \in 1 .. runs : daemonRun[x] \in Nat
  BY DEF Logged
<1>2. NoRun \notin 1 .. runs
  <2>1. 1 .. runs \subseteq Nat
    BY DEF Logged
  <2> QED BY <2>1, HoursAssumption
<1> QED BY <1>1, <1>2, HoursAssumption DEF Weight

(* The weights of joined rows, and of rows.                                *)
Weighed(A) == Cardinality(Units([j \in A |-> Weight(j.row.run, NoOverride)], A))
RowsWorth(R) == Cardinality(Units([g \in R |-> Weight(g.run, NoOverride)], R))

(* The rows of no run are worth the fallback each.                         *)
LEMMA HoursByRun ==
    ASSUME Logged, NEW S, IsFiniteSet(S)
    PROVE  Hours(S, NoOverride) =
                Weighed({j \in S : j.row.run # NoRun})
                + Fallback * Cardinality({j \in S : j.row.run = NoRun})
<1> DEFINE w == [j \in S |-> Weight(j.row.run, NoOverride)]
           A == {j \in S : j.row.run # NoRun}
           B == {j \in S : j.row.run = NoRun}
<1>1. /\ \A j \in B : w[j] = Fallback
      /\ \A j \in S : Weight(j.row.run, NoOverride) \in Nat
      /\ w \in [S -> Nat]
  <2>1. Weight(NoRun, NoOverride) = Fallback
    BY WeightIs
  <2>2. \A j \in S : Weight(j.row.run, NoOverride) \in Nat
    BY WeightIs
  <2> QED BY <2>1, <2>2
<1>2. Hours(S, NoOverride) = Cardinality(Units(w, S))
  BY <1>1, HoursAreUnits
<1>3. S = A \cup B /\ A \cap B = {} /\ A \in SUBSET S /\ B \in SUBSET S
  OBVIOUS
<1>4. Weighed(A) = Cardinality(Units(w, A))
  <2>1. Units([j \in A |-> Weight(j.row.run, NoOverride)], A) = Units(w, A)
    BY UnitsAgree
  <2> QED BY <2>1 DEF Weighed
<1> HIDE DEF w, A, B
<1>5. IsFiniteSet(B) /\ Cardinality(B) \in Nat
  BY <1>3, FS_Subset, FS_CardinalityType
<1>6. /\ IsFiniteSet(Units(w, A)) /\ Cardinality(Units(w, A)) \in Nat
      /\ IsFiniteSet(Units(w, B)) /\ Cardinality(Units(w, B)) = Cardinality(B) * Fallback
  BY <1>1, <1>3, <1>5, EvenSum, UnitsAreFinite, HoursAssumption
<1>7. Units(w, S) = Units(w, A) \cup Units(w, B) /\ Units(w, A) \cap Units(w, B) = {}
  BY <1>3 DEF Units
<1>8. Cardinality(Units(w, S)) = Cardinality(Units(w, A)) + Cardinality(Units(w, B))
  <2> DEFINE X == Units(w, A)
             Y == Units(w, B)
  <2>1. Cardinality(X \cap Y) = 0
    BY <1>7, FS_EmptySet
  <2>2. IsFiniteSet(X) /\ IsFiniteSet(Y)
        /\ Cardinality(X) \in Nat /\ Cardinality(Y) \in Nat
    BY <1>6, FS_CardinalityType
  <2> HIDE DEF X, Y
  <2>3. Cardinality(X \cup Y) = Cardinality(X) + Cardinality(Y) - Cardinality(X \cap Y)
    BY <2>2, FS_Union
  <2>4. Cardinality(X \cup Y) = Cardinality(X) + Cardinality(Y)
    BY <2>1, <2>2, <2>3
  <2> QED BY <1>7, <2>4 DEF X, Y
<1>9. Cardinality(B) * Fallback = Fallback * Cardinality(B)
  BY <1>5, HoursAssumption
<1>10. Hours(S, NoOverride) = Weighed(A) + Fallback * Cardinality(B)
  BY <1>2, <1>4, <1>6, <1>8, <1>9
<1> QED BY <1>10 DEF A, B

(* A window of rows, each joined with the processes of its card.           *)
LEMMA JoinedRows ==
    ASSUME Stored, Logged, NEW c
    PROVE  /\ IsFiniteSet(Since(c))
           /\ \A j \in Since(c) : /\ j.row \in gpuSample /\ j.row.ts[1] >= c /\ j.mem \in Nat
                                  /\ j = [row |-> j.row, mem |-> Total(Own(j.row))]
<1> DEFINE R == {h \in gpuSample : h.ts[1] >= c}
           f == [g \in R |-> [row |-> g, mem |-> Total(Own(g))]]
<1>1. IsFiniteSet(R)
  BY RowsAreFinite, FS_Subset
<1>2. IsFiniteSet({f[g] : g \in R})
  <2>1. f = [g \in R |-> f[g]]
    OBVIOUS
  <2> HIDE DEF f, R
  <2> QED BY <1>1, <2>1, ImageIsFinite
<1>3. Since(c) = {f[g] : g \in R}
  BY DEF Since
<1>4. \A g \in gpuSample : Total(Own(g)) \in Nat
  <2> TAKE g \in gpuSample
  <2>1. Own(g) \in SUBSET procSample
    BY DEF Own
  <2>2. \A p \in procSample : p.mem \in Nat
    <3> TAKE r \in procSample
    <3>1. PICK l \in log : \E p \in l.snap.procs : r = ProcRow(l, p)
      BY DEF Stored
    <3>2. PICK p \in l.snap.procs : r = ProcRow(l, p)
      BY <3>1
    <3>3. p.mem \in Nat
      BY SnapshotAssumption DEF Logged, LoggedRow
    <3> QED BY <3>2, <3>3 DEF ProcRow
  <2>3. IsFiniteSet(Own(g))
    BY <2>1, RowsAreFinite, FS_Subset
  <2> QED BY <2>1, <2>2, <2>3, TotalIsUnits
<1>5. \A j \in Since(c) : \E g \in R : j = [row |-> g, mem |-> Total(Own(g))]
  BY DEF Since
<1>6. \A j \in Since(c) : /\ j.row \in gpuSample /\ j.row.ts[1] >= c /\ j.mem \in Nat
                          /\ j = [row |-> j.row, mem |-> Total(Own(j.row))]
  BY <1>4, <1>5
<1> QED BY <1>2, <1>3, <1>6

(* Two disjoint sets of joined rows are no more than the rows they join.   *)
LEMMA RowsBound ==
    ASSUME NEW A, NEW B, NEW R, IsFiniteSet(R), A \cap B = {},
           \A j \in A \cup B : j.row \in R,
           \A i, j \in A \cup B : i.row = j.row => i = j
    PROVE  /\ Cardinality(A) \in Nat /\ Cardinality(B) \in Nat /\ Cardinality(R) \in Nat
           /\ Cardinality(A) + Cardinality(B) <= Cardinality(R)
<1> DEFINE U == A \cup B
           f == [j \in U |-> j.row]
<1>1. f \in Injection(U, R)
  BY DEF Injection, IsInjective
<1>2. IsFiniteSet(U) /\ Cardinality(U) <= Cardinality(R)
  <2> HIDE DEF f, U
  <2> QED BY <1>1, FS_Injection
<1>3. IsFiniteSet(A) /\ IsFiniteSet(B)
  BY <1>2, FS_Subset
<1>4. Cardinality(U) = Cardinality(A) + Cardinality(B) - Cardinality(A \cap B)
  BY <1>3, FS_Union
<1>5. Cardinality(A \cap B) = 0
  BY FS_EmptySet
<1> HIDE DEF U
<1>6. /\ Cardinality(A) \in Nat /\ Cardinality(B) \in Nat /\ Cardinality(R) \in Nat
      /\ Cardinality(U) \in Nat
  BY <1>2, <1>3, FS_CardinalityType
<1> QED BY <1>2, <1>4, <1>5, <1>6

(* So is what they weigh.                                                  *)
LEMMA WeighedBound ==
    ASSUME Logged, NEW A, NEW B, NEW R, IsFiniteSet(R), A \cap B = {},
           \A j \in A \cup B : j.row \in R,
           \A i, j \in A \cup B : i.row = j.row => i = j
    PROVE  /\ Weighed(A) \in Nat /\ Weighed(B) \in Nat /\ RowsWorth(R) \in Nat
           /\ Weighed(A) + Weighed(B) <= RowsWorth(R)
<1> DEFINE U == A \cup B
           f == [j \in U |-> j.row]
           w == [j \in U |-> Weight(j.row.run, NoOverride)]
           v == [g \in R |-> Weight(g.run, NoOverride)]
           W == Units(w, U)
           V == Units(v, R)
           h == [u \in W |-> <<u[1].row, u[2]>>]
<1>1. IsFiniteSet(U)
  <2>1. f \in Injection(U, R)
    BY DEF Injection, IsInjective
  <2> HIDE DEF f, U
  <2> QED BY <2>1, FS_Injection
<1>2. w \in [U -> Nat] /\ v \in [R -> Nat]
  BY WeightIs
<1>3. A \in SUBSET U /\ B \in SUBSET U /\ R \in SUBSET R /\ U \in SUBSET U
  OBVIOUS
<1>4. \A j \in U : j.row \in R /\ w[j] = v[j.row]
  OBVIOUS
<1>5. /\ Weighed(A) = Cardinality(Units(w, A)) /\ Weighed(B) = Cardinality(Units(w, B))
      /\ RowsWorth(R) = Cardinality(V)
  <2>1. Units([j \in A |-> Weight(j.row.run, NoOverride)], A) = Units(w, A)
    BY UnitsAgree
  <2>2. Units([j \in B |-> Weight(j.row.run, NoOverride)], B) = Units(w, B)
    BY UnitsAgree
  <2> QED BY <2>1, <2>2 DEF Weighed, RowsWorth
<1>6. \A i, j \in U : i.row = j.row => i = j
  OBVIOUS
<1> HIDE DEF U, f, w, v
<1>7. \A u \in W : u = <<u[1], u[2]>> /\ u[1] \in U /\ u[2] \in 1 .. w[u[1]]
  BY DEF Units
<1>8. \A j \in R : \A i \in 1 .. v[j] : <<j, i>> \in V
  BY DEF Units
<1>9. h \in Injection(W, V)
  <2> HIDE DEF W, V
  <2>1. \A u \in W : h[u] = <<u[1].row, u[2]>> /\ h[u] \in V
    BY <1>4, <1>7, <1>8
  <2>2. h = [u \in W |-> h[u]]
    OBVIOUS
  <2> HIDE DEF h
  <2>3. h \in [W -> V]
    BY <2>1, <2>2
  <2>4. ASSUME NEW s \in W, NEW t \in W, h[s] = h[t]
        PROVE  s = t
    <3>1. s[1].row = t[1].row /\ s[2] = t[2]
      BY <2>1, <2>4
    <3>2. s[1] = t[1]
      BY <1>6, <1>7, <3>1
    <3> QED BY <1>7, <3>1, <3>2
  <2> QED BY <2>3, <2>4 DEF Injection, IsInjective
<1>10. IsFiniteSet(V) /\ Cardinality(V) \in Nat
  BY <1>2, <1>3, UnitsAreFinite
<1>11. Cardinality(W) <= Cardinality(V) /\ Cardinality(W) \in Nat
  <2>1. IsFiniteSet(W) /\ Cardinality(W) \in Nat
    BY <1>1, <1>2, <1>3, UnitsAreFinite
  <2> HIDE DEF W, V, h
  <2> QED BY <1>9, <1>10, <2>1, FS_Injection
<1>12. /\ IsFiniteSet(Units(w, A)) /\ Cardinality(Units(w, A)) \in Nat
       /\ IsFiniteSet(Units(w, B)) /\ Cardinality(Units(w, B)) \in Nat
  BY <1>1, <1>2, <1>3, UnitsAreFinite
<1>13. W = Units(w, A) \cup Units(w, B) /\ Units(w, A) \cap Units(w, B) = {}
  BY DEF Units, U
<1>14. Cardinality(W) = Cardinality(Units(w, A)) + Cardinality(Units(w, B))
  <2> DEFINE X == Units(w, A)
             Y == Units(w, B)
  <2>1. Cardinality(X \cap Y) = 0
    BY <1>13, FS_EmptySet
  <2>2. IsFiniteSet(X) /\ IsFiniteSet(Y)
        /\ Cardinality(X) \in Nat /\ Cardinality(Y) \in Nat
    BY <1>12
  <2> HIDE DEF X, Y
  <2>3. Cardinality(X \cup Y) = Cardinality(X) + Cardinality(Y) - Cardinality(X \cap Y)
    BY <2>2, FS_Union
  <2>4. Cardinality(X \cup Y) = Cardinality(X) + Cardinality(Y)
    BY <2>1, <2>2, <2>3
  <2> QED BY <1>13, <2>4 DEF X, Y
<1> HIDE DEF W, V
<1> QED BY <1>5, <1>10, <1>11, <1>12, <1>14

(* Some arithmetic.                                                        *)
LEMMA SumOfTwo ==
    ASSUME NEW f \in Nat, NEW a \in Nat, NEW b \in Nat, NEW m \in Nat,
           NEW x \in Nat, NEW y \in Nat, NEW o \in Nat, a + b <= m, x + y <= o
    PROVE  (a + f * x) + (b + f * y) <= m + f * o
<1>1. f * x + f * y = f * (x + y)
  OBVIOUS
<1>2. f * (x + y) <= f * o
  OBVIOUS
<1>3. f * x \in Int /\ f * y \in Int /\ f * o \in Int
  OBVIOUS
<1> QED BY <1>1, <1>2, <1>3

LEMMA PerCard ==
    ASSUME NEW m \in Nat, NEW k \in Nat, NEW d \in Nat, NEW t \in Int, m <= k * d, d <= t
    PROVE  m <= k * t
<1>1. k * d <= k * t
  OBVIOUS
<1>2. k * t \in Int /\ k * d \in Int
  OBVIOUS
<1> QED BY <1>1, <1>2

(* A finite set of numbers has a largest.                                  *)
LEMMA LargestIs ==
    ASSUME NEW S \in SUBSET Nat, IsFiniteSet(S), S # {}
    PROVE  Max(S) \in S /\ \A y \in S : Max(S) >= y
<1> DEFINE G == {T \in SUBSET S : T = {} \/ \E m \in T : \A y \in T : m >= y}
<1>1. {} \in G /\ G \in SUBSET (SUBSET S)
  OBVIOUS
<1>2. ASSUME NEW T \in SUBSET S, T # {}, \A x \in T : T \ {x} \in G
      PROVE  T \in G
  <2>1. PICK x \in T : T \ {x} \in G
    BY <1>2
  <2>2. x \in Nat
    OBVIOUS
  <2>3. CASE T \ {x} = {}
    BY <2>2, <2>3
  <2>4. CASE T \ {x} # {}
    <3>1. PICK m \in T \ {x} : \A y \in T \ {x} : m >= y
      BY <2>1, <2>4
    <3>2. m \in Nat /\ m \in T /\ \A y \in T : y \in Nat
      OBVIOUS
    <3>3. CASE m >= x
      BY <3>1, <3>2, <3>3
    <3>4. CASE ~(m >= x)
      <4>1. \A y \in T : x >= y
        BY <2>2, <3>1, <3>2, <3>4
      <4> QED BY <4>1
    <3> QED BY <3>3, <3>4
  <2> QED BY <2>3, <2>4
<1>3. S \in G
  <2> HIDE DEF G
  <2> QED BY <1>1, <1>2, OneByOne
<1>4. \E m \in S : \A y \in S : m >= y
  BY <1>3
<1> QED BY <1>4 DEF Max

LEMMA LongestIs ==
    ASSUME NEW Q, IsFiniteSet(Q), \A r \in Q : daemonRun[r] \in Nat
    PROVE  Longest(Q) \in Nat /\ AtLeast(Longest(Q), Q)
<1> DEFINE f == [r \in Q |-> daemonRun[r]]
           I == {daemonRun[r] : r \in Q}
           S == {0} \cup I
<1>1. IsFiniteSet(I)
  <2>1. f = [r \in Q |-> f[r]] /\ I = {f[r] : r \in Q}
    OBVIOUS
  <2> HIDE DEF f, I
  <2> QED BY <2>1, ImageIsFinite
<1>2. IsFiniteSet(S)
  <2> HIDE DEF I
  <2>1. IsFiniteSet(I \cup {0}) /\ S = I \cup {0}
    BY <1>1, FS_AddElement
  <2> QED BY <2>1
<1>3. S \in SUBSET Nat /\ S # {}
  OBVIOUS
<1>4. Max(S) \in Nat /\ \A y \in S : Max(S) >= y
  <2> HIDE DEF S
  <2> QED BY <1>2, <1>3, LargestIs
<1>5. Longest(Q) = Max(S)
  BY DEF Longest
<1> DEFINE m == Max(S)
<1>6. \A r \in Q : daemonRun[r] \in S
  OBVIOUS
<1>7. m \in Nat /\ \A r \in Q : daemonRun[r] <= m
  <2> SUFFICES ASSUME NEW r \in Q PROVE daemonRun[r] <= m
    BY <1>4
  <2>1. m \in Nat /\ m >= daemonRun[r] /\ daemonRun[r] \in Nat
    BY <1>4, <1>6
  <2> HIDE DEF m
  <2> QED BY <2>1
<1> HIDE DEF m
<1>8. Longest(Q) = m
  BY <1>5 DEF m
<1> QED BY <1>7, <1>8 DEF AtLeast

(* The intervals of a set of runs, summed.                                 *)
LEMMA IntervalsSum ==
    ASSUME NEW Q, IsFiniteSet(Q), \A r \in Q : daemonRun[r] \in Nat
    PROVE  MapThenSumSet(LAMBDA r : daemonRun[r], Q) = Taken(Q)
<1> DEFINE w == [r \in Q |-> daemonRun[r]]
           Rec(it) == it = [T \in SUBSET Q |-> IF T = {} THEN 0
                            ELSE daemonRun[CHOOSE x \in T : TRUE]
                                    + it[T \ {CHOOSE x \in T : TRUE}]]
           SumOf(it) == SumsUp(w, Q, it)
<1>1. MapThenSumSet(LAMBDA r : daemonRun[r], Q) = (CHOOSE it : Rec(it))[Q]
  BY DEF MapThenSumSet, MapThenFoldSet
<1>2. \A it : SumOf(it) <=> Rec(it)
  BY DEF SumsUp
<1>3. w \in [Q -> Nat]
  OBVIOUS
<1>4. \E it : SumOf(it)
  <2> HIDE DEF w
  <2> QED BY <1>3, SumExists
<1>5. SumOf(CHOOSE it : Rec(it))
  <2> HIDE DEF SumOf, Rec
  <2> QED BY <1>2, <1>4
<1>6. Taken(Q) = Cardinality(Units(w, Q))
  BY DEF Taken
<1> HIDE DEF w
<1>7. (CHOOSE it : Rec(it))[Q] = Cardinality(Units(w, Q))
  <2> HIDE DEF Rec
  <2>1. SumsUp(w, Q, CHOOSE it : Rec(it))
    BY <1>5
  <2> QED BY <1>3, <2>1, SumIsUnits
<1> QED BY <1>1, <1>6, <1>7

(* The idle rows of the daemon's own runs in a window: at most one per     *)
(* card and snapshot left since its start, and worth as much.              *)
LEMMA OwnRows ==
    ASSUME HInv, NEW c \in Nat, c <= now, NEW R \in SUBSET gpuSample,
           \A g \in R : g.ts[1] >= c /\ g.run # NoRun
    PROVE  LET cards == {g.gpu : g \in R}
               own == {g.run : g \in R}
           IN  /\ IsFiniteSet(R) /\ IsFiniteSet(cards) /\ IsFiniteSet(own)
               /\ own \in SUBSET (1 .. runs)
               /\ Taken(own) \in Nat /\ Longest(own) \in Nat
               /\ RowsWorth(R) <=
                    Cardinality(cards) * ((now - c) + Taken(own) + Longest(own))
<1> DEFINE cards == {g.gpu : g \in R}
           own == {g.run : g \in R}
           left == Left(c, own)
           v == [g \in R |-> Weight(g.run, NoOverride)]
           V == Units(v, R)
           w == [l \in left |-> l.every]
           W == Units(w, left)
<1>1. IsFiniteSet(R) /\ IsFiniteSet(log)
  BY RowsAreFinite, FS_Subset DEF HInv, Logged
<1>2. IsFiniteSet(cards) /\ IsFiniteSet(own)
  <2> DEFINE f == [g \in R |-> g.gpu]
             h == [g \in R |-> g.run]
  <2>1. f = [g \in R |-> f[g]] /\ h = [g \in R |-> h[g]]
        /\ cards = {f[g] : g \in R} /\ own = {h[g] : g \in R}
    OBVIOUS
  <2> HIDE DEF f, h, cards, own
  <2> QED BY <1>1, <2>1, ImageIsFinite
<1>3. ASSUME NEW g \in R
      PROVE  /\ g.run \in 1 .. runs
             /\ \E l \in left : g = Row(l, g.gpu) /\ l.every = v[g]
  <2>1. PICK l \in log, x \in Gpus : g = Row(l, x)
    BY DEF HInv, Stored
  <2>2. g.gpu = x /\ g.run = l.run /\ g.ts = l.ts
    BY <2>1 DEF Row
  <2>3. g.run \in own /\ g.ts[1] >= c /\ v[g] = Weight(g.run, NoOverride)
    OBVIOUS
  <2>4. LoggedRow(l) /\ l.run # NoRun
    BY <2>2 DEF HInv, Logged
  <2>5. l.run \in 1 .. runs /\ l.every = daemonRun[l.run]
    BY <2>4 DEF LoggedRow
  <2>6. Weight(l.run, NoOverride) = daemonRun[l.run]
    BY <2>5, WeightIs DEF HInv
  <2> HIDE DEF own, v
  <2>7. l \in left
    BY <2>2, <2>3 DEF Left
  <2> QED BY <2>1, <2>2, <2>3, <2>5, <2>6, <2>7
<1>4. own \in SUBSET (1 .. runs)
  BY <1>3
<1>5. /\ IsFiniteSet(left) /\ w \in [left -> Nat] /\ left \in SUBSET left
      /\ Worth(left) = Cardinality(W)
  <2>1. IsFiniteSet(left) /\ \A l \in left : l.every \in Nat
    <3> HIDE DEF own
    <3> QED BY LeftIsFinite DEF HInv
  <2> HIDE DEF left
  <2> QED BY <2>1 DEF Worth
<1>6. IsFiniteSet(W) /\ Cardinality(W) \in Nat
  <2> HIDE DEF left, w
  <2> QED BY <1>5, UnitsAreFinite
<1>7. v \in [R -> Nat] /\ R \in SUBSET R /\ RowsWorth(R) = Cardinality(V)
  BY WeightIs DEF HInv, RowsWorth
<1>8. IsFiniteSet(V) /\ Cardinality(V) \in Nat
  <2> HIDE DEF v
  <2> QED BY <1>1, <1>7, UnitsAreFinite
<1>9. /\ Cardinality(cards) \in Nat
      /\ Cardinality(V) <= Cardinality(cards) * Cardinality(W)
  <2> DEFINE P == cards \X W
             f == [x \in P |-> <<Row(x[2][1], x[1]), x[2][2]>>]
             T == {f[x] : x \in P}
  <2>1. V \in SUBSET T
    <3> SUFFICES ASSUME NEW u \in V PROVE u \in T
      OBVIOUS
    <3>1. PICK g \in R : u \in {g} \X (1 .. v[g])
      BY DEF Units
    <3>2. u = <<g, u[2]>> /\ u[2] \in 1 .. v[g] /\ g.gpu \in cards
      BY <3>1
    <3> HIDE DEF cards, left, v
    <3>3. PICK l \in left : g = Row(l, g.gpu) /\ l.every = v[g]
      BY <1>3
    <3>4. w[l] = v[g]
      BY <3>3
    <3>5. <<l, u[2]>> \in W
      <4>1. <<l, u[2]>> \in {l} \X (1 .. w[l])
        BY <3>2, <3>4
      <4> QED BY <4>1 DEF Units
    <3> HIDE DEF W, w
    <3>6. <<g.gpu, <<l, u[2]>>>> \in P /\ f[<<g.gpu, <<l, u[2]>>>>] = u
      BY <3>2, <3>3, <3>5
    <3> HIDE DEF P, f
    <3> QED BY <3>6
  <2> HIDE DEF cards, W, V
  <2>2. IsFiniteSet(P) /\ Cardinality(P) = Cardinality(cards) * Cardinality(W)
    BY <1>2, <1>6, FS_Product
  <2>3. f = [x \in P |-> f[x]]
    OBVIOUS
  <2> HIDE DEF P, f
  <2>4. IsFiniteSet(T) /\ Cardinality(T) <= Cardinality(P)
    BY <2>2, <2>3, ImageIsFinite
  <2> HIDE DEF T
  <2>5. Cardinality(V) <= Cardinality(T)
    BY <2>1, <2>4, FS_Subset
  <2>6. /\ Cardinality(V) \in Nat /\ Cardinality(cards) \in Nat
        /\ Cardinality(T) \in Nat /\ Cardinality(P) \in Nat
    BY <1>2, <1>8, <2>2, <2>4, FS_CardinalityType
  <2>7. Cardinality(V) <= Cardinality(P)
    BY <2>4, <2>5, <2>6
  <2> QED BY <2>2, <2>6, <2>7
<1> DEFINE k == Worth(left)
           q == Taken(own)
           x == Longest(own)
<1>10. q \in Nat /\ x \in Nat /\ AtLeast(x, own)
  <2>1. IsFiniteSet(own) /\ \A r \in own : daemonRun[r] \in Nat
    <3> HIDE DEF own
    <3> QED BY <1>4, RunsAreFinite DEF HInv
  <2> HIDE DEF own
  <2> QED BY <2>1, MemberCounts, LongestIs
<1>11. /\ now \in Nat /\ nextAt \in Nat /\ nextAt <= now + interval /\ interval \in Nat
  BY IntervalType DEF HInv, IInv, TypeOK, SlotsInOrder
<1>12. k <= (now - c) + q + x
  <2>1. k \in Nat
    BY <1>5, <1>6
  <2>2. CASE left = {}
    <3>1. W = {}
      BY <2>2 DEF Units
    <3>2. k = 0
      BY <1>5, <3>1, FS_EmptySet
    <3> HIDE DEF k, q, x
    <3> QED BY <1>10, <1>11, <3>2
  <2>3. CASE left # {}
    <3>1. k + interval <= (nextAt - c) + q + x \/ k <= (now - c) + q + x
      <4>1. PacedIn(c, own, x)
        <5> HIDE DEF own, x
        <5> QED BY <1>4, <1>10 DEF HInv, Paced
      <4> HIDE DEF own, x
      <4> QED BY <2>3, <4>1 DEF PacedIn
    <3> HIDE DEF k, q, x
    <3> QED BY <1>10, <1>11, <2>1, <3>1
  <2> QED BY <2>2, <2>3
<1>13. RowsWorth(R) <= Cardinality(cards) * ((now - c) + q + x)
  <2> DEFINE t == (now - c) + q + x
             d == Cardinality(W)
             m == Cardinality(V)
             a == Cardinality(cards)
  <2>1. t \in Int
    <3> HIDE DEF q, x
    <3> QED BY <1>10, <1>11
  <2>2. m \in Nat /\ a \in Nat /\ d \in Nat /\ m <= a * d /\ d <= t
    <3>1. k = d
      BY <1>5
    <3>2. d <= t
      BY <1>12, <3>1
    <3> QED BY <1>6, <1>8, <1>9, <3>2
  <2> HIDE DEF t, d, m, a
  <2>3. m <= a * t
    BY <2>1, <2>2, PerCard
  <2> QED BY <1>7, <2>3 DEF t, m, a
<1> QED BY <1>1, <1>2, <1>4, <1>10, <1>13

(* GPU-hours are time: the idle hours of a window are no more than what    *)
(* has passed of it on each card that was idle, the interval of each run   *)
(* and the longest of them for the slot the window cuts, and the fallback  *)
(* for each row of no run, whatever intervals the runs were given.         *)
THEOREM HoursAreTime == HSpec => []HoursWithinTime
<1>1. HInv => HoursWithinTime
  <2> SUFFICES ASSUME HInv, NEW c \in Cutoffs
               PROVE  LET in == {g \in gpuSample : g.ts[1] >= c /\ g.util < ActiveUtil}
                          cards == {g.gpu : g \in in}
                          own == {g.run : g \in in} \ {NoRun}
                          each == MapThenSumSet(LAMBDA r : daemonRun[r], own)
                          idle == IdleCapacity(Since(c), NoOverride)
                      IN  idle.held + idle.idle <=
                            Cardinality(cards) * ((now - c) + each + Longest(own))
                            + Fallback * Cardinality({g \in in : g.run = NoRun})
    BY DEF HoursWithinTime
  <2> DEFINE in == {g \in gpuSample : g.ts[1] >= c /\ g.util < ActiveUtil}
             cards == {g.gpu : g \in in}
             own == {g.run : g \in in} \ {NoRun}
             each == MapThenSumSet(LAMBDA r : daemonRun[r], own)
             R == {g \in in : g.run # NoRun}
             O == {g \in in : g.run = NoRun}
             H == IdleHeld(Since(c))
             T == TrulyIdle(Since(c))
  <2>1. c \in Nat /\ c <= now
    <3>1. PICK g \in gpuSample : c = g.ts[1]
      BY DEF Cutoffs
    <3>2. PICK l \in log, x \in Gpus : g = Row(l, x)
      BY DEF HInv, Stored
    <3>3. g.ts = l.ts /\ l.ts \in Nat \X Nat /\ l.ts[1] <= now
      BY <3>2 DEF HInv, Logged, LoggedRow, Row
    <3> QED BY <3>1, <3>3
  <2>2. /\ IsFiniteSet(Since(c))
        /\ \A j \in Since(c) : /\ j.row \in gpuSample /\ j.row.ts[1] >= c /\ j.mem \in Nat
                               /\ j = [row |-> j.row, mem |-> Total(Own(j.row))]
    BY <2>1, JoinedRows DEF HInv
  <2>3. H \in SUBSET Since(c) /\ T \in SUBSET Since(c) /\ IsFiniteSet(H) /\ IsFiniteSet(T)
    <3>1. H \in SUBSET Since(c) /\ T \in SUBSET Since(c)
      BY DEF IdleHeld, TrulyIdle
    <3> HIDE DEF H, T
    <3> QED BY <2>2, <3>1, FS_Subset
  <2>4. H \cap T = {}
    BY <2>2, HoursAssumption DEF IdleHeld, TrulyIdle
  <2>5. \A j \in H \cup T : j.row \in in
    BY <2>2 DEF IdleHeld, TrulyIdle
  <2>6. \A i, j \in H \cup T : i.row = j.row => i = j
    <3>1. \A j \in H \cup T : j = [row |-> j.row, mem |-> Total(Own(j.row))]
      BY <2>2, <2>3
    <3> HIDE DEF H, T
    <3> QED BY <3>1
  <2>7. IsFiniteSet(R) /\ IsFiniteSet(O)
    <3>1. R \in SUBSET gpuSample /\ O \in SUBSET gpuSample
      OBVIOUS
    <3> HIDE DEF R, O
    <3> QED BY <3>1, RowsAreFinite, FS_Subset DEF HInv
  <2> DEFINE HR == {j \in H : j.row.run # NoRun}
             TR == {j \in T : j.row.run # NoRun}
             HO == {j \in H : j.row.run = NoRun}
             TO == {j \in T : j.row.run = NoRun}
  <2>8. /\ Hours(H, NoOverride) = Weighed(HR) + Fallback * Cardinality(HO)
        /\ Hours(T, NoOverride) = Weighed(TR) + Fallback * Cardinality(TO)
    <3> HIDE DEF H, T
    <3> QED BY <2>3, HoursByRun DEF HInv
  <2>9. /\ Weighed(HR) \in Nat /\ Weighed(TR) \in Nat /\ RowsWorth(R) \in Nat
        /\ Weighed(HR) + Weighed(TR) <= RowsWorth(R)
    <3>1. HR \cap TR = {} /\ (\A j \in HR \cup TR : j.row \in R)
          /\ \A i, j \in HR \cup TR : i.row = j.row => i = j
      <4> HIDE DEF H, T, in
      <4> QED BY <2>4, <2>5, <2>6
    <3> HIDE DEF HR, TR, R
    <3> QED BY <2>7, <3>1, WeighedBound DEF HInv
  <2>10. /\ Cardinality(HO) \in Nat /\ Cardinality(TO) \in Nat /\ Cardinality(O) \in Nat
         /\ Cardinality(HO) + Cardinality(TO) <= Cardinality(O)
    <3>1. HO \cap TO = {} /\ (\A j \in HO \cup TO : j.row \in O)
          /\ \A i, j \in HO \cup TO : i.row = j.row => i = j
      <4> HIDE DEF H, T, in
      <4> QED BY <2>4, <2>5, <2>6
    <3> HIDE DEF HO, TO, O
    <3> QED BY <2>7, <3>1, RowsBound
  <2>11. Hours(H, NoOverride) + Hours(T, NoOverride)
            <= RowsWorth(R) + Fallback * Cardinality(O)
    <3> HIDE DEF HR, TR, HO, TO, R, O, H, T
    <3> QED BY <2>8, <2>9, <2>10, SumOfTwo, HoursAssumption
  <2> DEFINE rcards == {g.gpu : g \in R}
             t == (now - c) + each + Longest(own)
  <2>12. own = {g.run : g \in R}
    OBVIOUS
  <2>13. /\ IsFiniteSet(rcards) /\ IsFiniteSet(own) /\ own \in SUBSET (1 .. runs)
         /\ Taken(own) \in Nat /\ Longest(own) \in Nat
         /\ RowsWorth(R) <= Cardinality(rcards) * ((now - c) + Taken(own) + Longest(own))
    <3>1. R \in SUBSET gpuSample /\ \A g \in R : g.ts[1] >= c /\ g.run # NoRun
      OBVIOUS
    <3> HIDE DEF R, own
    <3> QED BY <2>1, <2>12, <3>1, OwnRows
  <2>14. each = Taken(own)
    <3> HIDE DEF own
    <3>1. \A r \in own : daemonRun[r] \in Nat
      BY <2>13, RunsAreFinite DEF HInv
    <3> QED BY <2>13, <3>1, IntervalsSum
  <2>15. IsFiniteSet(cards) /\ rcards \subseteq cards
    <3> DEFINE f == [g \in in |-> g.gpu]
    <3>1. IsFiniteSet(in)
      <4>1. in \in SUBSET gpuSample
        OBVIOUS
      <4> HIDE DEF in
      <4> QED BY <4>1, RowsAreFinite, FS_Subset DEF HInv
    <3>2. f = [g \in in |-> f[g]] /\ cards = {f[g] : g \in in}
      OBVIOUS
    <3>3. IsFiniteSet(cards)
      <4> HIDE DEF f, cards, in
      <4> QED BY <3>1, <3>2, ImageIsFinite
    <3>4. rcards \subseteq cards
      OBVIOUS
    <3> QED BY <3>3, <3>4
  <2>16. Cardinality(rcards) <= Cardinality(cards) /\ Cardinality(cards) \in Nat
         /\ Cardinality(rcards) \in Nat
    <3> HIDE DEF rcards, cards
    <3> QED BY <2>13, <2>15, FS_Subset, FS_CardinalityType
  <2>17. t \in Nat /\ RowsWorth(R) <= Cardinality(rcards) * t
    <3>1. now \in Nat
      BY DEF HInv, IInv, TypeOK
    <3> DEFINE a == Taken(own)
               b == Longest(own)
    <3>2. a \in Nat /\ b \in Nat /\ t = (now - c) + a + b
      BY <2>13, <2>14
    <3> HIDE DEF a, b, t
    <3>3. t \in Nat
      BY <2>1, <3>1, <3>2
    <3>4. t = (now - c) + Taken(own) + Longest(own)
      BY <3>2 DEF a, b
    <3> HIDE DEF R, own, rcards
    <3> QED BY <2>13, <3>3, <3>4
  <2>18. Cardinality(rcards) * t <= Cardinality(cards) * t
    <3> HIDE DEF rcards, cards, t
    <3> QED BY <2>16, <2>17
  <2>19. Hours(H, NoOverride) + Hours(T, NoOverride) <= Cardinality(cards) * t + Fallback * Cardinality(O)
    <3> DEFINE x == Hours(H, NoOverride) + Hours(T, NoOverride)
               y == RowsWorth(R)
               z == Fallback * Cardinality(O)
               u == Cardinality(rcards) * t
               v == Cardinality(cards) * t
    <3>1. x <= y + z /\ y <= u /\ u <= v
      BY <2>11, <2>17, <2>18
    <3>2. y \in Int /\ z \in Int /\ u \in Int /\ v \in Int
      <4> HIDE DEF t, rcards, cards, R, O
      <4> QED BY <2>9, <2>10, <2>16, <2>17, HoursAssumption
    <3>3. x \in Int
      <4> HIDE DEF H, T, HR, TR, HO, TO
      <4> QED BY <2>8, <2>9, <2>10, HoursAssumption
    <3> HIDE DEF x, y, z, u, v
    <3>4. x <= v + z
      BY <3>1, <3>2, <3>3
    <3> QED BY <3>4 DEF x, v, z
  <2>20. IdleCapacity(Since(c), NoOverride)
            = [held |-> Hours(H, NoOverride), idle |-> Hours(T, NoOverride)]
    BY DEF IdleCapacity
  <2> HIDE DEF H, T
  <2> QED BY <2>19, <2>20
<1> QED BY <1>1, HoursInvariance, PTL

-----------------------------------------------------------------------------
(* What is logged under a run at an instant.                               *)
Beside(at, r) == {l \in log : l.run = r /\ l.ts[1] = at}

(* Ranks number the snapshots of a run within an instant, so that run and  *)
(* timestamp tell any two apart.                                           *)
Ranked ==
    /\ \A l \in log : l.ts[2] < Cardinality(Beside(l.ts[1], l.run))
    /\ \A l, m \in log : l.ts = m.ts /\ l.run = m.run => l = m

LEMMA RankedWrite ==
    ASSUME Logged, Ranked, NEW at \in Nat, NEW r, NEW s, NEW v,
           Write(s, Stamp(at, r), r, v)
    PROVE  Ranked'
<1> DEFINE e == [ts |-> Stamp(at, r), run |-> r, every |-> v, snap |-> s]
           B == Beside(at, r)
<1>1. log' = log \cup {e} /\ e.run = r /\ e.ts = Stamp(at, r)
  BY DEF Write
<1>2. IsFiniteSet(B) /\ Cardinality(B) \in Nat
  <2>1. B \in SUBSET log
    BY DEF Beside
  <2> HIDE DEF B
  <2> QED BY <2>1, FS_Subset, FS_CardinalityType DEF Logged
<1>3. Stamp(at, r) = <<at, Cardinality(B)>>
  BY DEF Stamp, Beside
<1>4. e.ts[1] = at /\ e.ts[2] = Cardinality(B)
  BY <1>1, <1>3
<1> HIDE DEF e
<1>5. \A l \in log : l.run = r /\ l.ts[1] = at => l.ts[2] < Cardinality(B)
  BY DEF Ranked
<1>6. e \notin B
  <2>1. \A l \in B : l \in log /\ l.ts[2] < Cardinality(B)
    BY <1>5 DEF Beside
  <2> HIDE DEF B
  <2> QED BY <1>2, <1>4, <2>1
<1>7. Beside(at, r)' = B \cup {e}
  BY <1>1, <1>4 DEF Beside
<1>8. Cardinality(Beside(at, r)') = Cardinality(B) + 1
  <2> HIDE DEF B
  <2> QED BY <1>2, <1>6, <1>7, FS_AddElement
<1>9. ASSUME NEW l \in log'
      PROVE  l.ts[2] < Cardinality(Beside(l.ts[1], l.run)')
  <2>1. CASE l.run = r /\ l.ts[1] = at
    <3>1. l.ts[2] \in Nat /\ l.ts[2] <= Cardinality(B)
      <4>1. CASE l = e
        <5> HIDE DEF B
        <5> QED BY <1>2, <1>4, <4>1
      <4>2. CASE l \in log
        <5>1. l.ts \in Nat \X Nat
          BY <4>2 DEF Logged, LoggedRow
        <5>2. l.ts[2] < Cardinality(B)
          BY <1>5, <2>1, <4>2
        <5> HIDE DEF B
        <5> QED BY <1>2, <5>1, <5>2
      <4> QED BY <1>1, <4>1, <4>2
    <3>2. Cardinality(Beside(l.ts[1], l.run)') = Cardinality(B) + 1
      BY <1>8, <2>1
    <3> HIDE DEF B
    <3> QED BY <1>2, <3>1, <3>2
  <2>2. CASE ~(l.run = r /\ l.ts[1] = at)
    <3>1. l \in log
      BY <1>1, <1>4, <2>2
    <3>2. Beside(l.ts[1], l.run)' = Beside(l.ts[1], l.run)
      BY <1>1, <1>4, <2>2 DEF Beside
    <3> QED BY <3>1, <3>2 DEF Ranked
  <2> QED BY <2>1, <2>2
<1>10. ASSUME NEW l \in log', NEW m \in log', l.ts = m.ts, l.run = m.run
       PROVE  l = m
  <2>1. \A k \in log : ~(k.ts = e.ts /\ k.run = e.run)
    <3> SUFFICES ASSUME NEW k \in log, k.ts = e.ts, k.run = e.run PROVE FALSE
      OBVIOUS
    <3>1. k.ts[2] < Cardinality(B) /\ k.ts[2] = Cardinality(B)
      BY <1>1, <1>4, <1>5
    <3> HIDE DEF B
    <3> QED BY <1>2, <3>1
  <2>2. CASE l \in log /\ m \in log
    BY <1>10, <2>2 DEF Ranked
  <2> QED BY <1>1, <1>10, <2>1, <2>2
<1> QED BY <1>9, <1>10 DEF Ranked

LEMMA RankedStep ==
    ASSUME HInv, Ranked, [HNext]_hvars
    PROVE  Ranked'
<1>1. CASE UNCHANGED log
  BY <1>1 DEF Ranked, Beside
<1>2. CASE SampleEnds /\ ~UNCHANGED log
  <2>1. PICK s \in Snapshots : Write(s, Stamp(last, run), run, interval)
    BY <1>2 DEF SampleEnds, tables
  <2>2. last \in Nat
    BY <1>2 DEF SampleEnds, TickEnds, HInv, IInv, TypeOK, Logged
  <2> QED BY <2>1, <2>2, RankedWrite DEF HInv
<1>3. CASE OnceWrites
  <2>1. PICK at \in 0 .. now, s \in Snapshots : Write(s, Stamp(at, NoRun), NoRun, Fallback)
    BY <1>3 DEF OnceWrites
  <2>2. at \in Nat
    BY DEF HInv, IInv, TypeOK
  <2> QED BY <2>1, <2>2, RankedWrite DEF HInv
<1> QED BY <1>1, <1>2, <1>3 DEF HNext, SampleBegins, Rest, Relaunch, hvars, tables

LEMMA RankedInvariance == HSpec => [](HInv /\ Ranked)
<1>1. HInit => Ranked
  BY DEF HInit, Ranked
<1>2. HInv /\ Ranked /\ [HNext]_hvars => (HInv /\ Ranked)'
  BY HoursStep, RankedStep
<1> QED BY <1>1, <1>2, HoursInit, PTL DEF HSpec

-----------------------------------------------------------------------------
(* A set and its image under an injection.                                 *)
LEMMA SameSize ==
    ASSUME NEW A, IsFiniteSet(A), NEW f, f = [x \in A |-> f[x]],
           \A x, y \in A : f[x] = f[y] => x = y
    PROVE  /\ IsFiniteSet({f[x] : x \in A})
           /\ Cardinality({f[x] : x \in A}) = Cardinality(A)
<1> DEFINE B == {f[x] : x \in A}
<1>1. f \in [A -> B]
  BY Zenon
<1>2. \A b \in B : \E x \in A : f[x] = b
  OBVIOUS
<1> HIDE DEF B
<1>3. f \in Bijection(A, B)
  BY <1>1, <1>2 DEF Bijection, Injection, IsInjective, Surjection
<1>4. IsFiniteSet(B) /\ Cardinality(B) = Cardinality(A)
  BY <1>3, FS_Bijection DEF ExistsBijection
<1> QED BY <1>4 DEF B

(* Terms matched one to one have one sum.                                  *)
LEMMA SameSum ==
    ASSUME NEW A, IsFiniteSet(A), NEW f, f = [x \in A |-> f[x]],
           \A x, y \in A : f[x] = f[y] => x = y,
           NEW v \in [A -> Nat], NEW w, \A x \in A : w[f[x]] = v[x]
    PROVE  Cardinality(Units(w, {f[x] : x \in A})) = Cardinality(Units(v, A))
<1> DEFINE B == {f[x] : x \in A}
           U == Units(v, A)
           h == [u \in U |-> <<f[u[1]], u[2]>>]
<1>1. IsFiniteSet(U)
  BY UnitsAreFinite
<1>2. \A u \in U : u = <<u[1], u[2]>> /\ u[1] \in A /\ u[2] \in 1 .. v[u[1]]
  BY DEF Units
<1>3. \A x \in A : \A i \in 1 .. v[x] : <<x, i>> \in U
  BY DEF Units
<1>4. \A u \in U : h[u] = <<f[u[1]], u[2]>>
  OBVIOUS
<1>5. h = [u \in U |-> h[u]]
  OBVIOUS
<1> HIDE DEF U, h
<1>6. \A t, u \in U : h[t] = h[u] => t = u
  <2> SUFFICES ASSUME NEW t \in U, NEW u \in U, h[t] = h[u] PROVE t = u
    OBVIOUS
  <2>1. f[t[1]] = f[u[1]] /\ t[2] = u[2]
    BY <1>4
  <2>2. t[1] = u[1]
    BY <1>2, <2>1
  <2> QED BY <1>2, <2>1, <2>2
<1>7. Units(w, B) = {h[u] : u \in U}
  <2>1. ASSUME NEW z \in Units(w, B)
        PROVE  z \in {h[u] : u \in U}
    <3>1. PICK x \in A : z \in {f[x]} \X (1 .. w[f[x]])
      BY DEF Units
    <3>2. z = <<f[x], z[2]>> /\ z[2] \in 1 .. v[x]
      BY <3>1
    <3>3. <<x, z[2]>> \in U /\ h[<<x, z[2]>>] = z
      BY <1>3, <1>4, <3>2
    <3> QED BY <3>3
  <2>2. ASSUME NEW u \in U
        PROVE  h[u] \in Units(w, B)
    <3>1. u[1] \in A /\ u[2] \in 1 .. w[f[u[1]]]
      BY <1>2
    <3>2. f[u[1]] \in B
      BY <3>1
    <3> HIDE DEF B
    <3>3. <<f[u[1]], u[2]>> \in {f[u[1]]} \X (1 .. w[f[u[1]]])
      BY <3>1
    <3> QED BY <1>4, <3>2, <3>3 DEF Units
  <2> HIDE DEF B
  <2> QED BY <2>1, <2>2
<1>8. Cardinality({h[u] : u \in U}) = Cardinality(U)
  BY <1>1, <1>5, <1>6, SameSize
<1> HIDE DEF B
<1>9. Cardinality(Units(w, B)) = Cardinality(U)
  BY <1>7, <1>8
<1> QED BY <1>9 DEF B, U

(* A term for each member that is the same for all.                        *)
LEMMA UnitsCount ==
    ASSUME NEW A, IsFiniteSet(A), NEW w, \A x \in A : w[x] = 1
    PROVE  Cardinality(Units(w, A)) = Cardinality(A)
<1>1. Cardinality(Units(w, A)) = Cardinality(A) * 1
  BY EvenSum
<1>2. Cardinality(A) \in Nat
  BY FS_CardinalityType
<1> QED BY <1>1, <1>2

(* A sum of the verdicts' weights.                                         *)
LEMMA WeightsAreUnits ==
    ASSUME NEW S, IsFiniteSet(S), \A v \in S : WeightOf(v) \in Nat
    PROVE  MapThenSumSet(WeightOf, S) = Cardinality(Units([v \in S |-> WeightOf(v)], S))
<1> DEFINE w == [v \in S |-> WeightOf(v)]
           Rec(it) == it = [T \in SUBSET S |-> IF T = {} THEN 0
                            ELSE WeightOf(CHOOSE x \in T : TRUE)
                                    + it[T \ {CHOOSE x \in T : TRUE}]]
           SumOf(it) == SumsUp(w, S, it)
<1>1. MapThenSumSet(WeightOf, S) = (CHOOSE it : Rec(it))[S]
  BY DEF MapThenSumSet, MapThenFoldSet
<1>2. \A it : SumOf(it) <=> Rec(it)
  BY DEF SumsUp
<1>3. w \in [S -> Nat]
  OBVIOUS
<1>4. \E it : SumOf(it)
  <2> HIDE DEF w
  <2> QED BY <1>3, SumExists
<1>5. SumOf(CHOOSE it : Rec(it))
  <2> HIDE DEF SumOf, Rec
  <2> QED BY <1>2, <1>4
<1> HIDE DEF w
<1>6. (CHOOSE it : Rec(it))[S] = Cardinality(Units(w, S))
  <2> HIDE DEF Rec
  <2>1. SumsUp(w, S, CHOOSE it : Rec(it))
    BY <1>5
  <2> QED BY <1>3, <2>1, SumIsUnits
<1> QED BY <1>1, <1>6 DEF w

(* The rows of a snapshot's processes hold what the processes do.          *)
LEMMA SameTotal ==
    ASSUME Logged, NEW l \in log, NEW P \in SUBSET l.snap.procs
    PROVE  /\ Total({ProcRow(l, p) : p \in P}) = Total(P)
           /\ Total(P) \in Nat
<1> DEFINE f == [p \in P |-> ProcRow(l, p)]
           B == {f[p] : p \in P}
           v == [p \in P |-> p.mem]
           w == [q \in B |-> q.mem]
<1>1. IsFiniteSet(P)
  <2>1. IsFiniteSet(l.snap.procs)
    BY SnapshotAssumption DEF Logged, LoggedRow
  <2> QED BY <2>1, FS_Subset
<1>2. \A p \in P : p = [gpu |-> p.gpu, pid |-> p.pid, mem |-> p.mem, user |-> p.user]
                   /\ p.mem \in Nat
  BY SnapshotAssumption DEF Logged, LoggedRow
<1>3. \A p, q \in P : f[p] = f[q] => p = q
  <2> SUFFICES ASSUME NEW p \in P, NEW q \in P, ProcRow(l, p) = ProcRow(l, q) PROVE p = q
    OBVIOUS
  <2>1. p.gpu = q.gpu /\ p.pid = q.pid /\ p.mem = q.mem /\ p.user = q.user
    BY DEF ProcRow
  <2> QED BY <1>2, <2>1
<1>4. \A p \in P : f[p].mem = p.mem
  BY DEF ProcRow
<1>5. f = [p \in P |-> f[p]] /\ B = {ProcRow(l, p) : p \in P}
  OBVIOUS
<1>6. v \in [P -> Nat] /\ \A p \in P : v[p] = p.mem
  BY <1>2
<1> HIDE DEF f
<1>7. \A p \in P : w[f[p]] = v[p]
  BY <1>4
<1>8. \A q \in B : q.mem \in Nat
  BY <1>2, <1>4
<1>9. IsFiniteSet(B)
  BY <1>1, <1>3, <1>5, SameSize
<1>10. Cardinality(Units(w, B)) = Cardinality(Units(v, P))
  <2> HIDE DEF v, w
  <2> QED BY <1>1, <1>3, <1>5, <1>6, <1>7, SameSum
<1>11. Total(P) = Cardinality(Units(v, P)) /\ Total(P) \in Nat
  BY <1>1, <1>2, TotalIsUnits
<1>12. Total(B) = Cardinality(Units(w, B))
  <2> HIDE DEF B
  <2> QED BY <1>8, <1>9, TotalIsUnits
<1> HIDE DEF B, v, w
<1>13. Total(B) = Total(P)
  BY <1>10, <1>11, <1>12
<1> QED BY <1>5, <1>11, <1>13

-----------------------------------------------------------------------------
(* A verdict v is of a snapshot of the log and a card.                     *)
Window(c) == {v \in log \X Gpus : v[1].ts[1] >= c}
RowOf(v) == Row(v[1], v[2])
Here(v) == {p \in v[1].snap.procs : p.gpu = v[2]}
Joined(v) == [row |-> RowOf(v), mem |-> Total(Here(v))]

(* The query finds for a row the interval its sampler kept.                *)
LEMMA WeightsAgree ==
    ASSUME Logged, NEW v \in log \X Gpus
    PROVE  WeightOf(v) \in Nat /\ Weight(v[1].run, NoOverride) = WeightOf(v)
<1>1. PICK l \in log : l = v[1]
  OBVIOUS
<1>2. LoggedRow(l)
  BY DEF Logged
<1>3. l.every \in Nat /\ l.run \in Nat \cup {NoRun}
  BY <1>2 DEF LoggedRow
<1>4. CASE l.run = NoRun
  <2>1. NoRun \notin 1 .. runs
    <3>1. 1 .. runs \subseteq Nat
      BY DEF Logged
    <3> QED BY <3>1, HoursAssumption
  <2>2. Weight(l.run, NoOverride) = Fallback
    BY <1>4, <2>1, WeightIs
  <2> QED BY <1>1, <1>2, <1>3, <1>4, <2>2 DEF LoggedRow, WeightOf
<1>5. CASE l.run # NoRun
  <2>1. l.run \in 1 .. runs /\ l.every = daemonRun[l.run]
    BY <1>2, <1>5 DEF LoggedRow
  <2>2. Weight(l.run, NoOverride) = daemonRun[l.run]
    BY <2>1, WeightIs
  <2> QED BY <1>1, <1>3, <2>1, <2>2 DEF WeightOf
<1> QED BY <1>4, <1>5

LEMMA WindowIsFinite ==
    ASSUME Logged, NEW c, NEW V \in SUBSET Window(c)
    PROVE  IsFiniteSet(V) /\ Cardinality(V) \in Nat
<1>1. IsFiniteSet(log \X Gpus)
  BY FS_Product, HoursAssumption DEF Logged
<1>2. V \in SUBSET (log \X Gpus)
  BY DEF Window
<1> QED BY <1>1, <1>2, FS_Subset, FS_CardinalityType

(* A row tells the snapshot and the card it is of.                         *)
LEMMA RowTells ==
    ASSUME Ranked, NEW v \in log \X Gpus, NEW x \in log \X Gpus,
           RowOf(v).gpu = RowOf(x).gpu, RowOf(v).ts = RowOf(x).ts, RowOf(v).run = RowOf(x).run
    PROVE  v = x
<1>1. v = <<v[1], v[2]>> /\ x = <<x[1], x[2]>> /\ v[1] \in log /\ x[1] \in log
  OBVIOUS
<1>2. v[2] = x[2] /\ v[1].ts = x[1].ts /\ v[1].run = x[1].run
  BY DEF RowOf, Row
<1>3. v[1] = x[1]
  BY <1>1, <1>2 DEF Ranked
<1> QED BY <1>1, <1>2, <1>3

(* Of the rows that share card, timestamp and run with that of a verdict,  *)
(* each is of a process of that snapshot and card.                         *)
LEMMA RowsBeside ==
    ASSUME Stored, Ranked, NEW v \in log \X Gpus
    PROVE  {p \in procSample : p.gpu = v[2] /\ p.ts = v[1].ts /\ p.run = v[1].run}
                = {ProcRow(v[1], p) : p \in Here(v)}
<1> DEFINE L == {p \in procSample : p.gpu = v[2] /\ p.ts = v[1].ts /\ p.run = v[1].run}
           R == {ProcRow(v[1], p) : p \in Here(v)}
<1>1. v[1] \in log
  OBVIOUS
<1>2. ASSUME NEW r \in L
      PROVE  r \in R
  <2>1. PICK l \in log : \E p \in l.snap.procs : r = ProcRow(l, p)
    BY DEF Stored
  <2>2. PICK p \in l.snap.procs : r = ProcRow(l, p)
    BY <2>1
  <2>3. r.gpu = p.gpu /\ r.ts = l.ts /\ r.run = l.run
    BY <2>2 DEF ProcRow
  <2>4. l = v[1]
    BY <1>1, <2>3 DEF Ranked
  <2>5. p \in Here(v)
    BY <2>3, <2>4 DEF Here
  <2> QED BY <2>2, <2>4, <2>5
<1>3. ASSUME NEW p \in Here(v)
      PROVE  ProcRow(v[1], p) \in L
  <2>1. p \in v[1].snap.procs /\ p.gpu = v[2]
    BY DEF Here
  <2>2. ProcRow(v[1], p) \in procSample
    BY <1>1, <2>1 DEF Stored
  <2> QED BY <2>1, <2>2 DEF ProcRow
<1> HIDE DEF L
<1>4. L = R
  BY <1>2, <1>3
<1> QED BY <1>4 DEF L

(* The LEFT JOIN finds the memory the sampler saw on the card.             *)
LEMMA OwnMemory ==
    ASSUME Stored, Logged, Ranked, NEW v \in log \X Gpus
    PROVE  Total(Own(RowOf(v))) = Total(Here(v)) /\ Total(Here(v)) \in Nat
<1>1. Own(RowOf(v)) = {ProcRow(v[1], p) : p \in Here(v)}
  <2>1. RowOf(v).gpu = v[2] /\ RowOf(v).ts = v[1].ts /\ RowOf(v).run = v[1].run
    BY DEF RowOf, Row
  <2>2. Own(RowOf(v)) = {p \in procSample : p.gpu = v[2] /\ p.ts = v[1].ts /\ p.run = v[1].run}
    BY <2>1 DEF Own
  <2> QED BY <2>2, RowsBeside
<1>2. v[1] \in log /\ Here(v) \in SUBSET v[1].snap.procs
  BY DEF Here
<1> QED BY <1>1, <1>2, SameTotal

(* The common table s of a window: a row per verdict, ...                  *)
LEMMA SinceIsJoined ==
    ASSUME Stored, Logged, Ranked, NEW c
    PROVE  Since(c) = {Joined(v) : v \in Window(c)}
<1>1. ASSUME NEW j \in Since(c)
      PROVE  j \in {Joined(v) : v \in Window(c)}
  <2>1. PICK g \in gpuSample : g.ts[1] >= c /\ j = [row |-> g, mem |-> Total(Own(g))]
    BY DEF Since
  <2>2. PICK l \in log, x \in Gpus : g = Row(l, x)
    BY DEF Stored
  <2> DEFINE v == <<l, x>>
  <2>3. v \in log \X Gpus /\ RowOf(v) = g
    BY <2>2 DEF RowOf
  <2>4. v \in Window(c)
    BY <2>1, <2>2, <2>3 DEF Window, Row
  <2>5. j = Joined(v)
    <3> HIDE DEF v
    <3> QED BY <2>1, <2>3, OwnMemory DEF Joined
  <2> QED BY <2>4, <2>5
<1>2. ASSUME NEW v \in Window(c)
      PROVE  Joined(v) \in Since(c)
  <2>1. v \in log \X Gpus /\ v[1] \in log /\ v[2] \in Gpus /\ v[1].ts[1] >= c
    BY DEF Window
  <2>2. RowOf(v) \in gpuSample
    BY <2>1 DEF Stored, RowOf
  <2>3. RowOf(v).ts[1] >= c
    BY <2>1 DEF RowOf, Row
  <2>4. Joined(v) = [row |-> RowOf(v), mem |-> Total(Own(RowOf(v)))]
    BY <2>1, OwnMemory DEF Joined
  <2> QED BY <2>2, <2>3, <2>4 DEF Since
<1> QED BY <1>1, <1>2

(* ... that counts and weighs as the verdicts do.                          *)
LEMMA JoinedCounts ==
    ASSUME Stored, Logged, Ranked, NEW c, NEW V \in SUBSET Window(c)
    PROVE  LET J == {Joined(v) : v \in V}
           IN  /\ Cardinality(J) = Cardinality(V)
               /\ Hours(J, NoOverride) = MapThenSumSet(WeightOf, V)
               /\ Hours(J, 1) = Cardinality(V)
<1> DEFINE J == {Joined(v) : v \in V}
           f == [v \in V |-> Joined(v)]
           w == [v \in V |-> WeightOf(v)]
           z == [j \in J |-> Weight(j.row.run, NoOverride)]
           o == [j \in J |-> Weight(j.row.run, 1)]
<1>1. IsFiniteSet(V)
  BY WindowIsFinite
<1>2. V \in SUBSET (log \X Gpus)
  BY DEF Window
<1>3. f = [v \in V |-> f[v]] /\ J = {f[v] : v \in V}
  OBVIOUS
<1>4. \A v \in V : f[v] = Joined(v)
  OBVIOUS
<1>5. \A v, x \in V : f[v] = f[x] => v = x
  <2> SUFFICES ASSUME NEW v \in V, NEW x \in V, Joined(v) = Joined(x) PROVE v = x
    BY <1>4
  <2>1. RowOf(v) = RowOf(x)
    BY DEF Joined
  <2> QED BY <1>2, <2>1, RowTells
<1>6. \A v \in V : z[f[v]] = w[v]
  <2> TAKE v \in V
  <2>1. Joined(v).row.run = v[1].run
    BY DEF Joined, RowOf, Row
  <2>2. Joined(v) \in J
    OBVIOUS
  <2>3. z[Joined(v)] = Weight(Joined(v).row.run, NoOverride)
    BY <2>2
  <2>4. Weight(v[1].run, NoOverride) = WeightOf(v)
    BY <1>2, WeightsAgree
  <2> HIDE DEF z
  <2> QED BY <1>4, <2>1, <2>3, <2>4
<1>7. w \in [V -> Nat] /\ \A v \in V : WeightOf(v) \in Nat
  BY <1>2, WeightsAgree
<1>8. \A j \in J : Weight(j.row.run, NoOverride) \in Nat /\ Weight(j.row.run, 1) = 1
  <2>1. \A r : Weight(r, 1) = 1
    BY HoursAssumption DEF Weight
  <2>2. \A j \in J : Weight(j.row.run, NoOverride) \in Nat
    BY WeightIs
  <2> QED BY <2>1, <2>2
<1> HIDE DEF f
<1>9. IsFiniteSet(J) /\ Cardinality(J) = Cardinality(V)
  BY <1>1, <1>3, <1>5, SameSize
<1>10. Hours(J, NoOverride) = MapThenSumSet(WeightOf, V)
  <2>1. Cardinality(Units(z, J)) = Cardinality(Units(w, V))
    <3> HIDE DEF z, w, J
    <3> QED BY <1>1, <1>3, <1>5, <1>6, <1>7, SameSum
  <2>2. Hours(J, NoOverride) = Cardinality(Units(z, J))
    <3> HIDE DEF J
    <3> QED BY <1>8, <1>9, HoursAreUnits
  <2>3. MapThenSumSet(WeightOf, V) = Cardinality(Units(w, V))
    BY <1>1, <1>7, WeightsAreUnits
  <2> QED BY <2>1, <2>2, <2>3
<1>11. Hours(J, 1) = Cardinality(V)
  <2>1. Hours(J, 1) = Cardinality(Units(o, J))
    <3> HIDE DEF J
    <3> QED BY <1>8, <1>9, HoursAreUnits
  <2>2. \A j \in J : o[j] = 1
    BY <1>8
  <2>3. Cardinality(Units(o, J)) = Cardinality(J)
    <3> HIDE DEF J, o
    <3> QED BY <1>9, <2>2, UnitsCount
  <2> QED BY <1>9, <2>1, <2>3
<1> QED BY <1>9, <1>10, <1>11

(* Summarize's verdict is the branch of the queries the row falls in.      *)
LEMMA VerdictIsBranch ==
    ASSUME Stored, Logged, Ranked, NEW v \in log \X Gpus
    PROVE  LET j == Joined(v)
               k == Summarize(v[1].snap)[v[2]]
           IN  /\ k = "active" <=> j.row.util >= ActiveUtil
               /\ k = "idle-held" <=> j.row.util < ActiveUtil /\ j.mem > MemFloor
               /\ k = "truly-idle" <=> j.row.util < ActiveUtil /\ j.mem <= MemFloor
<1> DEFINE u == v[1].snap.util[v[2]]
           m == Total(Here(v))
<1>1. v[1] \in log /\ v[2] \in Gpus
  OBVIOUS
<1>2. u \in Nat
  <2>1. v[1].snap \in Snapshots
    BY <1>1 DEF Logged, LoggedRow
  <2> QED BY <1>1, <2>1, SnapshotAssumption
<1>3. m \in Nat
  BY OwnMemory
<1>4. Summarize(v[1].snap)[v[2]] = Classify(u, m)
  BY <1>1 DEF Summarize, Here
<1>5. Joined(v).row.util = u /\ Joined(v).mem = m
  BY DEF Joined, RowOf, Row
<1> HIDE DEF u, m
<1>6. /\ Classify(u, m) = "active" <=> u >= ActiveUtil
      /\ Classify(u, m) = "idle-held" <=> u < ActiveUtil /\ m > MemFloor
      /\ Classify(u, m) = "truly-idle" <=> u < ActiveUtil /\ m <= MemFloor
  BY <1>2, <1>3, HoursAssumption DEF Classify
<1> QED BY <1>4, <1>5, <1>6

LEMMA BranchesAreVerdicts ==
    ASSUME Stored, Logged, Ranked, NEW c
    PROVE  /\ Active(Since(c)) = {Joined(v) : v \in VerdictsOf(c, "active")}
           /\ IdleHeld(Since(c)) = {Joined(v) : v \in VerdictsOf(c, "idle-held")}
           /\ TrulyIdle(Since(c)) = {Joined(v) : v \in VerdictsOf(c, "truly-idle")}
           /\ \A k : VerdictsOf(c, k) \in SUBSET Window(c)
<1> DEFINE Verdict(v) == Summarize(v[1].snap)[v[2]]
<1>1. Since(c) = {Joined(v) : v \in Window(c)}
  BY SinceIsJoined
<1>2. \A v \in Window(c) :
         /\ Verdict(v) = "active" <=> Joined(v).row.util >= ActiveUtil
         /\ Verdict(v) = "idle-held" <=> Joined(v).row.util < ActiveUtil /\ Joined(v).mem > MemFloor
         /\ Verdict(v) = "truly-idle" <=> Joined(v).row.util < ActiveUtil /\ Joined(v).mem <= MemFloor
  BY VerdictIsBranch DEF Window
<1>3. \A k : VerdictsOf(c, k) = {v \in Window(c) : Verdict(v) = k}
  BY DEF VerdictsOf, Window
<1> HIDE DEF Verdict
<1>4. Active(Since(c)) = {Joined(v) : v \in VerdictsOf(c, "active")}
  BY <1>1, <1>2, <1>3 DEF Active
<1>5. IdleHeld(Since(c)) = {Joined(v) : v \in VerdictsOf(c, "idle-held")}
  BY <1>1, <1>2, <1>3 DEF IdleHeld
<1>6. TrulyIdle(Since(c)) = {Joined(v) : v \in VerdictsOf(c, "truly-idle")}
  BY <1>1, <1>2, <1>3 DEF TrulyIdle
<1> QED BY <1>3, <1>4, <1>5, <1>6

(* The headline, the idle capacity and the table per card are those of the *)
(* verdicts.                                                               *)
LEMMA CardsMatch ==
    ASSUME Stored, Logged, Ranked, NEW c
    PROVE  CardTotals(c)
<1> DEFINE S == Since(c)
           act == VerdictsOf(c, "active")
           held == VerdictsOf(c, "idle-held")
           idle == VerdictsOf(c, "truly-idle")
<1>1. /\ Active(S) = {Joined(v) : v \in act}
      /\ IdleHeld(S) = {Joined(v) : v \in held}
      /\ TrulyIdle(S) = {Joined(v) : v \in idle}
      /\ act \in SUBSET Window(c) /\ held \in SUBSET Window(c) /\ idle \in SUBSET Window(c)
  BY BranchesAreVerdicts
<1> HIDE DEF act, held, idle
<1>2. Cardinality(Active(S)) = Cardinality(act)
  BY <1>1, JoinedCounts
<1>3. /\ Cardinality(IdleHeld(S)) = Cardinality(held)
      /\ Hours(IdleHeld(S), NoOverride) = MapThenSumSet(WeightOf, held)
      /\ Hours(IdleHeld(S), 1) = Cardinality(held)
  BY <1>1, JoinedCounts
<1>4. /\ Cardinality(TrulyIdle(S)) = Cardinality(idle)
      /\ Hours(TrulyIdle(S), NoOverride) = MapThenSumSet(WeightOf, idle)
      /\ Hours(TrulyIdle(S), 1) = Cardinality(idle)
  BY <1>1, JoinedCounts
<1>5. ASSUME NEW g \in Gpus
      PROVE  PerGpu(S, g).held = Cardinality({v \in held : v[2] = g})
  <2> DEFINE V == {v \in held : v[2] = g}
  <2>1. PerGpu(S, g).held = Cardinality(IdleHeld({j \in S : j.row.gpu = g}))
    BY DEF PerGpu, Headline
  <2>2. IdleHeld({j \in S : j.row.gpu = g}) = {j \in IdleHeld(S) : j.row.gpu = g}
    BY DEF IdleHeld
  <2>3. \A v : Joined(v).row.gpu = v[2]
    BY DEF Joined, RowOf, Row
  <2>4. {j \in IdleHeld(S) : j.row.gpu = g} = {Joined(v) : v \in V}
    BY <1>1, <2>3
  <2>5. V \in SUBSET Window(c)
    BY <1>1
  <2> HIDE DEF V
  <2>6. Cardinality({Joined(v) : v \in V}) = Cardinality(V)
    BY <2>5, JoinedCounts
  <2> QED BY <2>1, <2>2, <2>4, <2>6 DEF V
<1>6. Headline(S) = [active |-> Cardinality(act), held |-> Cardinality(held),
                     idle |-> Cardinality(idle)]
  BY <1>2, <1>3, <1>4 DEF Headline
<1>7. /\ IdleCapacity(S, NoOverride) = [held |-> MapThenSumSet(WeightOf, held),
                                        idle |-> MapThenSumSet(WeightOf, idle)]
      /\ IdleCapacity(S, 1) = [held |-> Cardinality(held), idle |-> Cardinality(idle)]
  <2>1. \A o : IdleCapacity(S, o) = [held |-> Hours(IdleHeld(S), o), idle |-> Hours(TrulyIdle(S), o)]
    BY DEF IdleCapacity
  <2>2. IdleCapacity(S, NoOverride)
            = [held |-> Hours(IdleHeld(S), NoOverride), idle |-> Hours(TrulyIdle(S), NoOverride)]
    BY <2>1, Zenon
  <2>3. IdleCapacity(S, 1) = [held |-> Hours(IdleHeld(S), 1), idle |-> Hours(TrulyIdle(S), 1)]
    BY <2>1, Zenon
  <2> QED BY <1>3, <1>4, <2>2, <2>3, Zenon
<1> QED BY <1>5, <1>6, <1>7 DEF CardTotals, act, held, idle

-----------------------------------------------------------------------------
(* A user's processes on the card of a verdict, the verdicts where there   *)
(* are any, and what the query makes of one.                               *)
Theirs(v, u) == {p \in v[1].snap.procs : p.gpu = v[2] /\ p.user = u}
There(c, u) == {v \in log \X Gpus : v[1].ts[1] >= c /\ Theirs(v, u) # {}}
Entry(v, u) ==
    [gpu |-> v[2], ts |-> v[1].ts, run |-> v[1].run, mem |-> Total(Theirs(v, u))]
Mine(c, u) == {p \in procSample : p.user = u /\ p.ts[1] >= c}
Seen(c, u) == {<<Entry(v, u), RowOf(v)>> : v \in There(c, u)}

(* The user's rows beside a verdict hold what the processes do.            *)
LEMMA MineBeside ==
    ASSUME Stored, Logged, Ranked, NEW c, NEW u, NEW v \in Window(c)
    PROVE  /\ Total({q \in Mine(c, u) : q.gpu = v[2] /\ q.ts = v[1].ts /\ q.run = v[1].run})
                = Total(Theirs(v, u))
           /\ Total(Theirs(v, u)) \in Nat
<1> DEFINE M == {q \in Mine(c, u) : q.gpu = v[2] /\ q.ts = v[1].ts /\ q.run = v[1].run}
           B == {p \in procSample : p.gpu = v[2] /\ p.ts = v[1].ts /\ p.run = v[1].run}
<1>1. v \in log \X Gpus /\ v[1] \in log /\ v[1].ts[1] >= c
  BY DEF Window
<1>2. B = {ProcRow(v[1], p) : p \in Here(v)}
  BY <1>1, RowsBeside
<1>3. M = {q \in B : q.user = u}
  BY <1>1 DEF Mine
<1> HIDE DEF M, B
<1>4. \A p : ProcRow(v[1], p).user = p.user
  BY DEF ProcRow
<1>5. Theirs(v, u) = {p \in Here(v) : p.user = u}
  BY DEF Theirs, Here
<1>6. M = {ProcRow(v[1], p) : p \in Theirs(v, u)}
  BY <1>2, <1>3, <1>4, <1>5
<1>7. Theirs(v, u) \in SUBSET v[1].snap.procs
  BY DEF Theirs
<1>8. Total(M) = Total(Theirs(v, u)) /\ Total(Theirs(v, u)) \in Nat
  BY <1>1, <1>6, <1>7, SameTotal
<1> QED BY <1>8 DEF M

(* The rows by card, tick and run: an entry per verdict.                   *)
LEMMA OwnedEntries ==
    ASSUME Stored, Logged, Ranked, NEW c, NEW u
    PROVE  Owned(u, c) = {Entry(v, u) : v \in There(c, u)}
<1> DEFINE Group(p) ==
        [gpu |-> p.gpu, ts |-> p.ts, run |-> p.run,
         mem |-> Total({q \in Mine(c, u) : q.gpu = p.gpu /\ q.ts = p.ts /\ q.run = p.run})]
<1>1. Owned(u, c) = {Group(p) : p \in Mine(c, u)}
  BY DEF Owned, Mine
<1>2. There(c, u) \in SUBSET Window(c)
  BY DEF There, Window
<1>3. ASSUME NEW v \in Window(c), NEW p \in Theirs(v, u)
      PROVE  Group(ProcRow(v[1], p)) = Entry(v, u)
  <2>1. ProcRow(v[1], p).gpu = v[2] /\ ProcRow(v[1], p).ts = v[1].ts
        /\ ProcRow(v[1], p).run = v[1].run
    BY DEF ProcRow, Theirs
  <2>2. Total({q \in Mine(c, u) : q.gpu = v[2] /\ q.ts = v[1].ts /\ q.run = v[1].run})
            = Total(Theirs(v, u))
    BY MineBeside
  <2> QED BY <2>1, <2>2 DEF Entry
<1>4. ASSUME NEW r \in Mine(c, u)
      PROVE  \E v \in There(c, u) : Group(r) = Entry(v, u)
  <2>1. r \in procSample /\ r.user = u /\ r.ts[1] >= c
    BY DEF Mine
  <2>2. PICK l \in log : \E p \in l.snap.procs : r = ProcRow(l, p)
    BY <2>1 DEF Stored
  <2>3. PICK p \in l.snap.procs : r = ProcRow(l, p)
    BY <2>2
  <2>4. p.gpu \in Gpus
    BY SnapshotAssumption DEF Logged, LoggedRow
  <2>5. p.user = u /\ l.ts[1] >= c
    BY <2>1, <2>3 DEF ProcRow
  <2> DEFINE v == <<l, p.gpu>>
  <2>6. v \in log \X Gpus /\ v[1] = l /\ v[2] = p.gpu
    BY <2>4
  <2> HIDE DEF v
  <2>7. p \in Theirs(v, u)
    BY <2>5, <2>6 DEF Theirs
  <2>8. v \in There(c, u)
    BY <2>5, <2>6, <2>7 DEF There
  <2>9. Group(r) = Entry(v, u)
    <3> HIDE DEF Group
    <3> QED BY <1>2, <1>3, <2>3, <2>6, <2>7, <2>8
  <2> QED BY <2>8, <2>9
<1>5. ASSUME NEW v \in There(c, u)
      PROVE  \E r \in Mine(c, u) : Group(r) = Entry(v, u)
  <2>1. PICK p \in Theirs(v, u) : TRUE
    BY DEF There
  <2>2. v[1] \in log /\ v[1].ts[1] >= c /\ p \in v[1].snap.procs /\ p.user = u
    BY DEF There, Theirs
  <2>3. ProcRow(v[1], p) \in procSample
    BY <2>2 DEF Stored
  <2>4. ProcRow(v[1], p) \in Mine(c, u)
    BY <2>2, <2>3 DEF Mine, ProcRow
  <2> HIDE DEF Group
  <2> QED BY <1>2, <1>3, <2>4
<1> HIDE DEF Group
<1> QED BY <1>1, <1>4, <1>5

(* Joined with the load, each meets the row of its verdict alone.          *)
LEMMA SeenEntries ==
    ASSUME Stored, Logged, Ranked, NEW c, NEW u
    PROVE  UNION {{<<o, g>> : g \in {h \in {g \in gpuSample : g.ts[1] >= c} :
                                        h.gpu = o.gpu /\ h.ts = o.ts /\ h.run = o.run}} :
                        o \in Owned(u, c)} = Seen(c, u)
<1> DEFINE Loads(o) == {h \in {g \in gpuSample : g.ts[1] >= c} :
                            h.gpu = o.gpu /\ h.ts = o.ts /\ h.run = o.run}
           Pairs(o) == {<<o, g>> : g \in Loads(o)}
<1>1. ASSUME NEW v \in There(c, u)
      PROVE  Loads(Entry(v, u)) = {RowOf(v)}
  <2>1. v \in log \X Gpus /\ v[1] \in log /\ v[2] \in Gpus /\ v[1].ts[1] >= c
    BY DEF There
  <2>2. /\ Entry(v, u).gpu = RowOf(v).gpu /\ Entry(v, u).ts = RowOf(v).ts
        /\ Entry(v, u).run = RowOf(v).run
    BY DEF Entry, RowOf, Row
  <2>3. RowOf(v) \in gpuSample /\ RowOf(v).ts[1] >= c
    BY <2>1 DEF Stored, RowOf, Row
  <2>4. ASSUME NEW h \in Loads(Entry(v, u))
        PROVE  h = RowOf(v)
    <3>1. h \in gpuSample /\ h.gpu = RowOf(v).gpu /\ h.ts = RowOf(v).ts /\ h.run = RowOf(v).run
      BY <2>2
    <3>2. PICK l \in log, x \in Gpus : h = Row(l, x)
      BY <3>1 DEF Stored
    <3> DEFINE z == <<l, x>>
    <3>3. z \in log \X Gpus /\ h = RowOf(z)
      BY <3>2 DEF RowOf
    <3> HIDE DEF z
    <3>4. z = v
      BY <2>1, <3>1, <3>3, RowTells
    <3> QED BY <3>3, <3>4
  <2>5. RowOf(v) \in Loads(Entry(v, u))
    BY <2>2, <2>3
  <2> HIDE DEF Loads
  <2> QED BY <2>4, <2>5
<1> HIDE DEF Loads
<1>2. \A v \in There(c, u) : Pairs(Entry(v, u)) = {<<Entry(v, u), RowOf(v)>>}
  BY <1>1
<1>3. Owned(u, c) = {Entry(v, u) : v \in There(c, u)}
  BY OwnedEntries
<1>4. UNION {Pairs(o) : o \in Owned(u, c)} = Seen(c, u)
  <2> HIDE DEF Pairs
  <2> QED BY <1>2, <1>3 DEF Seen
<1> QED BY <1>4 DEF Pairs, Loads

(* What a user is charged for.                                             *)
Charges(S) == MapThenSumSet(LAMBDA j : Weight(j[1].run, NoOverride), S)

LEMMA ChargesAreUnits ==
    ASSUME Logged, NEW S, IsFiniteSet(S)
    PROVE  Charges(S)
                = Cardinality(Units([j \in S |-> Weight(j[1].run, NoOverride)], S))
<1> DEFINE w == [j \in S |-> Weight(j[1].run, NoOverride)]
           Rec(it) == it = [T \in SUBSET S |-> IF T = {} THEN 0
                            ELSE Weight((CHOOSE x \in T : TRUE)[1].run, NoOverride)
                                    + it[T \ {CHOOSE x \in T : TRUE}]]
           SumOf(it) == SumsUp(w, S, it)
<1>1. Charges(S) = (CHOOSE it : Rec(it))[S]
  BY DEF Charges, MapThenSumSet, MapThenFoldSet
<1>2. \A it : SumOf(it) <=> Rec(it)
  BY DEF SumsUp
<1>3. w \in [S -> Nat]
  BY WeightIs
<1>4. \E it : SumOf(it)
  <2> HIDE DEF w
  <2> QED BY <1>3, SumExists
<1>5. SumOf(CHOOSE it : Rec(it))
  <2> HIDE DEF SumOf, Rec
  <2> QED BY <1>2, <1>4
<1> HIDE DEF w
<1>6. (CHOOSE it : Rec(it))[S] = Cardinality(Units(w, S))
  <2> HIDE DEF Rec
  <2>1. SumsUp(w, S, CHOOSE it : Rec(it))
    BY <1>5
  <2> QED BY <1>3, <2>1, SumIsUnits
<1> QED BY <1>1, <1>6 DEF w

LEMMA EntriesCount ==
    ASSUME Stored, Logged, Ranked, NEW c, NEW u, NEW V \in SUBSET There(c, u)
    PROVE  /\ Cardinality({<<Entry(v, u), RowOf(v)>> : v \in V}) = Cardinality(V)
           /\ Charges({<<Entry(v, u), RowOf(v)>> : v \in V}) = MapThenSumSet(WeightOf, V)
<1> DEFINE f == [v \in V |-> <<Entry(v, u), RowOf(v)>>]
           J == {<<Entry(v, u), RowOf(v)>> : v \in V}
           w == [v \in V |-> WeightOf(v)]
           z == [j \in J |-> Weight(j[1].run, NoOverride)]
<1>1. V \in SUBSET Window(c) /\ V \in SUBSET (log \X Gpus)
  BY DEF There, Window
<1>2. IsFiniteSet(V)
  BY <1>1, WindowIsFinite
<1>3. f = [v \in V |-> f[v]] /\ J = {f[v] : v \in V}
  OBVIOUS
<1>4. \A v, x \in V : f[v] = f[x] => v = x
  <2> SUFFICES ASSUME NEW v \in V, NEW x \in V, RowOf(v) = RowOf(x) PROVE v = x
    OBVIOUS
  <2> QED BY <1>1, RowTells
<1>5. \A v \in V : z[f[v]] = w[v]
  <2> TAKE v \in V
  <2>1. Entry(v, u).run = v[1].run
    BY DEF Entry
  <2>2. <<Entry(v, u), RowOf(v)>> \in J /\ f[v] = <<Entry(v, u), RowOf(v)>>
    OBVIOUS
  <2>3. z[<<Entry(v, u), RowOf(v)>>] = Weight(Entry(v, u).run, NoOverride)
    BY <2>2
  <2>4. Weight(v[1].run, NoOverride) = WeightOf(v)
    BY <1>1, WeightsAgree
  <2> HIDE DEF J, f, z
  <2> QED BY <2>1, <2>2, <2>3, <2>4
<1>6. w \in [V -> Nat] /\ \A v \in V : WeightOf(v) \in Nat
  BY <1>1, WeightsAgree
<1> HIDE DEF f, J
<1>7. IsFiniteSet(J) /\ Cardinality(J) = Cardinality(V)
  BY <1>2, <1>3, <1>4, SameSize
<1>8. Charges(J) = MapThenSumSet(WeightOf, V)
  <2>1. Cardinality(Units(z, J)) = Cardinality(Units(w, V))
    <3> HIDE DEF z, w
    <3> QED BY <1>2, <1>3, <1>4, <1>5, <1>6, SameSum
  <2>2. Charges(J) = Cardinality(Units(z, J))
    BY <1>7, ChargesAreUnits
  <2>3. MapThenSumSet(WeightOf, V) = Cardinality(Units(w, V))
    BY <1>2, <1>6, WeightsAreUnits
  <2> QED BY <2>1, <2>2, <2>3
<1> QED BY <1>7, <1>8 DEF J

(* The table of the users is that of the verdicts on their own memory.     *)
LEMMA UsersMatch ==
    ASSUME Stored, Logged, Ranked, NEW c, NEW u
    PROVE  UserTotals(c, u)
<1> DEFINE there == There(c, u)
           held == {v \in there :
                        Classify(v[1].snap.util[v[2]], Total(Theirs(v, u))) = "idle-held"}
           seen == Seen(c, u)
           heldSeen == {j \in seen : j[2].util < ActiveUtil /\ j[1].mem > MemFloor}
<1>1. TopIdentity(u, c, NoOverride) =
        [hours |-> Charges(seen), held |-> Cardinality(heldSeen), samples |-> Cardinality(seen)]
  <2> DEFINE joined == UNION {{<<o, g>> : g \in {h \in {g \in gpuSample : g.ts[1] >= c} :
                                        h.gpu = o.gpu /\ h.ts = o.ts /\ h.run = o.run}} :
                        o \in Owned(u, c)}
  <2>1. TopIdentity(u, c, NoOverride) =
        [hours |-> Charges(joined),
         held |-> Cardinality({j \in joined : j[2].util < ActiveUtil /\ j[1].mem > MemFloor}),
         samples |-> Cardinality(joined)]
    BY DEF TopIdentity, Charges
  <2>2. joined = seen
    BY SeenEntries
  <2> HIDE DEF joined, seen
  <2> QED BY <2>1, <2>2
<1>2. heldSeen = {<<Entry(v, u), RowOf(v)>> : v \in held}
  <2>1. ASSUME NEW v \in there
        PROVE  Classify(v[1].snap.util[v[2]], Total(Theirs(v, u))) = "idle-held"
                    <=> RowOf(v).util < ActiveUtil /\ Entry(v, u).mem > MemFloor
    <3>1. v \in Window(c) /\ v[1] \in log /\ v[2] \in Gpus
      BY DEF There, Window
    <3> DEFINE m == Total(Theirs(v, u))
               x == v[1].snap.util[v[2]]
    <3>2. m \in Nat /\ RowOf(v).util = x /\ Entry(v, u).mem = m
      BY <3>1, MineBeside DEF RowOf, Row, Entry
    <3>3. x \in Nat
      <4>1. v[1].snap \in Snapshots
        BY <3>1 DEF Logged, LoggedRow
      <4> QED BY <3>1, <4>1, SnapshotAssumption
    <3> HIDE DEF m, x
    <3>4. Classify(x, m) = "idle-held" <=> x < ActiveUtil /\ m > MemFloor
      BY <3>2, <3>3, HoursAssumption DEF Classify
    <3> QED BY <3>2, <3>4 DEF m, x
  <2>2. seen = {<<Entry(v, u), RowOf(v)>> : v \in there}
    BY DEF Seen
  <2> HIDE DEF there, seen
  <2> QED BY <2>1, <2>2
<1>3. /\ Cardinality(seen) = Cardinality(there)
      /\ Charges(seen) = MapThenSumSet(WeightOf, there)
  <2>1. there \in SUBSET There(c, u) /\ seen = {<<Entry(v, u), RowOf(v)>> : v \in there}
    BY DEF Seen
  <2> HIDE DEF there, seen
  <2>2. /\ Cardinality({<<Entry(v, u), RowOf(v)>> : v \in there}) = Cardinality(there)
        /\ Charges({<<Entry(v, u), RowOf(v)>> : v \in there}) = MapThenSumSet(WeightOf, there)
    BY <2>1, EntriesCount
  <2> QED BY <2>1, <2>2
<1>4. Cardinality(heldSeen) = Cardinality(held)
  <2>1. held \in SUBSET There(c, u)
    OBVIOUS
  <2> HIDE DEF held, heldSeen
  <2>2. Cardinality({<<Entry(v, u), RowOf(v)>> : v \in held}) = Cardinality(held)
    BY <2>1, EntriesCount
  <2> QED BY <1>2, <2>2
<1> HIDE DEF there, seen, heldSeen
<1>5. TopIdentity(u, c, NoOverride) =
        [hours |-> MapThenSumSet(WeightOf, there), held |-> Cardinality(held),
         samples |-> Cardinality(there)]
  BY <1>1, <1>3, <1>4, Zenon
<1> QED BY <1>5 DEF UserTotals, there, There, Theirs

(* The queries' totals, by card and by user, are those of the verdicts the *)
(* samplers reached.                                                       *)
THEOREM TotalsAreTheLog == HSpec => []TotalsMatchTheLog
<1>1. HInv /\ Ranked => TotalsMatchTheLog
  BY CardsMatch, UsersMatch DEF HInv, TotalsMatchTheLog
<1> QED BY <1>1, RankedInvariance, PTL

=============================================================================

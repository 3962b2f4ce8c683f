--------------------------- MODULE Sampling_proofs ----------------------------
(* Proofs about Sampling and the tracker of UsageState inside it, for any  *)
(* set of GPUs, every window, what NVML may say of each, and every bound.  *)
EXTENDS Sampling, FiniteSetTheorems, TLAPS

-----------------------------------------------------------------------------
(* The tracker on its own.                                                 *)

IInv == TrackerTypeOK /\ TrackerSound

(* The clause of TrackerSound for one GPU.                                 *)
Sound(s, k, known) ==
    /\ k <= Len(s)
    /\ \A i \in 1 .. Len(s) : i + k > Len(s) => s[i] = "low"
    /\ k < Len(s) => s[Len(s) - k] = "high"
    /\ known <=> \E i \in 1 .. Len(s) : s[i] = "high"

(* One more low reading lengthens the run of low readings by one.          *)
LEMMA SoundLow ==
    ASSUME NEW s \in Seq({"low", "high"}), NEW k \in Nat, NEW known \in BOOLEAN,
           Sound(s, k, known)
    PROVE  Sound(Append(s, "low"), k + 1, known)
<1> DEFINE t == Append(s, "low")
<1>1. /\ t \in Seq({"low", "high"})
      /\ Len(s) \in Nat /\ Len(t) = Len(s) + 1
      /\ t[Len(s) + 1] = "low"
      /\ \A i \in 1 .. Len(s) : t[i] = s[i]
  OBVIOUS
<1> HIDE DEF t
<1>2. k + 1 <= Len(t)
  BY <1>1 DEF Sound
<1>3. \A i \in 1 .. Len(t) : i + (k + 1) > Len(t) => t[i] = "low"
  BY <1>1 DEF Sound
<1>4. k + 1 < Len(t) => t[Len(t) - (k + 1)] = "high"
  BY <1>1 DEF Sound
<1>5. (\E i \in 1 .. Len(s) : s[i] = "high") <=> \E i \in 1 .. Len(t) : t[i] = "high"
  <2>1. ASSUME NEW i \in 1 .. Len(s), s[i] = "high"
        PROVE  i \in 1 .. Len(t) /\ t[i] = "high"
    BY <1>1, <2>1
  <2>2. ASSUME NEW i \in 1 .. Len(t), t[i] = "high"
        PROVE  i \in 1 .. Len(s) /\ s[i] = "high"
    BY <1>1, <2>2
  <2> QED BY <2>1, <2>2
<1>6. known <=> \E i \in 1 .. Len(t) : t[i] = "high"
  BY <1>5 DEF Sound
<1>7. Sound(t, k + 1, known)
  BY <1>2, <1>3, <1>4, <1>6 DEF Sound
<1> QED BY <1>7 DEF t

(* A high reading ends it.                                                 *)
LEMMA SoundHigh ==
    ASSUME NEW s \in Seq({"low", "high"})
    PROVE  Sound(Append(s, "high"), 0, TRUE)
<1> DEFINE t == Append(s, "high")
<1>1. /\ Len(s) \in Nat /\ Len(t) = Len(s) + 1
      /\ t[Len(s) + 1] = "high"
  OBVIOUS
<1> HIDE DEF t
<1>2. Len(t) \in 1 .. Len(t) /\ t[Len(t)] = "high"
  BY <1>1
<1>3. \A i \in 1 .. Len(t) : ~(i + 0 > Len(t))
  BY <1>1
<1>4. Len(t) - 0 = Len(t) /\ 0 <= Len(t)
  BY <1>1
<1>5. Sound(t, 0, TRUE)
  BY <1>2, <1>3, <1>4 DEF Sound
<1> QED BY <1>5 DEF t

(* What the tracker answers is whether the window holds a high reading.    *)
LEMMA SoundWindow ==
    ASSUME NEW s \in Seq({"low", "high"}), NEW k \in Nat, NEW known \in BOOLEAN,
           Sound(s, k, known)
    PROVE  Promise!HighWithin(s, Window) <=> k < Window /\ known
<1>1. Len(s) \in Nat /\ \A i \in 1 .. Len(s) : s[i] \in {"low", "high"}
  OBVIOUS
<1>2. ASSUME Promise!HighWithin(s, Window)
      PROVE  k < Window /\ known
  <2>1. PICK i \in 1 .. Len(s) : i + Window > Len(s) /\ s[i] = "high"
    BY <1>2 DEF Promise!HighWithin
  <2>2. ~(i + k > Len(s))
    BY <2>1 DEF Sound
  <2>3. known
    BY <2>1 DEF Sound
  <2> QED BY <1>1, <2>1, <2>2, <2>3, WindowAssumption
<1>3. ASSUME k < Window, known
      PROVE  Promise!HighWithin(s, Window)
  <2>1. PICK i \in 1 .. Len(s) : s[i] = "high"
    BY <1>3 DEF Sound
  <2>2. k < Len(s)
    <3>1. ~(i + k > Len(s))
      BY <2>1 DEF Sound
    <3> QED BY <1>1, <2>1, <3>1
  <2>3. s[Len(s) - k] = "high"
    BY <2>2 DEF Sound
  <2>4. Len(s) - k \in 1 .. Len(s) /\ (Len(s) - k) + Window > Len(s)
    BY <1>1, <1>3, <2>2, WindowAssumption
  <2> QED BY <2>3, <2>4 DEF Promise!HighWithin
<1> QED BY <1>2, <1>3

LEMMA TrackerUnfolded ==
    TrackerSound <=> \A g \in Gpus : Sound(readings[g], streak[g], g \in seen)
BY DEF TrackerSound, Sound

(* A tracker that has seen nothing.                                        *)
LEMMA SoundEmpty == Sound(<<>>, 0, FALSE)
<1>1. Len(<<>>) = 0 /\ 1 .. 0 = {}
  OBVIOUS
<1> QED BY <1>1 DEF Sound

LEMMA InitSound == UInit => IInv
<1> SUFFICES ASSUME UInit PROVE IInv
  OBVIOUS
<1>1. TrackerTypeOK
  BY DEF UInit, Promise!Init, TrackerTypeOK, Promise!States
<1>2. ASSUME NEW g \in Gpus
      PROVE  Sound(readings[g], streak[g], g \in seen)
  <2>1. readings[g] = <<>> /\ streak[g] = 0 /\ (g \in seen) = FALSE
    BY DEF UInit, Promise!Init
  <2> QED BY <2>1, SoundEmpty
<1> QED BY <1>1, <1>2, TrackerUnfolded DEF IInv

(* One GPU, one tick: the tracker stays sound.                             *)
LEMMA ApplySound ==
    ASSUME IInv, NEW said \in Snaps, Apply(said), NEW g \in Gpus
    PROVE  /\ readings'[g] \in Seq({"low", "high"})
           /\ streak'[g] \in Nat
           /\ Sound(readings'[g], streak'[g], g \in seen')
<1> DEFINE s == readings[g]
           k == streak[g]
           known == g \in seen
<1>1. /\ s \in Seq({"low", "high"}) /\ k \in Nat /\ known \in BOOLEAN
      /\ Sound(s, k, known)
  BY TrackerUnfolded DEF IInv, TrackerTypeOK
<1>2. /\ readings'[g] = IF said[g] = Gone THEN s ELSE Append(s, said[g].util)
      /\ streak'[g] = IF g \in Low(said) THEN k + 1
                      ELSE IF g \in High(said) THEN 0 ELSE k
      /\ seen' = seen \cup High(said)
  BY DEF Apply, Gone, Promise!Extend, Counted
<1>3. said[g] = Gone \/ said[g] \in Promise!Samples
  BY DEF Snaps, Gone, Promise!Snaps
<1>4. CASE said[g] = Gone
  BY <1>1, <1>2, <1>4 DEF Low, High
<1>5. CASE said[g] # Gone /\ said[g].util = "low"
  <2>1. g \in Low(said) /\ g \notin High(said)
    BY <1>5 DEF Low, High
  <2>2. /\ readings'[g] = Append(s, "low") /\ streak'[g] = k + 1
        /\ (g \in seen') = known
    BY <1>2, <1>5, <2>1
  <2>3. Sound(Append(s, "low"), k + 1, known)
    <3> HIDE DEF s, k, known
    <3> QED BY <1>1, SoundLow
  <2>4. Append(s, "low") \in Seq({"low", "high"}) /\ k + 1 \in Nat
    BY <1>1
  <2>5. Sound(readings'[g], streak'[g], g \in seen')
    <3> HIDE DEF s, k, known
    <3> QED BY <2>2, <2>3
  <2> QED BY <2>2, <2>4, <2>5
<1>6. CASE said[g] # Gone /\ said[g].util = "high"
  <2>1. g \notin Low(said) /\ g \in High(said)
    BY <1>6 DEF Low, High
  <2>2. /\ readings'[g] = Append(s, "high") /\ streak'[g] = 0
        /\ (g \in seen') = TRUE
    BY <1>2, <1>6, <2>1
  <2>3. Sound(Append(s, "high"), 0, TRUE)
    BY <1>1, SoundHigh
  <2>4. Append(s, "high") \in Seq({"low", "high"})
    BY <1>1
  <2>5. Sound(readings'[g], streak'[g], g \in seen')
    <3> HIDE DEF s, k, known
    <3> QED BY <2>2, <2>3
  <2> QED BY <2>2, <2>4, <2>5
<1> QED BY <1>3, <1>4, <1>5, <1>6 DEF Promise!Samples

(* What a step publishes is a state of the five.                           *)
LEMMA LabelsType ==
    ASSUME NEW said \in Snaps, NEW str, NEW sn, NEW sync_once \in BOOLEAN
    PROVE  Labels(said, str, sn, sync_once) \in [Gpus -> Promise!States]
BY DEF Labels, Label, Promise!States

LEMMA StepSound == IInv /\ [UNext]_tracker => IInv'
<1> SUFFICES ASSUME IInv, [UNext]_tracker PROVE IInv'
  OBVIOUS
<1>1. ASSUME NEW said \in Snaps, Apply(said)
      PROVE  IInv'
  <2>1. \A g \in Gpus : /\ readings'[g] \in Seq({"low", "high"})
                        /\ streak'[g] \in Nat
                        /\ Sound(readings'[g], streak'[g], g \in seen')
    BY <1>1, ApplySound
  <2>2. readings' = [g \in Gpus |-> readings'[g]] /\ streak' = [g \in Gpus |-> streak'[g]]
    BY <1>1 DEF Apply, Gone, Promise!Extend, Counted
  <2>3. seen' \in SUBSET Gpus
    BY <1>1 DEF Apply, High, IInv, TrackerTypeOK
  <2>4. state' \in [Gpus -> Promise!States]
    BY <1>1, LabelsType DEF Apply
  <2>5. TrackerTypeOK'
    BY <2>1, <2>2, <2>3, <2>4 DEF TrackerTypeOK
  <2>6. TrackerSound'
    BY <2>1 DEF TrackerSound, Sound
  <2> QED BY <2>5, <2>6 DEF IInv
<1>2. ASSUME NEW said \in Snaps, Classify(said)
      PROVE  IInv'
  <2>1. state' \in [Gpus -> Promise!States]
    BY <1>2, LabelsType DEF Classify
  <2>2. /\ readings' = readings /\ streak' = streak /\ seen' = seen
    BY <1>2 DEF Classify
  <2>3. TrackerTypeOK' /\ TrackerSound'
    BY <2>1, <2>2 DEF IInv, TrackerTypeOK, TrackerSound
  <2> QED BY <2>3 DEF IInv
<1>3. ASSUME NewTracker
      PROVE  IInv'
  <2>1. TrackerTypeOK'
    BY <1>3 DEF NewTracker, Promise!Restart, TrackerTypeOK, Promise!States
  <2>2. ASSUME NEW g \in Gpus
        PROVE  Sound(readings'[g], streak'[g], g \in seen')
    <3>1. readings'[g] = <<>> /\ streak'[g] = 0 /\ (g \in seen') = FALSE
      BY <1>3 DEF NewTracker, Promise!Restart
    <3> QED BY <3>1, SoundEmpty
  <2>3. TrackerSound'
    BY <2>2 DEF TrackerSound, Sound
  <2> QED BY <2>1, <2>3 DEF IInv
<1>4. CASE UNCHANGED tracker
  BY <1>4 DEF tracker, IInv, TrackerTypeOK, TrackerSound
<1> QED BY <1>1, <1>2, <1>3, <1>4 DEF UNext

(* The counter and the set of UsageStateTracker describe the readings they *)
(* have seen exactly (usage_state.py:29-37).                               *)
THEOREM TrackerIsSound == USpec => [](TrackerTypeOK /\ TrackerSound)
<1>1. USpec => []IInv
  BY InitSound, StepSound, PTL DEF USpec
<1> QED BY <1>1 DEF IInv

(* What the tracker answers for one GPU is the verdict of the window.      *)
LEMMA LabelIsVerdict ==
    ASSUME NEW g \in Gpus, NEW sample \in Promise!Samples,
           NEW s \in Seq({"low", "high"}), NEW str, NEW sn, str[g] \in Nat, Sound(s, str[g], g \in sn),
           s # <<>>, s[Len(s)] = sample.util
    PROVE  Label(g, sample, str, sn, FALSE) = Promise!Verdict(sample, s)
<1> DEFINE k == str[g]
           known == g \in sn
<1>1. Len(s) \in Nat /\ Len(s) > 0
  OBVIOUS
<1>2. Promise!HighWithin(s, Window) <=> k < Window /\ known
  <2>1. known \in BOOLEAN /\ k \in Nat /\ Sound(s, k, known)
    OBVIOUS
  <2> HIDE DEF k, known
  <2> QED BY <2>1, SoundWindow
<1>3. CASE sample.compute = "unavailable"
  BY <1>3 DEF Label, Promise!Verdict
<1>4. CASE sample.compute = "none"
  BY <1>4 DEF Label, Promise!Verdict
<1>5. CASE sample.compute = "resident"
  <2>1. /\ Label(g, sample, str, sn, FALSE) =
             IF sample.util = "high" THEN "active"
             ELSE IF Held(g, str, sn, FALSE) THEN "idle_held" ELSE "active"
        /\ Promise!Verdict(sample, s) =
             IF Promise!HighWithin(s, Window) THEN "active" ELSE "idle_held"
    BY <1>5 DEF Label, Promise!Verdict
  <2>2. CASE sample.util = "high"
    <3>1. Len(s) \in 1 .. Len(s) /\ Len(s) + Window > Len(s)
      BY <1>1, WindowAssumption
    <3>2. Promise!HighWithin(s, Window)
      BY <2>2, <3>1 DEF Promise!HighWithin
    <3> QED BY <2>1, <2>2, <3>2
  <2>3. CASE sample.util = "low"
    <3>1. Held(g, str, sn, FALSE) <=> ~Promise!HighWithin(s, Window)
      BY <1>2, <2>3, WindowAssumption DEF Held
    <3> QED BY <2>1, <2>3, <3>1
  <2> QED BY <2>2, <2>3 DEF Promise!Samples
<1> QED BY <1>3, <1>4, <1>5 DEF Promise!Samples

(* The step of a tick is a step of the window.                             *)
LEMMA ApplyObserves ==
    ASSUME IInv, NEW said \in Snaps, Apply(said)
    PROVE  Promise!Observe(said)
<1>1. ASSUME NEW g \in Gpus, said[g] # Gone
      PROVE  Label(g, said[g], streak', seen', FALSE) = Promise!Verdict(said[g], readings'[g])
  <2>1. /\ readings'[g] \in Seq({"low", "high"}) /\ streak'[g] \in Nat
        /\ Sound(readings'[g], streak'[g], g \in seen')
    BY ApplySound
  <2>2. said[g] \in Promise!Samples
    BY <1>1 DEF Snaps, Gone, Promise!Snaps
  <2>3. readings[g] \in Seq({"low", "high"}) /\ said[g].util \in {"low", "high"}
    BY <2>2 DEF IInv, TrackerTypeOK, Promise!Samples
  <2>4. readings'[g] = Append(readings[g], said[g].util)
    BY <1>1 DEF Apply, Gone, Promise!Extend
  <2>5. readings'[g] # <<>> /\ readings'[g][Len(readings'[g])] = said[g].util
    <3> DEFINE r == readings[g]
               u == said[g].util
    <3>1. r \in Seq({"low", "high"}) /\ u \in {"low", "high"} /\ readings'[g] = Append(r, u)
      BY <2>3, <2>4
    <3> HIDE DEF r, u
    <3>2. Append(r, u) # <<>> /\ Append(r, u)[Len(Append(r, u))] = u
      BY <3>1
    <3> QED BY <3>1, <3>2 DEF u
  <2> QED BY <2>1, <2>2, <2>5, LabelIsVerdict
<1>2. state' = [g \in Gpus |-> IF said[g] = Gone THEN "absent"
                               ELSE Promise!Verdict(said[g], readings'[g])]
  BY <1>1 DEF Apply, Labels
<1> QED BY <1>2 DEF Apply, Gone, Promise!Observe

(* So is that of sync-once, whose window is its one reading.               *)
LEMMA ClassifyGlances ==
    ASSUME NEW said \in Snaps, Classify(said)
    PROVE  Promise!Glance(said)
<1> DEFINE str == Counted([g \in Gpus |-> 0], said)
<1>1. ASSUME NEW g \in Gpus, said[g] # Gone
      PROVE  Label(g, said[g], str, High(said), TRUE)
             = Promise!Verdict(said[g], <<said[g].util>>)
  <2>1. said[g] \in Promise!Samples
    BY <1>1 DEF Snaps, Gone, Promise!Snaps
  <2>2. Promise!HighWithin(<<said[g].util>>, Window) <=> said[g].util = "high"
    BY <2>1, WindowAssumption DEF Promise!HighWithin, Promise!Samples
  <2> QED BY <2>1, <2>2 DEF Label, Held, Promise!Verdict, Promise!Samples
<1>2. state' = [g \in Gpus |-> IF said[g] = Gone THEN "absent"
                               ELSE Promise!Verdict(said[g], <<said[g].util>>)]
  BY <1>1 DEF Classify, Labels
<1> QED BY <1>2 DEF Classify, Gone, Promise!Glance

(* The tracker implements the window: for ticks, sync-once and restarts    *)
(* alike, what is published is what the readings themselves say            *)
(* (usage_state.py:24-59).                                                 *)
THEOREM TrackerImplementsWindow == USpec => ImplementsWindow
<1>1. UInit => Promise!Init
  BY DEF UInit
<1>2. IInv /\ [UNext]_tracker => [Promise!Next]_<<readings, state>>
  <2> SUFFICES ASSUME IInv, [UNext]_tracker
               PROVE  [Promise!Next]_<<readings, state>>
    OBVIOUS
  <2>1. ASSUME NEW said \in Snaps, Apply(said)
        PROVE  Promise!Next
    BY <2>1, ApplyObserves DEF Promise!Next, Snaps
  <2>2. ASSUME NEW said \in Snaps, Classify(said)
        PROVE  Promise!Next
    BY <2>2, ClassifyGlances DEF Promise!Next, Snaps
  <2>3. NewTracker => Promise!Next
    BY DEF NewTracker, Promise!Next
  <2>4. CASE UNCHANGED tracker
    BY <2>4 DEF tracker
  <2> QED BY <2>1, <2>2, <2>3, <2>4 DEF UNext
<1>3. USpec => []IInv
  BY InitSound, StepSound, PTL DEF USpec
<1> QED BY <1>1, <1>2, <1>3, PTL DEF USpec, ImplementsWindow, Promise!Spec

-----------------------------------------------------------------------------
(* The tracker inside Sampling is the tracker on its own.                  *)

(* What NVML says makes readings the tracker expects.                      *)
LEMMA ReadingsAreSnaps ==
    ASSUME NEW cards \in Fleets
    PROVE  Readings(cards) \in Snaps
<1>1. PICK S \in SUBSET Gpus :
        /\ DOMAIN cards = S
        /\ \A g \in S : cards[g] \in Cards[g]
  BY DEF Fleets
<1>2. ASSUME NEW g \in Gpus, g \in S
      PROVE  [util |-> cards[g].util, compute |-> Residency(cards[g])] \in Promise!Samples
  <2>1. cards[g] \in CardType
    BY <1>1, <1>2, SamplingAssumption
  <2>2. cards[g].util \in {"low", "high"}
    BY <2>1 DEF CardType
  <2>3. Residency(cards[g]) \in {"resident", "none", "unavailable"}
    BY DEF Residency
  <2> QED BY <2>2, <2>3 DEF Promise!Samples
<1>3. Readings(cards) = [g \in Gpus |->
        IF g \in S THEN [util |-> cards[g].util, compute |-> Residency(cards[g])]
                   ELSE Promise!Gone]
  BY <1>1 DEF Readings, Gone
<1> QED BY <1>2, <1>3 DEF Snaps, Promise!Snaps

(* Each step of the system is one of the tracker, or leaves it alone.      *)
LEMMA StepIsTracked == [SNext]_vars => [UNext]_tracker
<1> SUFFICES ASSUME [SNext]_vars PROVE [UNext]_tracker
  OBVIOUS
<1>1. ASSUME NEW p \in Procs, Take(p) PROVE UNext
  <2>1. PICK cards \in Fleets :
          IF p = "daemon" THEN Apply(Readings(cards)) ELSE Classify(Readings(cards))
    BY <1>1 DEF Take
  <2> QED BY <2>1, ReadingsAreSnaps DEF UNext
<1>2. ASSUME NEW p \in Procs, Killed(p) PROVE UNext \/ UNCHANGED tracker
  BY <1>2 DEF Killed, UNext
<1>3. ASSUME NEW p \in Procs,
             \/ CollectFails(p) \/ Write(p) \/ WriteFails(p) \/ PayloadInvalid(p)
             \/ Send(p) \/ Answered(p) \/ PushFails(p) \/ TimesOut(p)
      PROVE  UNCHANGED tracker
  BY <1>3 DEF CollectFails, Write, WriteFails, PayloadInvalid, Send, Answered,
              PushFails, TimesOut
<1>4. ProbeFails \/ Accept => UNCHANGED tracker
  BY DEF ProbeFails, Accept
<1>5. UNCHANGED vars => UNCHANGED tracker
  BY DEF vars
<1> QED BY <1>1, <1>2, <1>3, <1>4, <1>5 DEF SNext

LEMMA SamplingTracks == SSpec => USpec
<1>1. SInit => UInit
  BY DEF SInit
<1> QED BY <1>1, StepIsTracked, PTL DEF SSpec, USpec

(* With crashes, failed collects and writes, and sync-once in between, the *)
(* counter of the daemon is the length of the run of low readings that     *)
(* ends now (usage_state.py:29-37).                                        *)
THEOREM SamplingTrackerIsSound == SSpec => []TrackerSound
BY SamplingTracks, TrackerIsSound, PTL

(* The labels published are those of the whole history of readings         *)
(* (usage_state.py:43-59).                                                 *)
THEOREM SamplingImplementsWindow == SSpec => ImplementsWindow
BY SamplingTracks, TrackerImplementsWindow, PTL

-----------------------------------------------------------------------------
(* The stores.                                                             *)

Entry == {e \in [by : Procs, run : Nat, lost : BOOLEAN, cards : Fleets \cup {<<>>}] :
            e.lost => DOMAIN e.cards = {}}

(* What is known of the variables' shape.                                  *)
Shape ==
    /\ taken \in Seq(Entry) /\ Len(taken) <= MaxTaken
    /\ run \in Nat
    /\ at \in [Procs -> Places]
    /\ DOMAIN snap = Procs /\ DOMAIN unread = Procs

(* The snapshot s says of each device what entry e of the history says.    *)
Faithful(s, e) ==
    /\ s.by = e.by /\ s.lost = e.lost
    /\ DOMAIN s.cards = DOMAIN e.cards
    /\ \A g \in DOMAIN e.cards :
          /\ s.cards[g].util = e.cards[g].util
          /\ s.cards[g].procs = Processes(e.cards[g])
          /\ s.cards[g].state = "unknown" <=> e.cards[g].compute = Unread

(* So does the observation o, of what the board takes.                     *)
Truthful(o, e) ==
    /\ o.by = e.by
    /\ o.status = "error" <=> e.lost
    /\ ~e.lost => (o.status = "partial" <=> UnreadIn(e.cards) # {})
    /\ DOMAIN o.cards = DOMAIN e.cards
    /\ \A g \in DOMAIN e.cards :
          /\ o.cards[g].util = e.cards[g].util
          /\ o.cards[g].procs =
                [q \in {q \in DOMAIN Processes(e.cards[g]) : q > 0} |-> Processes(e.cards[g])[q]]
          /\ o.cards[g].state = "unknown" <=> e.cards[g].compute = Unread

(* A snapshot p has in hand: it is new to the stores it has not come to,   *)
(* and the other process works on another.                                 *)
InHand(p) ==
    LET s == snap[p] IN
    /\ s.ts \in 1 .. Len(taken)
    /\ Faithful(s, taken[s.ts])
    /\ at[p] = "write" => ~s.lost /\ s.ts \notin Kept
    /\ at[p] \in {"write", "push"} =>
          /\ unread[p] = UnreadIn(taken[s.ts].cards)
          /\ \A o \in wire \cup board : o.ts # s.ts
    /\ at[p] \in {"push", "await"} => s.lost \/ s.ts \in Kept
    /\ \A q \in Procs \ {p} : at[q] # "idle" => snap[q].ts # s.ts

Stored == \A r \in rows : r.ts \in 1 .. Len(taken) /\ Faithful(r, taken[r.ts])

(* An observation is of one moment, and there is one of a moment.          *)
Sent ==
    /\ \A o \in wire \cup board :
        /\ o.ts \in 1 .. Len(taken)
        /\ Truthful(o, taken[o.ts])
        /\ o.status = "error" \/ o.ts \in Kept
    /\ \A o1, o2 \in wire \cup board : o1.ts = o2.ts => o1 = o2
    /\ wire \cap board = {}

Placed(a) == a.told # "nothing" => a.ts \in 1 .. Len(taken)

SInv == /\ Shape
        /\ \A p \in Procs : at[p] # "idle" => InHand(p)
        /\ Stored
        /\ Sent
        /\ Honest(outcome) /\ Placed(outcome)

(* The history keeps what it has.                                          *)
LEMMA AppendKeeps ==
    ASSUME NEW S, NEW s \in Seq(S), NEW e \in S, NEW t \in Seq(S), t = Append(s, e)
    PROVE  /\ Len(t) = Len(s) + 1 /\ Len(s) \in Nat
           /\ t[Len(s) + 1] = e
           /\ \A i \in 1 .. Len(s) : t[i] = s[i] /\ i \in 1 .. Len(t)
OBVIOUS

(* The snapshot of a tick or of sync-once is faithful to what NVML said.   *)
LEMMA TakenFaithfully ==
    ASSUME NEW p \in Procs, NEW cards \in Fleets,
           IF p = "daemon" THEN Apply(Readings(cards)) ELSE Classify(Readings(cards))
    PROVE  Faithful(Snapshot(p, cards, state'),
                    [by |-> p, run |-> RunOf(p), lost |-> FALSE, cards |-> cards])
<1>1. PICK S \in SUBSET Gpus :
        /\ DOMAIN cards = S
        /\ \A g \in S : cards[g] \in Cards[g]
  BY DEF Fleets
<1>2. ASSUME NEW g \in S
      PROVE  state'[g] = "unknown" <=> cards[g].compute = Unread
  <2>1. g \in Gpus /\ cards[g] \in CardType
    BY <1>1, SamplingAssumption
  <2>2. Readings(cards)[g] = [util |-> cards[g].util, compute |-> Residency(cards[g])]
    BY <1>1, <2>1 DEF Readings
  <2>3. Readings(cards)[g] # Gone
    BY <2>1, <2>2 DEF CardType, Gone, Promise!Gone
  <2>4. \E str, sn, o : state'[g] = Label(g, Readings(cards)[g], str, sn, o)
    BY <2>1, <2>3 DEF Apply, Classify, Labels
  <2>5. Residency(cards[g]) = "unavailable" <=> cards[g].compute = Unread
    BY DEF Residency
  <2> QED BY <2>2, <2>4, <2>5 DEF Label
<1> QED BY <1>1, <1>2 DEF Faithful, Snapshot

(* Its payload says of the snapshot what the board should know.            *)
LEMMA PayloadTruthful ==
    ASSUME NEW s, NEW e \in Entry, Faithful(s, e)
    PROVE  Truthful(Payload(s, UnreadIn(e.cards)), e)
<1> DEFINE o == Payload(s, UnreadIn(e.cards))
<1>1. /\ o.by = s.by /\ o.status = Status(s, UnreadIn(e.cards))
      /\ o.cards = [g \in DOMAIN s.cards |-> Shown(s.cards[g])]
  BY DEF Payload
<1>2. e.lost \in BOOLEAN
  BY DEF Entry
<1>3. UnreadIn(e.cards) # {} => DOMAIN s.cards # {}
  BY DEF UnreadIn, Faithful
<1>4. /\ o.status = "error" <=> e.lost
      /\ ~e.lost => (o.status = "partial" <=> UnreadIn(e.cards) # {})
  BY <1>1, <1>2, <1>3 DEF Status, Faithful
<1>5. o.by = e.by /\ DOMAIN o.cards = DOMAIN e.cards
  BY <1>1 DEF Faithful
<1>6. \A g \in DOMAIN e.cards :
          /\ o.cards[g] = Shown(s.cards[g])
          /\ s.cards[g].util = e.cards[g].util
          /\ s.cards[g].procs = Processes(e.cards[g])
          /\ s.cards[g].state = "unknown" <=> e.cards[g].compute = Unread
  BY <1>1 DEF Faithful
<1> HIDE DEF o
<1>7. ASSUME NEW g \in DOMAIN e.cards
      PROVE  /\ o.cards[g].util = e.cards[g].util
             /\ o.cards[g].procs =
                   [q \in {q \in DOMAIN Processes(e.cards[g]) : q > 0} |->
                        Processes(e.cards[g])[q]]
             /\ o.cards[g].state = "unknown" <=> e.cards[g].compute = Unread
  <2>1. o.cards[g] = Shown(s.cards[g])
    BY <1>6, <1>7
  <2>2. /\ o.cards[g].util = s.cards[g].util
        /\ o.cards[g].state = s.cards[g].state
        /\ o.cards[g].procs = [q \in {q \in DOMAIN s.cards[g].procs : q > 0} |->
                                    s.cards[g].procs[q]]
    BY <2>1 DEF Shown
  <2>3. s.cards[g].procs = Processes(e.cards[g])
    BY <1>6, <1>7
  <2>4. o.cards[g].procs = [q \in {q \in DOMAIN Processes(e.cards[g]) : q > 0} |->
                                 Processes(e.cards[g])[q]]
    BY <2>2, <2>3, Zenon
  <2>5. o.cards[g].util = e.cards[g].util
    BY <1>6, <1>7, <2>2
  <2>6. o.cards[g].state = "unknown" <=> e.cards[g].compute = Unread
    BY <1>6, <1>7, <2>2
  <2> QED BY <2>4, <2>5, <2>6
<1>8. Truthful(o, e)
  <2>1. o.status = "error" <=> e.lost
    BY <1>4
  <2>2. ~e.lost => (o.status = "partial" <=> UnreadIn(e.cards) # {})
    BY <1>4
  <2>3. \A g \in DOMAIN e.cards :
            /\ o.cards[g].util = e.cards[g].util
            /\ o.cards[g].procs =
                  [q \in {q \in DOMAIN Processes(e.cards[g]) : q > 0} |->
                       Processes(e.cards[g])[q]]
            /\ o.cards[g].state = "unknown" <=> e.cards[g].compute = Unread
    BY <1>7
  <2> QED BY <1>5, <2>1, <2>2, <2>3, Zenon DEF Truthful
<1> QED BY <1>8 DEF o

(* A new snapshot in hand.                                                 *)
LEMMA BeginKeeps ==
    ASSUME SInv, NEW p \in Procs, NEW s, NEW e \in Entry, NEW place,
           at[p] = "idle", Len(taken) < MaxTaken,
           s.ts = Len(taken) + 1, Faithful(s, e),
           \/ place = "write" /\ ~s.lost
           \/ place = "push" /\ s.lost,
           taken' = Append(taken, e),
           snap' = [snap EXCEPT ![p] = s],
           unread' = [unread EXCEPT ![p] = UnreadIn(e.cards)],
           at' = [at EXCEPT ![p] = place],
           outcome' \in {outcome, Silent},
           UNCHANGED <<run, rows, wire, board>>
    PROVE  SInv'
<1> DEFINE n == Len(taken) + 1
<1>1. /\ taken' \in Seq(Entry) /\ Len(taken') = n /\ Len(taken) \in Nat
      /\ taken'[n] = e
      /\ \A i \in 1 .. Len(taken) : taken'[i] = taken[i] /\ i \in 1 .. Len(taken')
  BY AppendKeeps DEF SInv, Shape
<1>2. n \in 1 .. Len(taken') /\ n \notin 1 .. Len(taken) /\ n <= MaxTaken
  BY <1>1, SamplingAssumption
<1>3. Kept' = Kept /\ ShownAt(board)' = ShownAt(board)
  BY DEF Kept, ShownAt
<1>4. /\ n \notin Kept
      /\ \A o \in wire \cup board : o.ts # n
  BY <1>2 DEF SInv, Stored, Sent, Kept
<1>5. Shape'
  BY <1>1, <1>2 DEF SInv, Shape, Places
<1>6. /\ snap'[p] = s /\ at'[p] = place /\ unread'[p] = UnreadIn(e.cards)
      /\ \A q \in Procs \ {p} : /\ snap'[q] = snap[q] /\ at'[q] = at[q]
                                 /\ unread'[q] = unread[q]
  BY DEF SInv, Shape
<1>7. InHand(p)'
  <2>1. ASSUME NEW q \in Procs \ {p}, at'[q] # "idle"
        PROVE  snap'[q].ts # n
    BY <1>2, <1>6, <2>1 DEF SInv, InHand
  <2> QED BY <1>1, <1>2, <1>3, <1>4, <1>6, <2>1 DEF InHand
<1>8. ASSUME NEW q \in Procs \ {p}, at'[q] # "idle"
      PROVE  InHand(q)'
  <2>1. InHand(q) /\ at[q] # "idle"
    BY <1>6, <1>8 DEF SInv
  <2>2. snap[q].ts \in 1 .. Len(taken) /\ snap[q].ts # n
    BY <1>2, <2>1 DEF InHand
  <2>3. \A r \in Procs \ {q} : at'[r] # "idle" => snap'[r].ts # snap[q].ts
    BY <1>6, <2>1, <2>2 DEF InHand
  <2> QED BY <1>1, <1>3, <1>6, <2>1, <2>2, <2>3 DEF InHand
<1>9. Stored' /\ Sent'
  BY <1>1, <1>3 DEF SInv, Stored, Sent
<1>10. Honest(outcome)' /\ Placed(outcome)'
  BY <1>1, <1>3 DEF SInv, Honest, Placed, Silent
<1> QED BY <1>5, <1>7, <1>8, <1>9, <1>10 DEF SInv

(* A snapshot that is let go of, whatever its process tells.               *)
LEMMA EndKeeps ==
    ASSUME SInv, NEW p \in Procs,
           snap' = [snap EXCEPT ![p] = NoSnap],
           at' = [at EXCEPT ![p] = "idle"],
           DOMAIN unread' = Procs, \A q \in Procs \ {p} : unread'[q] = unread[q],
           run' \in Nat, Honest(outcome'), Placed(outcome'),
           UNCHANGED <<taken, rows, wire, board>>
    PROVE  SInv'
<1>1. Kept' = Kept /\ ShownAt(board)' = ShownAt(board)
  BY DEF Kept, ShownAt
<1>2. Shape'
  BY DEF SInv, Shape, Places
<1>3. /\ at'[p] = "idle"
      /\ \A q \in Procs \ {p} : snap'[q] = snap[q] /\ at'[q] = at[q]
  BY DEF SInv, Shape
<1>4. ASSUME NEW q \in Procs, at'[q] # "idle"
      PROVE  InHand(q)'
  BY <1>1, <1>3, <1>4 DEF SInv, InHand
<1>5. Stored' /\ Sent'
  BY <1>1 DEF SInv, Stored, Sent
<1>6. Honest(outcome)' /\ Placed(outcome)'
  BY <1>1 DEF Honest, Placed
<1> QED BY <1>2, <1>4, <1>5, <1>6 DEF SInv

LEMMA SilenceIsHonest == Honest(Silent) /\ Placed(Silent)
BY DEF Honest, Placed, Silent

LEMMA InitInv == SInit => SInv
<1> SUFFICES ASSUME SInit PROVE SInv
  OBVIOUS
<1>1. Shape
  BY SamplingAssumption DEF SInit, Shape, Places
<1>2. Stored /\ Sent /\ \A p \in Procs : at[p] = "idle"
  BY DEF SInit, Stored, Sent
<1> QED BY <1>1, <1>2, SilenceIsHonest DEF SInit, SInv

LEMMA StepInv == SInv /\ [SNext]_vars => SInv'
<1> SUFFICES ASSUME SInv, [SNext]_vars PROVE SInv'
  OBVIOUS
<1> USE DEF Starts, GoesTo
<1>1. ASSUME NEW p \in Procs, Take(p) PROVE SInv'
  <2>1. PICK cards \in Fleets :
          /\ IF p = "daemon" THEN Apply(Readings(cards)) ELSE Classify(Readings(cards))
          /\ Records(p, Snapshot(p, cards, state'), cards)
    BY <1>1 DEF Take
  <2> DEFINE s == Snapshot(p, cards, state')
             e == [by |-> p, run |-> RunOf(p), lost |-> FALSE, cards |-> cards]
  <2>2. e \in Entry
    BY DEF Entry, RunOf, SInv, Shape
  <2>3. Faithful(s, e)
    BY <2>1, TakenFaithfully
  <2>4. s.ts = Len(taken) + 1 /\ s.lost = FALSE /\ e.cards = cards
    BY DEF Snapshot
  <2> HIDE DEF s
  <2>5. /\ taken' = Append(taken, e)
        /\ snap' = [snap EXCEPT ![p] = s]
        /\ unread' = [unread EXCEPT ![p] = UnreadIn(e.cards)]
        /\ outcome' \in {outcome, Silent}
    BY <2>1, <2>4 DEF Records, s
  <2> HIDE DEF e
  <2> QED BY <1>1, <2>2, <2>3, <2>4, <2>5, BeginKeeps DEF Take
<1>2. ASSUME ProbeFails PROVE SInv'
  <2> DEFINE s == [ts |-> Len(taken) + 1, by |-> "once", run |-> 0, lost |-> TRUE,
                   cards |-> <<>>]
             e == [by |-> "once", run |-> 0, lost |-> TRUE, cards |-> <<>>]
  <2>1. e \in Entry /\ "once" \in Procs /\ RunOf("once") = 0
    BY DEF Entry, Procs, RunOf
  <2>2. Faithful(s, e)
    BY DEF Faithful
  <2>3. s.ts = Len(taken) + 1 /\ s.lost /\ s.lost = TRUE /\ e.cards = <<>>
    OBVIOUS
  <2>4. /\ taken' = Append(taken, e)
        /\ snap' = [snap EXCEPT !["once"] = s]
        /\ unread' = [unread EXCEPT !["once"] = UnreadIn(e.cards)]
        /\ outcome' \in {outcome, Silent}
    BY <1>2, <2>1 DEF ProbeFails, Records
  <2> HIDE DEF s, e
  <2> QED BY <1>2, <2>1, <2>2, <2>3, <2>4, BeginKeeps DEF ProbeFails
<1>3. ASSUME NEW p \in Procs, CollectFails(p) PROVE SInv'
  <2>1. Kept' = Kept /\ ShownAt(board)' = ShownAt(board)
    BY <1>3 DEF CollectFails, Kept, ShownAt
  <2>2. Shape'
    BY <1>3 DEF CollectFails, SInv, Shape
  <2>3. ASSUME NEW q \in Procs, at'[q] # "idle" PROVE InHand(q)'
    <3>1. q # p /\ InHand(q) /\ unread'[q] = unread[q]
      BY <1>3, <2>3 DEF CollectFails, SInv, Shape
    <3> QED BY <1>3, <2>1, <3>1 DEF CollectFails, InHand
  <2>4. Stored' /\ Sent'
    BY <1>3, <2>1 DEF CollectFails, SInv, Stored, Sent
  <2>5. Honest(outcome)' /\ Placed(outcome)'
    BY <1>3, <2>1 DEF CollectFails, SInv, Honest, Placed, Silent
  <2> QED BY <2>2, <2>3, <2>4, <2>5 DEF SInv
<1>4. ASSUME NEW p \in Procs, Write(p) PROVE SInv'
  <2> DEFINE s == snap[p]
  <2>1. /\ InHand(p) /\ ~s.lost /\ s.ts \in 1 .. Len(taken)
        /\ Faithful(s, taken[s.ts])
    BY <1>4 DEF Write, SInv, InHand
  <2>2. /\ Kept' = Kept \cup {s.ts} /\ ShownAt(board)' = ShownAt(board)
        /\ at'[p] = "push" /\ \A q \in Procs \ {p} : at'[q] = at[q]
    BY <1>4 DEF Write, Kept, ShownAt, SInv, Shape
  <2>3. Shape'
    BY <1>4 DEF Write, SInv, Shape, Places
  <2>4. ASSUME NEW q \in Procs, at'[q] # "idle" PROVE InHand(q)'
    <3>1. InHand(q) /\ at[q] # "idle"
      BY <1>4, <2>2, <2>4 DEF Write, SInv
    <3>2. at'[q] = "write" => snap[q].ts \notin Kept'
      BY <2>1, <2>2, <3>1 DEF InHand
    <3>3. at'[q] \in {"push", "await"} => snap[q].lost \/ snap[q].ts \in Kept'
      BY <2>2, <3>1 DEF InHand
    <3>4. at'[q] \in {"write", "push"} => at[q] \in {"write", "push"}
      BY <1>4, <2>2 DEF Write
    <3>5. \A r \in Procs \ {q} : at'[r] # "idle" => at[r] # "idle"
      BY <1>4, <2>2 DEF Write
    <3>6. at'[q] = "write" => ~snap[q].lost
      BY <2>2, <3>1 DEF InHand
    <3> QED BY <1>4, <3>1, <3>2, <3>3, <3>4, <3>5, <3>6 DEF Write, InHand
  <2>5. Stored'
    BY <1>4, <2>1 DEF Write, SInv, Stored
  <2>6. Sent' /\ Honest(outcome)' /\ Placed(outcome)'
    BY <1>4, <2>2 DEF Write, SInv, Sent, Honest, Placed
  <2> QED BY <2>3, <2>4, <2>5, <2>6 DEF SInv
<1>5. ASSUME NEW p \in Procs, Send(p) PROVE SInv'
  <2> DEFINE s == snap[p]
             o == Observation(p)
             e == taken[s.ts]
  <2>1. /\ InHand(p) /\ s.ts \in 1 .. Len(taken) /\ Faithful(s, e)
        /\ unread[p] = UnreadIn(e.cards)
        /\ s.lost \/ s.ts \in Kept
        /\ \A x \in wire \cup board : x.ts # s.ts
    BY <1>5 DEF Send, SInv, InHand
  <2>2. e \in Entry
    BY <2>1 DEF SInv, Shape
  <2>3. o.ts = s.ts /\ Truthful(o, e)
    BY <2>1, <2>2, PayloadTruthful DEF Observation, Payload
  <2>4. o.status = "error" \/ o.ts \in Kept
    BY <2>1, <2>3 DEF Truthful, Faithful
  <2>5. /\ at'[p] = "await" /\ \A q \in Procs \ {p} : at'[q] = at[q]
        /\ wire' = wire \cup {o}
    BY <1>5 DEF Send, SInv, Shape
  <2> HIDE DEF o
  <2>6. Kept' = Kept /\ ShownAt(board)' = ShownAt(board)
    BY <1>5 DEF Send, Kept, ShownAt
  <2>7. Shape'
    BY <1>5 DEF Send, SInv, Shape, Places
  <2>8. ASSUME NEW q \in Procs, at'[q] # "idle" PROVE InHand(q)'
    <3>1. InHand(q) /\ at[q] # "idle"
      BY <1>5, <2>5, <2>8 DEF Send, SInv
    <3>2. at'[q] \in {"write", "push"} =>
             at[q] = at'[q] /\ \A x \in wire' \cup board : x.ts # snap[q].ts
      BY <2>1, <2>3, <2>5, <3>1 DEF InHand
    <3>3. \A r \in Procs \ {q} : at'[r] # "idle" => at[r] # "idle"
      BY <1>5, <2>5 DEF Send
    <3>4. at'[q] \in {"push", "await"} => snap[q].lost \/ snap[q].ts \in Kept
      BY <2>1, <2>5, <3>1 DEF InHand
    <3>5. at'[q] = "write" => ~snap[q].lost /\ snap[q].ts \notin Kept
      BY <3>1, <3>2 DEF InHand
    <3> QED BY <1>5, <2>6, <3>1, <3>2, <3>3, <3>4, <3>5 DEF Send, InHand
  <2>9. Stored' /\ Honest(outcome)' /\ Placed(outcome)'
    BY <1>5, <2>6 DEF Send, SInv, Stored, Honest, Placed
  <2>10. Sent'
    BY <1>5, <2>1, <2>3, <2>4, <2>5, <2>6 DEF Send, SInv, Sent
  <2> QED BY <2>7, <2>8, <2>9, <2>10 DEF SInv
<1>6. ASSUME Accept PROVE SInv'
  <2>1. PICK o \in wire : wire' = wire \ {o} /\ board' = board \cup {o}
    BY <1>6 DEF Accept
  <2>2. /\ wire' \cup board' = wire \cup board /\ wire' \cap board' = {}
        /\ Kept' = Kept
        /\ UNCHANGED <<at, snap, unread, run, taken, rows, outcome>>
    BY <1>6, <2>1 DEF Accept, SInv, Sent, Kept
  <2>3. Shape' /\ Stored'
    BY <2>2 DEF SInv, Shape, Stored
  <2>4. ASSUME NEW p \in Procs, at'[p] # "idle" PROVE InHand(p)'
    BY <2>2, <2>4 DEF SInv, InHand
  <2>5. Sent'
    BY <2>2 DEF SInv, Sent
  <2>6. outcome.told = "heartbeat" => outcome.ts \notin ShownAt(board')
    <3>1. ASSUME outcome.told = "heartbeat", NEW x \in board', x.ts = outcome.ts
          PROVE  x.status = "error"
      <4>1. PICK y \in board : y.ts = outcome.ts /\ y.status = "error"
        BY <3>1 DEF SInv, Honest, ShownAt
      <4>2. x \in wire \cup board
        BY <2>1
      <4> QED BY <3>1, <4>1, <4>2 DEF SInv, Sent
    <3> QED BY <3>1 DEF ShownAt
  <2>7. Honest(outcome)' /\ Placed(outcome)'
    BY <2>1, <2>2, <2>6 DEF SInv, Honest, Placed, ShownAt
  <2> QED BY <2>3, <2>4, <2>5, <2>7 DEF SInv
<1>7. ASSUME NEW p \in Procs,
             \/ WriteFails(p) \/ PayloadInvalid(p) \/ Answered(p) \/ PushFails(p)
             \/ TimesOut(p)
      PROVE  SInv'
  <2>1. /\ at[p] # "idle" /\ InHand(p)
    BY <1>7 DEF WriteFails, PayloadInvalid, Answered, PushFails, TimesOut, SInv
  <2>2. /\ snap' = [snap EXCEPT ![p] = NoSnap]
        /\ at' = [at EXCEPT ![p] = "idle"]
        /\ DOMAIN unread' = Procs /\ \A q \in Procs \ {p} : unread'[q] = unread[q]
        /\ UNCHANGED <<taken, run, rows, wire, board>>
    BY <1>7 DEF WriteFails, PayloadInvalid, Answered, PushFails, TimesOut, Ends, SInv, Shape
  <2>3. Honest(Says(p, 1, IF snap[p].lost THEN "failed" ELSE "saved"))
        \/ at[p] \notin {"push", "await"}
    BY <2>1 DEF InHand, Faithful, Honest, Says
  <2>4. ASSUME PayloadInvalid(p) PROVE Honest(Says(p, 1, "saved"))
    <3>1. PICK g \in DOMAIN snap[p].cards : TRUE
      BY <2>4 DEF PayloadInvalid, Buildable
    <3>2. taken[snap[p].ts] \in Entry
      BY <2>1 DEF InHand, SInv, Shape
    <3>3. ~snap[p].lost
      BY <2>1, <3>1, <3>2 DEF InHand, Faithful, Entry
    <3> QED BY <2>1, <2>4, <3>3 DEF PayloadInvalid, InHand, Honest, Says
  <2>5. ASSUME Answered(p)
        PROVE  Honest(IF snap[p].lost THEN Says(p, 1, "heartbeat") ELSE Says(p, 0, "pushed"))
    <3> DEFINE o == Observation(p)
    <3>1. /\ o \in board /\ o.ts = snap[p].ts
          /\ snap[p].lost \/ snap[p].ts \in Kept
      BY <2>1, <2>5 DEF Answered, InHand, Observation, Payload
    <3> HIDE DEF o
    <3>2. o.status = "error" <=> snap[p].lost
      <4>1. Truthful(o, taken[snap[p].ts])
        BY <3>1 DEF SInv, Sent
      <4>2. Faithful(snap[p], taken[snap[p].ts])
        BY <2>1 DEF InHand
      <4>3. o.status = "error" <=> taken[snap[p].ts].lost
        BY <4>1 DEF Truthful
      <4> QED BY <4>2, <4>3 DEF Faithful
    <3>3. snap[p].lost => snap[p].ts \notin ShownAt(board)
      BY <3>1, <3>2 DEF SInv, Sent, ShownAt
    <3>4. ~snap[p].lost => snap[p].ts \in ShownAt(board)
      BY <3>1, <3>2 DEF ShownAt
    <3>5. snap[p].ts \in {x.ts : x \in board}
      BY <3>1
    <3> QED BY <3>1, <3>3, <3>4, <3>5 DEF Honest, Says
  <2>6. Honest(outcome') /\ Placed(outcome')
    BY <1>7, <2>1, <2>3, <2>4, <2>5, SilenceIsHonest
       DEF WriteFails, PayloadInvalid, Answered, PushFails, TimesOut, Ends, SInv,
           Placed, Says, InHand
  <2> QED BY <2>2, <2>6, EndKeeps DEF SInv, Shape
<1>8. ASSUME NEW p \in Procs, Killed(p) PROVE SInv'
  <2>1. /\ snap' = [snap EXCEPT ![p] = NoSnap]
        /\ at' = [at EXCEPT ![p] = "idle"]
        /\ DOMAIN unread' = Procs /\ \A q \in Procs \ {p} : unread'[q] = unread[q]
        /\ run' \in Nat
        /\ Honest(outcome') /\ Placed(outcome')
        /\ UNCHANGED <<taken, rows, wire, board>>
    BY <1>8, SilenceIsHonest DEF Killed, SInv, Shape
  <2> QED BY <2>1, EndKeeps
<1>9. ASSUME UNCHANGED vars PROVE SInv'
  BY <1>9 DEF vars, SInv, Shape, InHand, Stored, Sent, Honest, Placed, Kept, ShownAt
<1> QED BY <1>1, <1>2, <1>3, <1>4, <1>5, <1>6, <1>7, <1>8, <1>9 DEF SNext

LEMMA Invariant == SSpec => []SInv
BY InitInv, StepInv, PTL DEF SSpec

-----------------------------------------------------------------------------
(* Whatever fails, whoever is killed and however late a request arrives,   *)
(* the board has nothing the local history has not (__main__.py:541-542).  *)
THEOREM SamplingIsLocalFirst == SSpec => ImplementsLocalFirst
<1>1. SInit => Promised!Init
  BY DEF SInit, Promised!Init, Kept, ShownAt
<1>2. SInv /\ [SNext]_vars => [Promised!Next]_<<Kept, ShownAt(board)>>
  <2> SUFFICES ASSUME SInv, [SNext]_vars
               PROVE  Promised!Next \/ (Kept' = Kept /\ ShownAt(board)' = ShownAt(board))
    OBVIOUS
  <2>1. ASSUME UNCHANGED <<rows, board>>
        PROVE  Kept' = Kept /\ ShownAt(board)' = ShownAt(board)
    BY <2>1 DEF Kept, ShownAt
  <2>2. ASSUME NEW p \in Procs, Write(p) PROVE Promised!Next
    <3>1. InHand(p) /\ snap[p].ts \in 1 .. MaxTaken /\ snap[p].ts \notin Kept
      BY <2>2, SamplingAssumption DEF Write, SInv, InHand, Shape
    <3>2. Kept' = Kept \cup {snap[p].ts} /\ ShownAt(board)' = ShownAt(board)
      BY <2>2 DEF Write, Kept, ShownAt
    <3> QED BY <3>1, <3>2 DEF Promised!Next, Promised!Keep
  <2>3. ASSUME Accept
        PROVE  Promised!Next \/ (Kept' = Kept /\ ShownAt(board)' = ShownAt(board))
    <3>1. PICK o \in wire : wire' = wire \ {o} /\ board' = board \cup {o}
      BY <2>3 DEF Accept
    <3>2. Kept' = Kept
      BY <2>3 DEF Accept, Kept
    <3>3. CASE o.status = "error"
      BY <3>1, <3>2, <3>3 DEF ShownAt
    <3>4. CASE o.status # "error"
      <4>1. ShownAt(board') = ShownAt(board) \cup {o.ts}
        BY <3>1, <3>4 DEF ShownAt
      <4>2. o.ts \in Kept /\ o.ts \in 1 .. MaxTaken
        BY <3>4, SamplingAssumption DEF SInv, Sent, Shape
      <4>3. o.ts \notin ShownAt(board)
        BY DEF SInv, Sent, ShownAt
      <4> QED BY <3>2, <4>1, <4>2, <4>3 DEF Promised!Next, Promised!Show
    <3> QED BY <3>3, <3>4
  <2>4. ASSUME NEW p \in Procs,
               \/ Take(p) \/ CollectFails(p) \/ WriteFails(p) \/ PayloadInvalid(p)
               \/ Send(p) \/ Answered(p) \/ PushFails(p) \/ TimesOut(p) \/ Killed(p)
        PROVE  UNCHANGED <<rows, board>>
    BY <2>4 DEF Take, CollectFails, WriteFails, PayloadInvalid, Send, Answered,
                PushFails, TimesOut, Killed
  <2>5. ProbeFails \/ UNCHANGED vars => UNCHANGED <<rows, board>>
    BY DEF ProbeFails, vars
  <2> QED BY <2>1, <2>2, <2>3, <2>4, <2>5 DEF SNext
<1> QED BY <1>1, <1>2, Invariant, PTL DEF SSpec, ImplementsLocalFirst, Promised!Spec

(* Rows and observations say what NVML said at their moment, whole and     *)
(* under its time (nvml.py:127-148, snapshot.py:77-114).                   *)
THEOREM StoresAreTrue == SSpec => []StoresMatchNvml
<1>1. SInv => StoresMatchNvml
  <2> SUFFICES ASSUME SInv PROVE StoresMatchNvml
    OBVIOUS
  <2>1. ASSUME NEW i \in 1 .. Len(taken), NEW g \in DOMAIN taken[i].cards
        PROVE  LET c == taken[i].cards[g] IN
               /\ Listed(c.compute) \subseteq Pids /\ Listed(c.graphics) \subseteq Pids
               /\ DOMAIN Processes(c) = Listed(c.compute) \cup Listed(c.graphics)
               /\ \A q \in DOMAIN Processes(c) :
                     Processes(c)[q] = "compute" <=> q \in Listed(c.compute)
    <3>1. taken[i] \in Entry
      BY DEF SInv, Shape
    <3>2. taken[i].cards \in Fleets
      BY <3>1 DEF Entry
    <3>3. taken[i].cards[g] \in CardType
      BY <3>2, SamplingAssumption DEF Fleets
    <3> QED BY <3>3 DEF CardType, Listed, Processes
  <2>2. ASSUME NEW r \in rows
        PROVE  /\ r.by = taken[r.ts].by
               /\ Matches(r.cards, taken[r.ts].cards, Pids)
    <3> DEFINE e == taken[r.ts]
    <3>1. r.ts \in 1 .. Len(taken) /\ Faithful(r, e)
      BY DEF SInv, Stored
    <3>2. ASSUME NEW g \in DOMAIN e.cards
          PROVE  LET procs == r.cards[g].procs IN
                 /\ r.cards[g].util = e.cards[g].util
                 /\ DOMAIN procs = Pids \cap (Listed(e.cards[g].compute)
                                              \cup Listed(e.cards[g].graphics))
                 /\ \A q \in DOMAIN procs :
                       procs[q] = "compute" <=> q \in Listed(e.cards[g].compute)
      <4> DEFINE P == Processes(e.cards[g])
      <4>1. r.cards[g].procs = P /\ r.cards[g].util = e.cards[g].util
        BY <3>1 DEF Faithful
      <4>2. /\ Listed(e.cards[g].compute) \subseteq Pids
            /\ Listed(e.cards[g].graphics) \subseteq Pids
            /\ DOMAIN P = Listed(e.cards[g].compute) \cup Listed(e.cards[g].graphics)
            /\ \A q \in DOMAIN P : P[q] = "compute" <=> q \in Listed(e.cards[g].compute)
        BY <2>1, <3>1
      <4> HIDE DEF P
      <4> QED BY <4>1, <4>2
    <3> HIDE DEF e
    <3> QED BY <3>1, <3>2 DEF Matches, Faithful, e
  <2>3. ASSUME NEW o \in board \cup wire
        PROVE  /\ o.by = taken[o.ts].by
               /\ o.status = "error" <=> taken[o.ts].lost
               /\ Matches(o.cards, taken[o.ts].cards, {q \in Pids : q > 0})
    <3> DEFINE e == taken[o.ts]
    <3>1. o.ts \in 1 .. Len(taken) /\ Truthful(o, e)
      BY DEF SInv, Sent
    <3>2. ASSUME NEW g \in DOMAIN e.cards
          PROVE  LET procs == o.cards[g].procs IN
                 /\ o.cards[g].util = e.cards[g].util
                 /\ DOMAIN procs = {q \in Pids : q > 0}
                        \cap (Listed(e.cards[g].compute) \cup Listed(e.cards[g].graphics))
                 /\ \A q \in DOMAIN procs :
                       procs[q] = "compute" <=> q \in Listed(e.cards[g].compute)
      <4> DEFINE P == Processes(e.cards[g])
      <4>1. /\ o.cards[g].procs = [q \in {q \in DOMAIN P : q > 0} |-> P[q]]
            /\ o.cards[g].util = e.cards[g].util
        BY <3>1 DEF Truthful
      <4>2. /\ Listed(e.cards[g].compute) \subseteq Pids
            /\ Listed(e.cards[g].graphics) \subseteq Pids
            /\ DOMAIN P = Listed(e.cards[g].compute) \cup Listed(e.cards[g].graphics)
            /\ \A q \in DOMAIN P : P[q] = "compute" <=> q \in Listed(e.cards[g].compute)
        BY <2>1, <3>1
      <4> HIDE DEF P
      <4> QED BY <4>1, <4>2
    <3> HIDE DEF e
    <3> QED BY <3>1, <3>2 DEF Matches, Truthful, e
  <2> QED BY <2>2, <2>3 DEF StoresMatchNvml
<1> QED BY <1>1, Invariant, PTL

(* A list that could not be read is told, and only then, and of its own    *)
(* snapshot and device (nvml.py:64-66, __main__.py:878-879).               *)
THEOREM UnreadIsAlwaysTold == SSpec => []UnreadIsTold
<1>1. SInv => UnreadIsTold
  BY DEF SInv, Sent, Truthful, UnreadIsTold, UnreadIn
<1> QED BY <1>1, Invariant, PTL

(* sync-once does not claim what is not so (__main__.py:606-638).          *)
THEOREM AnswersAreTrue == SSpec => []AnswerIsTrue
<1>1. SInv => AnswerIsTrue
  BY DEF SInv, AnswerIsTrue
<1> QED BY <1>1, Invariant, PTL

-----------------------------------------------------------------------------
(* Labels.  A counter stands for the moments a GPU was seen at: S are      *)
(* these moments, H those of a high reading.                               *)

After(S, t) == {u \in S : u > t}

Counts(S, H, k) ==
    /\ \A t \in H : k <= Cardinality(After(S, t))
    /\ H # {} => \E t \in H : k = Cardinality(After(S, t))

(* One moment more comes after every other.                                *)
LEMMA OneMore ==
    ASSUME NEW S \in SUBSET Nat, IsFiniteSet(S), NEW n \in Nat, \A t \in S : t < n
    PROVE  /\ \A t \in S : /\ Cardinality(After(S, t)) \in Nat
                           /\ Cardinality(After(S \cup {n}, t))
                                = Cardinality(After(S, t)) + 1
           /\ Cardinality(After(S \cup {n}, n)) = 0
<1>1. ASSUME NEW t \in S
      PROVE  /\ Cardinality(After(S, t)) \in Nat
             /\ Cardinality(After(S \cup {n}, t)) = Cardinality(After(S, t)) + 1
  <2>1. After(S, t) \in SUBSET S
    BY DEF After
  <2>2. IsFiniteSet(After(S, t))
    BY <2>1, FS_Subset
  <2>3. n \notin After(S, t)
    BY DEF After
  <2>4. After(S \cup {n}, t) = After(S, t) \cup {n}
    BY DEF After
  <2> QED BY <2>2, <2>3, <2>4, FS_AddElement, FS_CardinalityType
<1>2. After(S \cup {n}, n) = {}
  <2>1. \A u \in S \cup {n} : ~ u > n
    OBVIOUS
  <2> QED BY <2>1 DEF After
<1> QED BY <1>1, <1>2, FS_EmptySet

LEMMA CountsLow ==
    ASSUME NEW S \in SUBSET Nat, IsFiniteSet(S), NEW n \in Nat, \A t \in S : t < n,
           NEW H \in SUBSET S, NEW k \in Nat, Counts(S, H, k)
    PROVE  Counts(S \cup {n}, H, k + 1)
<1>1. \A t \in H : /\ Cardinality(After(S, t)) \in Nat
                   /\ Cardinality(After(S \cup {n}, t)) = Cardinality(After(S, t)) + 1
  BY OneMore
<1> QED BY <1>1 DEF Counts

LEMMA CountsHigh ==
    ASSUME NEW S \in SUBSET Nat, IsFiniteSet(S), NEW n \in Nat, \A t \in S : t < n,
           NEW H \in SUBSET S
    PROVE  Counts(S \cup {n}, H \cup {n}, 0)
<1>1. \A t \in H : Cardinality(After(S \cup {n}, t)) \in Nat
  <2>1. \A t \in H : /\ Cardinality(After(S, t)) \in Nat
                     /\ Cardinality(After(S \cup {n}, t)) = Cardinality(After(S, t)) + 1
    BY OneMore
  <2> QED BY <2>1
<1>2. Cardinality(After(S \cup {n}, n)) = 0
  BY OneMore
<1> QED BY <1>1, <1>2 DEF Counts

(* The tracker holds a GPU when none of its last Window moments was high.  *)
LEMMA CountsWindow ==
    ASSUME NEW S \in SUBSET Nat, IsFiniteSet(S), NEW H \in SUBSET S, NEW k \in Nat,
           Counts(S, H, k)
    PROVE  (k >= Window \/ H = {}) <=> ~ \E t \in H : Cardinality(After(S, t)) < Window
<1>1. \A t \in H : Cardinality(After(S, t)) \in Nat
  <2> SUFFICES ASSUME NEW t \in H PROVE Cardinality(After(S, t)) \in Nat
    OBVIOUS
  <2>1. After(S, t) \in SUBSET S
    BY DEF After
  <2> QED BY <2>1, FS_Subset, FS_CardinalityType
<1>2. Window \in Nat
  BY WindowAssumption
<1> QED BY <1>1, <1>2 DEF Counts

(* The moments up to n that run k saw g at in the history T.               *)
Sees(e, k, g) == e.by = "daemon" /\ e.run = k /\ g \in DOMAIN e.cards

SeenIn(T, n, k, g) == {t \in 1 .. n : Sees(T[t], k, g)}

HighIn(T, n, k, g) == {t \in SeenIn(T, n, k, g) : T[t].cards[g].util = "high"}

Tracked(g) ==
    /\ g \in seen <=> HighIn(taken, Len(taken), run, g) # {}
    /\ Counts(SeenIn(taken, Len(taken), run, g),
              HighIn(taken, Len(taken), run, g), streak[g])

(* The labels of s are those of its own moments in T.                      *)
BaseOf(s, T, g) ==
    LET S == SeenIn(T, s.ts, s.run, g)
    IN  IF s.by = "daemon" THEN {t \in S : Cardinality(After(S, t)) < Window}
        ELSE {s.ts}

Uses(procs) == \E q \in DOMAIN procs : procs[q] = "compute"

Labelled(s, T) ==
    \A g \in DOMAIN s.cards :
        /\ Uses(s.cards[g].procs) <=> s.cards[g].state \in {"active", "idle_held"}
        /\ Uses(s.cards[g].procs) =>
              (s.cards[g].state = "active"
                  <=> \E t \in BaseOf(s, T, g) : T[t].cards[g].util = "high")

LInv == /\ \A g \in Gpus : Tracked(g)
        /\ \A t \in 1 .. Len(taken) : taken[t].run <= run
        /\ \A p \in Procs : at[p] = "write" => Labelled(snap[p], taken)
        /\ \A r \in rows : Labelled(r, taken)

LEMMA SeenIsFinite ==
    ASSUME NEW T, NEW n \in Nat, NEW k, NEW g
    PROVE  /\ SeenIn(T, n, k, g) \in SUBSET Nat /\ IsFiniteSet(SeenIn(T, n, k, g))
           /\ HighIn(T, n, k, g) \in SUBSET SeenIn(T, n, k, g)
           /\ \A t \in SeenIn(T, n, k, g) : t < n + 1
<1>1. SeenIn(T, n, k, g) \in SUBSET (1 .. n)
  BY DEF SeenIn
<1>2. IsFiniteSet(1 .. n)
  BY FS_Interval
<1> QED BY <1>1, <1>2, FS_Subset DEF HighIn

(* A longer history says the same of earlier moments.                      *)
Continues(U, T, n) == \A i \in 1 .. n : U[i] = T[i]

LEMMA SeenStays ==
    ASSUME NEW T, NEW U, NEW n \in Nat, Continues(U, T, n), NEW k, NEW g
    PROVE  /\ SeenIn(U, n, k, g) = SeenIn(T, n, k, g)
           /\ HighIn(U, n, k, g) = HighIn(T, n, k, g)
<1>1. SeenIn(U, n, k, g) = SeenIn(T, n, k, g)
  BY DEF SeenIn, Continues
<1>2. \A t \in SeenIn(T, n, k, g) : U[t] = T[t]
  BY DEF SeenIn, Continues
<1> QED BY <1>1, <1>2 DEF HighIn

LEMMA LabelsStay ==
    ASSUME NEW T, NEW U, NEW n \in Nat, Continues(U, T, n),
           NEW s, s.ts \in 1 .. n, Labelled(s, T)
    PROVE  Labelled(s, U)
<1> SUFFICES ASSUME NEW g \in DOMAIN s.cards
             PROVE  (\E t \in BaseOf(s, U, g) : U[t].cards[g].util = "high")
                    <=> (\E t \in BaseOf(s, T, g) : T[t].cards[g].util = "high")
  BY DEF Labelled
<1>1. s.ts \in Nat /\ Continues(U, T, s.ts)
  BY DEF Continues
<1>2. SeenIn(U, s.ts, s.run, g) = SeenIn(T, s.ts, s.run, g)
  BY <1>1, SeenStays
<1>3. BaseOf(s, U, g) = BaseOf(s, T, g)
  BY <1>2 DEF BaseOf
<1>4. \A t \in BaseOf(s, T, g) : t \in 1 .. s.ts
  BY <1>1 DEF BaseOf, SeenIn
<1> QED BY <1>1, <1>3, <1>4 DEF Continues

(* The history with one entry more, on g or not.                           *)
OneMoreSeen(T, U, n, m, k, g) ==
    LET S == SeenIn(T, n, k, g)
        H == HighIn(T, n, k, g)
    IN  /\ ~Sees(U[m], k, g) => SeenIn(U, m, k, g) = S /\ HighIn(U, m, k, g) = H
        /\ Sees(U[m], k, g) =>
              /\ SeenIn(U, m, k, g) = S \cup {m}
              /\ U[m].cards[g].util = "high" => HighIn(U, m, k, g) = H \cup {m}
              /\ U[m].cards[g].util # "high" => HighIn(U, m, k, g) = H

LEMMA SeenMore ==
    ASSUME NEW T, NEW U, NEW n \in Nat, NEW m, m = n + 1, Continues(U, T, n),
           NEW k, NEW g
    PROVE  OneMoreSeen(T, U, n, m, k, g)
<1>1. 1 .. m = (1 .. n) \cup {m}
  OBVIOUS
<1>2. /\ SeenIn(U, n, k, g) = SeenIn(T, n, k, g)
      /\ HighIn(U, n, k, g) = HighIn(T, n, k, g)
  BY SeenStays
<1>3. ASSUME ~Sees(U[m], k, g)
      PROVE  /\ SeenIn(U, m, k, g) = SeenIn(U, n, k, g)
             /\ HighIn(U, m, k, g) = HighIn(U, n, k, g)
  <2>1. SeenIn(U, m, k, g) = SeenIn(U, n, k, g)
    BY <1>1, <1>3 DEF SeenIn
  <2> QED BY <2>1 DEF HighIn
<1>4. ASSUME Sees(U[m], k, g)
      PROVE  /\ SeenIn(U, m, k, g) = SeenIn(U, n, k, g) \cup {m}
             /\ U[m].cards[g].util = "high" =>
                   HighIn(U, m, k, g) = HighIn(U, n, k, g) \cup {m}
             /\ U[m].cards[g].util # "high" =>
                   HighIn(U, m, k, g) = HighIn(U, n, k, g)
  <2>1. SeenIn(U, m, k, g) = SeenIn(U, n, k, g) \cup {m}
    BY <1>1, <1>4 DEF SeenIn
  <2> QED BY <2>1 DEF HighIn
<1> QED BY <1>2, <1>3, <1>4 DEF OneMoreSeen

(* The label of a card, and whether compute processes are on it.           *)
LEMMA LabelSays ==
    ASSUME NEW c \in CardType, NEW g, NEW str, NEW sn, NEW o
    PROVE  LET l == Label(g, [util |-> c.util, compute |-> Residency(c)], str, sn, o)
           IN  /\ Uses(Processes(c)) <=> l \in {"active", "idle_held"}
               /\ Uses(Processes(c)) =>
                     (l = "active" <=> c.util = "high" \/ ~Held(g, str, sn, o))
<1>1. Residency(c) = "resident" <=> Uses(Processes(c))
  BY DEF Residency, Uses, Processes, Listed
<1>2. Residency(c) \in {"unavailable", "resident", "none"}
  BY DEF Residency
<1> QED BY <1>1, <1>2 DEF Label

(* The counters after a tick of the daemon still count.                    *)
LEMMA TickIsTracked ==
    ASSUME SInv, TrackerTypeOK, LInv, NEW cards \in Fleets, Apply(Readings(cards)),
           run' = run, Len(taken') = Len(taken) + 1,
           Continues(taken', taken, Len(taken)),
           taken'[Len(taken) + 1]
               = [by |-> "daemon", run |-> run, lost |-> FALSE, cards |-> cards]
    PROVE  \A g \in Gpus : Tracked(g)' /\ streak'[g] \in Nat
<1> SUFFICES ASSUME NEW g \in Gpus PROVE Tracked(g)' /\ streak'[g] \in Nat
  OBVIOUS
<1> DEFINE n == Len(taken)
           m == n + 1
           S == SeenIn(taken, n, run, g)
           H == HighIn(taken, n, run, g)
           sample == Readings(cards)[g]
<1>1. /\ n \in Nat /\ m \in Nat /\ m = n + 1 /\ streak[g] \in Nat
      /\ Counts(S, H, streak[g]) /\ (g \in seen <=> H # {})
  BY DEF SInv, Shape, TrackerTypeOK, LInv, Tracked
<1>2. /\ S \in SUBSET Nat /\ IsFiniteSet(S) /\ H \in SUBSET S
      /\ \A t \in S : t < m
  BY <1>1, SeenIsFinite
<1>3. /\ g \notin DOMAIN cards => /\ SeenIn(taken', m, run, g) = S
                                 /\ HighIn(taken', m, run, g) = H
      /\ g \in DOMAIN cards =>
            /\ SeenIn(taken', m, run, g) = S \cup {m}
            /\ cards[g].util = "high" =>
                  HighIn(taken', m, run, g) = H \cup {m}
            /\ cards[g].util # "high" => HighIn(taken', m, run, g) = H
  <2>1. /\ taken'[m].by = "daemon" /\ taken'[m].run = run
        /\ taken'[m].cards = cards
    OBVIOUS
  <2>2. Sees(taken'[m], run, g) <=> g \in DOMAIN cards
    BY <2>1 DEF Sees
  <2>3. Continues(taken', taken, n)
    OBVIOUS
  <2> HIDE DEF n, m
  <2>4. OneMoreSeen(taken, taken', n, m, run, g)
    BY <1>1, <2>3, SeenMore
  <2> QED BY <2>1, <2>2, <2>4 DEF OneMoreSeen
<1>4. /\ streak' = Counted(streak, Readings(cards))
      /\ seen' = seen \cup High(Readings(cards))
  BY DEF Apply
<1>5. Tracked(g)' <=> /\ g \in seen' <=> HighIn(taken', m, run, g) # {}
                      /\ Counts(SeenIn(taken', m, run, g),
                                HighIn(taken', m, run, g), streak'[g])
  BY DEF Tracked
<1> HIDE DEF S, H, n, m, sample
<1>6. CASE g \notin DOMAIN cards
  <2>1. sample = Gone
    BY <1>6 DEF Readings, sample
  <2>2. streak'[g] = streak[g] /\ (g \in seen' <=> g \in seen)
    BY <1>4, <2>1 DEF Counted, High, Low, sample
  <2> QED BY <1>1, <1>3, <1>5, <1>6, <2>2
<1>7. CASE g \in DOMAIN cards
  <2>1. cards[g] \in CardType
    BY <1>7, SamplingAssumption DEF Fleets
  <2>2. sample.util = cards[g].util /\ sample.util \in {"low", "high"}
    BY <1>7, <2>1 DEF Readings, CardType, sample
  <2>3. sample # Gone
    BY <2>2 DEF Gone, Promise!Gone
  <2>4. CASE cards[g].util = "high"
    <3>1. streak'[g] = 0 /\ g \in seen'
      BY <1>4, <2>2, <2>3, <2>4 DEF Counted, High, Low, sample
    <3>2. Counts(S \cup {m}, H \cup {m}, 0)
      BY <1>1, <1>2, CountsHigh
    <3>3. /\ SeenIn(taken', m, run, g) = S \cup {m}
          /\ HighIn(taken', m, run, g) = H \cup {m} /\ H \cup {m} # {}
      BY <1>3, <1>7, <2>4
    <3> QED BY <1>5, <3>1, <3>2, <3>3
  <2>5. CASE cards[g].util = "low"
    <3> DEFINE k == streak[g] + 1
    <3>1. streak'[g] = k /\ k \in Nat /\ (g \in seen' <=> g \in seen)
      BY <1>1, <1>4, <2>2, <2>3, <2>5 DEF Counted, High, Low, sample
    <3>2. Counts(S \cup {m}, H, k)
      BY <1>1, <1>2, CountsLow
    <3> HIDE DEF k
    <3>3. SeenIn(taken', m, run, g) = S \cup {m} /\ HighIn(taken', m, run, g) = H
      BY <1>3, <1>7, <2>5
    <3> QED BY <1>1, <1>5, <3>1, <3>2, <3>3
  <2> QED BY <2>1, <2>4, <2>5 DEF CardType
<1> QED BY <1>6, <1>7

(* A snapshot is labelled as its moments say.                              *)
LEMMA TakeLabels ==
    ASSUME SInv, TrackerTypeOK, LInv, NEW p \in Procs, NEW cards \in Fleets,
           IF p = "daemon" THEN Apply(Readings(cards)) ELSE Classify(Readings(cards)),
           run' = run, Len(taken') = Len(taken) + 1,
           Continues(taken', taken, Len(taken)),
           taken'[Len(taken) + 1]
               = [by |-> p, run |-> RunOf(p), lost |-> FALSE, cards |-> cards]
    PROVE  Labelled(Snapshot(p, cards, state'), taken')
<1> DEFINE n == Len(taken) + 1
           s == Snapshot(p, cards, state')
           T == taken'
<1>1. /\ s.ts = n /\ s.by = p /\ s.run = RunOf(p) /\ DOMAIN s.cards = DOMAIN cards
      /\ n \in Nat /\ T[n].cards = cards
  BY DEF Snapshot, SInv, Shape
<1> SUFFICES ASSUME NEW g \in DOMAIN cards
             PROVE  /\ Uses(s.cards[g].procs)
                          <=> s.cards[g].state \in {"active", "idle_held"}
                    /\ Uses(s.cards[g].procs) =>
                          (s.cards[g].state = "active"
                              <=> \E t \in BaseOf(s, T, g) : T[t].cards[g].util = "high")
  BY <1>1 DEF Labelled
<1>2. g \in Gpus /\ cards[g] \in CardType
  BY SamplingAssumption DEF Fleets
<1>3. /\ s.cards[g].procs = Processes(cards[g])
      /\ s.cards[g].state = state'[g]
  BY DEF Snapshot
<1>4. /\ Readings(cards)[g] = [util |-> cards[g].util, compute |-> Residency(cards[g])]
      /\ Readings(cards)[g] # Gone
  <2>1. Readings(cards)[g] = [util |-> cards[g].util, compute |-> Residency(cards[g])]
    BY <1>2 DEF Readings
  <2> QED BY <1>2, <2>1 DEF CardType, Gone, Promise!Gone
<1> HIDE DEF s, T, n
<1>5. CASE p = "daemon"
  <2>1. Apply(Readings(cards)) /\ s.run = run
    BY <1>1, <1>5 DEF RunOf
  <2>2. state'[g] = Label(g, Readings(cards)[g], streak', seen', FALSE)
    BY <1>2, <1>4, <2>1 DEF Apply, Labels
  <2>3. Tracked(g)' /\ streak'[g] \in Nat
    BY <1>2, <1>5, <2>1, TickIsTracked DEF RunOf
  <2> DEFINE S == SeenIn(T, n, run, g)
             H == HighIn(T, n, run, g)
  <2>4. Counts(S, H, streak'[g]) /\ (g \in seen' <=> H # {})
    BY <2>3 DEF Tracked, n, T
  <2>5. S \in SUBSET Nat /\ IsFiniteSet(S) /\ H \in SUBSET S
    BY <1>1, SeenIsFinite
  <2>6. BaseOf(s, T, g) = {t \in S : Cardinality(After(S, t)) < Window}
    BY <1>1, <1>5, <2>1 DEF BaseOf
  <2>7. Held(g, streak', seen', FALSE) <=> (streak'[g] >= Window \/ ~(g \in seen'))
    BY DEF Held
  <2>8. H = {t \in S : T[t].cards[g].util = "high"}
    BY DEF HighIn
  <2>9. (streak'[g] >= Window \/ ~(g \in seen'))
           <=> ~ \E t \in H : Cardinality(After(S, t)) < Window
    <3> DEFINE k == streak'[g]
    <3>1. k \in Nat /\ Counts(S, H, k)
      BY <2>3, <2>4
    <3> HIDE DEF k, S, H
    <3>2. (k >= Window \/ H = {}) <=> ~ \E t \in H : Cardinality(After(S, t)) < Window
      BY <2>5, <3>1, CountsWindow
    <3> QED BY <2>4, <3>2 DEF k
  <2> HIDE DEF S, H
  <2>10. ~Held(g, streak', seen', FALSE)
            <=> \E t \in BaseOf(s, T, g) : T[t].cards[g].util = "high"
    BY <2>6, <2>7, <2>8, <2>9
  <2>11. cards[g].util = "high" => ~Held(g, streak', seen', FALSE)
    <3>1. streak' = Counted(streak, Readings(cards))
          /\ seen' = seen \cup High(Readings(cards))
      BY <2>1 DEF Apply
    <3>2. cards[g].util = "high" => streak'[g] = 0 /\ g \in seen'
      BY <1>2, <1>4, <3>1 DEF Counted, High, Low
    <3>3. cards[g].util = "high" => ~(streak'[g] >= Window) /\ g \in seen'
      BY <3>2, WindowAssumption
    <3> QED BY <2>7, <3>3, Zenon
  <2> DEFINE l == Label(g, [util |-> cards[g].util, compute |-> Residency(cards[g])],
                        streak', seen', FALSE)
  <2>12. /\ Uses(Processes(cards[g])) <=> l \in {"active", "idle_held"}
         /\ Uses(Processes(cards[g])) =>
               (l = "active" <=> cards[g].util = "high"
                                 \/ ~Held(g, streak', seen', FALSE))
    BY <1>2, LabelSays
  <2>13. s.cards[g].state = l
    BY <1>3, <1>4, <2>2
  <2> HIDE DEF l
  <2> QED BY <1>3, <2>10, <2>11, <2>12, <2>13
<1>6. CASE p # "daemon"
  <2>1. PICK str, sn : state'[g] = Label(g, Readings(cards)[g], str, sn, TRUE)
    BY <1>2, <1>4, <1>6 DEF Classify, Labels
  <2>2. Held(g, str, sn, TRUE)
    BY DEF Held
  <2>3. BaseOf(s, T, g) = {n}
    BY <1>1, <1>6 DEF BaseOf
  <2> DEFINE l == Label(g, [util |-> cards[g].util, compute |-> Residency(cards[g])],
                        str, sn, TRUE)
  <2>4. /\ Uses(Processes(cards[g])) <=> l \in {"active", "idle_held"}
        /\ Uses(Processes(cards[g])) =>
              (l = "active" <=> cards[g].util = "high" \/ ~Held(g, str, sn, TRUE))
    BY <1>2, LabelSays
  <2>5. s.cards[g].state = l
    BY <1>3, <1>4, <2>1
  <2> HIDE DEF l
  <2> QED BY <1>1, <1>3, <2>2, <2>3, <2>4, <2>5
<1> QED BY <1>5, <1>6

LEMMA LabelInit == SInit => LInv
<1> SUFFICES ASSUME SInit PROVE LInv
  OBVIOUS
<1>1. taken = <<>> /\ Len(taken) = 0 /\ rows = {} /\ seen = {}
  BY DEF SInit, UInit
<1>2. ASSUME NEW g \in Gpus PROVE Tracked(g)
  <2>1. HighIn(taken, Len(taken), run, g) = {}
    BY <1>1 DEF HighIn, SeenIn
  <2> QED BY <1>1, <2>1 DEF Tracked, Counts
<1>3. \A p \in Procs : at[p] # "write"
  BY DEF SInit
<1> QED BY <1>1, <1>2, <1>3 DEF LInv

LEMMA LabelStep ==
    ASSUME SInv, TrackerTypeOK, LInv, [SNext]_vars
    PROVE  LInv'
<1> USE DEF Starts, GoesTo
<1>0. Len(taken) \in Nat /\ run \in Nat
  BY DEF SInv, Shape
(* A new entry e of the history, and its snapshot in hand.                 *)
<1>1. ASSUME NEW p \in Procs, NEW e \in Entry, NEW s, NEW place,
             taken' = Append(taken, e), e.run <= run, UNCHANGED <<run, rows>>,
             snap' = [snap EXCEPT ![p] = s], at' = [at EXCEPT ![p] = place],
             \A g \in Gpus : Tracked(g)',
             place = "write" => Labelled(s, taken')
      PROVE  LInv'
  <2>1. /\ Len(taken') = Len(taken) + 1 /\ taken'[Len(taken) + 1] = e
        /\ Continues(taken', taken, Len(taken))
    BY <1>1, AppendKeeps DEF Continues, SInv, Shape
  <2>2. \A t \in 1 .. Len(taken') : taken'[t].run <= run'
    BY <1>0, <1>1, <2>1 DEF LInv, Continues
  <2>3. ASSUME NEW q \in Procs, at'[q] = "write" PROVE Labelled(snap'[q], taken')
    <3>1. CASE q = p
      BY <1>1, <2>3, <3>1 DEF SInv, Shape
    <3>2. CASE q # p
      <4>1. at[q] = "write" /\ snap'[q] = snap[q]
        BY <1>1, <2>3, <3>2 DEF SInv, Shape
      <4>2. snap[q].ts \in 1 .. Len(taken) /\ Labelled(snap[q], taken)
        BY <4>1 DEF SInv, InHand, LInv
      <4> QED BY <1>0, <2>1, <4>1, <4>2, LabelsStay
    <3> QED BY <3>1, <3>2
  <2>4. ASSUME NEW r \in rows PROVE Labelled(r, taken')
    <3>1. r.ts \in 1 .. Len(taken) /\ Labelled(r, taken)
      BY DEF SInv, Stored, LInv
    <3> QED BY <1>0, <2>1, <3>1, LabelsStay
  <2> QED BY <1>1, <2>2, <2>3, <2>4 DEF LInv
(* What sync-once does to the history is nothing to the tracker.           *)
<1>2. ASSUME NEW e \in Entry, e.by = "once", taken' = Append(taken, e),
             UNCHANGED <<run, streak, seen>>, NEW g \in Gpus
      PROVE  Tracked(g)'
  <2>1. /\ Len(taken') = Len(taken) + 1 /\ taken'[Len(taken) + 1] = e
        /\ Continues(taken', taken, Len(taken))
    BY <1>2, AppendKeeps DEF Continues, SInv, Shape
  <2>2. /\ SeenIn(taken', Len(taken) + 1, run, g) = SeenIn(taken, Len(taken), run, g)
        /\ HighIn(taken', Len(taken) + 1, run, g) = HighIn(taken, Len(taken), run, g)
    <3>1. ~Sees(taken'[Len(taken) + 1], run, g)
      BY <1>2, <2>1 DEF Sees
    <3> DEFINE n == Len(taken)
               m == n + 1
    <3>2. n \in Nat /\ m = n + 1 /\ Continues(taken', taken, n)
      BY <1>0, <2>1
    <3>3. ~Sees(taken'[m], run, g)
      BY <3>1
    <3> HIDE DEF n, m
    <3>4. OneMoreSeen(taken, taken', n, m, run, g)
      BY <3>2, SeenMore
    <3>5. /\ SeenIn(taken', m, run, g) = SeenIn(taken, n, run, g)
          /\ HighIn(taken', m, run, g) = HighIn(taken, n, run, g)
      BY <3>3, <3>4 DEF OneMoreSeen
    <3> QED BY <3>5 DEF n, m
  <2> QED BY <1>2, <2>1, <2>2 DEF LInv, Tracked
<1>3. ASSUME NEW p \in Procs, Take(p) PROVE LInv'
  <2>1. PICK cards \in Fleets :
          /\ IF p = "daemon" THEN Apply(Readings(cards)) ELSE Classify(Readings(cards))
          /\ Records(p, Snapshot(p, cards, state'), cards)
    BY <1>3 DEF Take
  <2> DEFINE s == Snapshot(p, cards, state')
             e == [by |-> p, run |-> RunOf(p), lost |-> FALSE, cards |-> cards]
  <2>2. e \in Entry /\ e.run <= run
    BY <1>0 DEF Entry, RunOf
  <2>3. taken' = Append(taken, e)
    BY <2>1 DEF Records, Snapshot
  <2>4. /\ Len(taken') = Len(taken) + 1 /\ taken'[Len(taken) + 1] = e
        /\ Continues(taken', taken, Len(taken))
    BY <2>2, <2>3, AppendKeeps DEF Continues, SInv, Shape
  <2>5. run' = run
    BY <1>3 DEF Take
  <2>6. Labelled(s, taken')
    BY <2>1, <2>4, <2>5, TakeLabels
  <2>7. \A g \in Gpus : Tracked(g)'
    <3>1. CASE p = "daemon"
      BY <2>1, <2>4, <2>5, <3>1, TickIsTracked DEF RunOf
    <3>2. CASE p = "once"
      <4>1. UNCHANGED <<run, streak, seen>> /\ e.by = "once"
        BY <2>1, <2>5, <3>2 DEF Classify
      <4> QED BY <1>2, <2>2, <2>3, <4>1
    <3> QED BY <3>1, <3>2 DEF Procs
  <2>8. snap' = [snap EXCEPT ![p] = s] /\ at' = [at EXCEPT ![p] = "write"]
    BY <1>3, <2>1 DEF Take, Records
  <2> HIDE DEF s, e
  <2> QED BY <1>1, <1>3, <2>2, <2>3, <2>6, <2>7, <2>8 DEF Take
<1>4. ASSUME ProbeFails PROVE LInv'
  <2> DEFINE s == [ts |-> Len(taken) + 1, by |-> "once", run |-> 0, lost |-> TRUE,
                   cards |-> <<>>]
             e == [by |-> "once", run |-> 0, lost |-> TRUE, cards |-> <<>>]
  <2>1. e \in Entry /\ "once" \in Procs /\ RunOf("once") = 0 /\ e.run <= run
        /\ e.by = "once"
    BY <1>0 DEF Entry, Procs, RunOf
  <2>2. /\ taken' = Append(taken, e)
        /\ snap' = [snap EXCEPT !["once"] = s] /\ at' = [at EXCEPT !["once"] = "push"]
        /\ UNCHANGED <<run, rows, streak, seen>>
    BY <1>4, <2>1 DEF ProbeFails, Records, tracker
  <2> HIDE DEF s, e
  <2>3. \A g \in Gpus : Tracked(g)'
    BY <1>2, <2>1, <2>2
  <2> QED BY <1>1, <2>1, <2>2, <2>3
<1>5. ASSUME NEW p \in Procs, Killed(p) PROVE LInv'
  <2>1. /\ taken' = taken /\ rows' = rows
        /\ \A q \in Procs : at'[q] = "write" => at[q] = "write" /\ snap'[q] = snap[q]
    BY <1>5 DEF Killed, SInv, Shape
  <2>2. CASE UNCHANGED <<tracker, run>>
    BY <2>1, <2>2 DEF LInv, Tracked, tracker
  <2>3. CASE run' = run + 1 /\ NewTracker
    <3>1. \A t \in 1 .. Len(taken) : taken[t].run <= run' /\ taken[t].run # run'
      <4>1. \A t \in 1 .. Len(taken) : taken[t].run \in Nat
        BY DEF SInv, Shape, Entry
      <4> QED BY <1>0, <2>3, <4>1 DEF LInv
    <3>2. ASSUME NEW g \in Gpus PROVE Tracked(g)'
      <4>1. HighIn(taken, Len(taken), run', g) = {} /\ seen' = {}
        BY <2>3, <3>1 DEF HighIn, SeenIn, Sees, NewTracker
      <4> QED BY <2>1, <4>1 DEF Tracked, Counts
    <3> QED BY <2>1, <3>1, <3>2 DEF LInv
  <2> QED BY <1>5, <2>2, <2>3 DEF Killed
<1>6. ASSUME UNCHANGED <<taken, run, streak, seen>>,
             \A q \in Procs : at'[q] = "write" => at[q] = "write" /\ snap'[q] = snap[q],
             \A r \in rows' : r \in rows \/ \E q \in Procs : at[q] = "write" /\ r = snap[q]
      PROVE  LInv'
  BY <1>6 DEF LInv, Tracked
<1>7. ASSUME NEW p \in Procs,
             \/ CollectFails(p) \/ Write(p) \/ WriteFails(p) \/ PayloadInvalid(p)
             \/ Send(p) \/ Answered(p) \/ PushFails(p) \/ TimesOut(p)
      PROVE  LInv'
  <2>1. /\ UNCHANGED <<taken, run, streak, seen>>
        /\ \A r \in rows' : r \in rows \/ \E q \in Procs : at[q] = "write" /\ r = snap[q]
    BY <1>7 DEF CollectFails, Write, WriteFails, PayloadInvalid, Send, Answered,
                PushFails, TimesOut, Ends, tracker
  <2>2. \A q \in Procs : at'[q] = "write" => at[q] = "write" /\ snap'[q] = snap[q]
    BY <1>7 DEF CollectFails, Write, WriteFails, PayloadInvalid, Send, Answered,
                PushFails, TimesOut, Ends, SInv, Shape
  <2> QED BY <1>6, <2>1, <2>2
<1>8. ASSUME Accept \/ UNCHANGED vars PROVE LInv'
  BY <1>6, <1>8 DEF Accept, vars, tracker
<1> QED BY <1>3, <1>4, <1>5, <1>7, <1>8 DEF SNext

(* The label of a row can be told from the rows of its run, unless one of  *)
(* the last Window readings was lost, and that of sync-once from its own   *)
(* row (usage_state.py:29-59, daemon.py:97-99).                            *)
THEOREM LabelsMatchHistory == SSpec => []LabelMatchesHistory
<1>1. USpec => []TrackerTypeOK
  BY TrackerIsSound, PTL
<1>2. SInv /\ LInv => LabelMatchesHistory
  <2> SUFFICES ASSUME SInv, LInv, NEW r \in rows, NEW g \in DOMAIN r.cards
               PROVE  LET card == r.cards[g]
                          base == IF r.by = "daemon" THEN Recent(r, g) ELSE {r.ts}
                          used == \E q \in DOMAIN card.procs : card.procs[q] = "compute"
                          busy == \E x \in rows : x.ts \in base /\ x.cards[g].util = "high"
                      IN /\ used <=> card.state \in {"active", "idle_held"}
                         /\ used /\ base \subseteq Kept => (card.state = "active" <=> busy)
    BY DEF LabelMatchesHistory
  <2>1. BaseOf(r, taken, g) = IF r.by = "daemon" THEN Recent(r, g) ELSE {r.ts}
    BY DEF BaseOf, Recent, Seen, SeenIn, Sees, After
  <2>2. \A t \in BaseOf(r, taken, g) : g \in DOMAIN taken[t].cards
    BY DEF BaseOf, SeenIn, Sees, SInv, Stored, Faithful
  <2>3. ASSUME NEW x \in rows, x.ts \in BaseOf(r, taken, g)
        PROVE  x.cards[g].util = taken[x.ts].cards[g].util
    BY <2>2, <2>3 DEF SInv, Stored, Faithful
  <2>4. /\ Uses(r.cards[g].procs) <=> r.cards[g].state \in {"active", "idle_held"}
        /\ Uses(r.cards[g].procs) =>
              (r.cards[g].state = "active"
                  <=> \E t \in BaseOf(r, taken, g) : taken[t].cards[g].util = "high")
    BY DEF LInv, Labelled
  <2>5. BaseOf(r, taken, g) \subseteq Kept =>
          ((\E t \in BaseOf(r, taken, g) : taken[t].cards[g].util = "high")
             <=> \E x \in rows : x.ts \in BaseOf(r, taken, g) /\ x.cards[g].util = "high")
    BY <2>3 DEF Kept
  <2> QED BY <2>1, <2>4, <2>5 DEF Uses
<1>3. SInv /\ TrackerTypeOK /\ LInv /\ [SNext]_vars => LInv'
  BY LabelStep
<1> QED BY <1>1, <1>2, <1>3, LabelInit, Invariant, SamplingTracks, PTL DEF SSpec
=============================================================================

------------------------- MODULE Lifecycle_proofs -------------------------
(***************************************************************************)
(* What holds of the start, status and stop commands for any number of     *)
(* terminals, process numbers and daemons.                                 *)
(***************************************************************************)
EXTENDS Lifecycle, TLAPS

(* From the spawn to the end of start, a command holds a real number; so   *)
(* does a stop that has passed its check.                                  *)
HoldsPid ==
    \A s \in Shells :
        cmd[s].pc \in {"write", "written", "poll", "kill", "await"}
        => cmd[s].pid \in Pids

(* Why no stray signal is sent: a number that stop has checked turns into  *)
(* a foreign process only by being freed first, and the command is marked. *)
Checked ==
    \A s \in Shells :
        cmd[s].pc = "kill" /\ ~cmd[s].lost => proc[cmd[s].pid] # Foreign

StrayInv == TypeOK /\ HoldsPid /\ Checked /\ NoStraySignal

LEMMA InitStray == Init => StrayInv
<1> SUFFICES ASSUME Init PROVE StrayInv
    OBVIOUS
<1> USE LifecycleAssumption DEF Init
<1>1. Idle \in Sessions /\ Idle.pc = "idle"
  BY DEF Idle, Session, Sessions, Phases, Outcomes
<1>2. TypeOK
  BY <1>1 DEF TypeOK
<1>3. \A s \in Shells : cmd[s].pc = "idle"
  BY <1>1
<1> QED BY <1>2, <1>3 DEF StrayInv, HoldsPid, Checked, NoStraySignal

(* What the two ways a command goes on do to its own record.               *)
LEMMA StepEffect ==
    ASSUME NEW s \in Shells, NEW from, NEW to \in Phases, cmd \in [Shells -> Sessions],
           Step(s, from, to)
    PROVE  /\ cmd[s].pc = from /\ cmd' \in [Shells -> Sessions]
           /\ cmd'[s].pc = to /\ cmd'[s].pid = cmd[s].pid
           /\ cmd'[s].lost = cmd[s].lost /\ cmd'[s].op = cmd[s].op
           /\ cmd'[s].out = cmd[s].out
           /\ \A r \in Shells : r # s => cmd'[r] = cmd[r]
BY DEF Step, Sessions

LEMMA FinishEffect ==
    ASSUME NEW s \in Shells, NEW out \in Outcomes, cmd \in [Shells -> Sessions],
           Finish(s, out)
    PROVE  /\ cmd' \in [Shells -> Sessions]
           /\ cmd'[s].pc = "idle" /\ cmd'[s].out = out
           /\ \A r \in Shells : r # s => cmd'[r] = cmd[r]
<1>1. cmd[s].op \in {"none", "start", "status", "stop"}
  BY DEF Sessions
<1>2. Session("idle", cmd[s].op, NoPid, out) \in Sessions
  BY <1>1 DEF Session, Sessions, Phases
<1>3. /\ Session("idle", cmd[s].op, NoPid, out).pc = "idle"
      /\ Session("idle", cmd[s].op, NoPid, out).out = out
  BY DEF Session
<1> QED BY <1>2, <1>3 DEF Finish

LEMMA EnterEffect ==
    ASSUME NEW s \in Shells, NEW op \in {"start", "status", "stop"},
           TypeOK, Enter(s, op)
    PROVE  /\ cmd[s].pc = "idle" /\ cmd' \in [Shells -> Sessions]
           /\ cmd'[s].pc = "check" /\ cmd'[s].pid = file /\ cmd'[s].out = "none"
           /\ \A r \in Shells : r # s => cmd'[r] = cmd[r]
           /\ UNCHANGED <<file, proc, spawns, stray>> /\ calm' \in BOOLEAN
           /\ calm' = (calm /\ \A r \in Shells : ~Busy(r))
<1>1. Session("check", op, file, "none") \in Sessions
  BY DEF Session, Sessions, Phases, Outcomes, TypeOK
<1>2. /\ Session("check", op, file, "none").pc = "check"
      /\ Session("check", op, file, "none").pid = file
      /\ Session("check", op, file, "none").out = "none"
  BY DEF Session
<1> QED BY <1>1, <1>2 DEF Enter, TypeOK, Busy

LEMMA SpawnEffect ==
    ASSUME NEW s \in Shells, TypeOK, Spawn(s)
    PROVE  /\ cmd[s].pc = "spawn" /\ cmd' \in [Shells -> Sessions]
           /\ cmd'[s].pc = "write" /\ cmd'[s].pid \in Pids /\ cmd'[s].out = cmd[s].out
           /\ proc[cmd'[s].pid] = Free
           /\ proc' = [proc EXCEPT ![cmd'[s].pid] = "boot"]
           /\ \A r \in Shells : r # s => cmd'[r] = cmd[r]
           /\ UNCHANGED <<file, calm, stray>> /\ spawns' \in Nat
<1>1. cmd \in [Shells -> Sessions] /\ spawns \in Nat
  BY DEF TypeOK
<1>2. PICK p \in Pids : /\ proc[p] = Free
                        /\ proc' = [proc EXCEPT ![p] = "boot"]
                        /\ cmd' = [cmd EXCEPT ![s].pc = "write", ![s].pid = p]
  BY DEF Spawn
<1>3. cmd'[s] = [cmd[s] EXCEPT !.pc = "write", !.pid = p]
  BY <1>1, <1>2 DEF Sessions
<1>4. \A r \in Shells : r # s => cmd'[r] = cmd[r]
  BY <1>1, <1>2
<1>5. cmd[s] \in Sessions
  BY <1>1
<1>6. /\ cmd'[s] \in Sessions /\ cmd'[s].pc = "write" /\ cmd'[s].pid = p
      /\ cmd'[s].out = cmd[s].out
  BY <1>3, <1>5 DEF Sessions, Phases
<1>7. cmd' \in [Shells -> Sessions]
  BY <1>1, <1>2, <1>4, <1>6
<1> QED BY <1>1, <1>2, <1>4, <1>6, <1>7 DEF Spawn

LEMMA ReuseEffect ==
    ASSUME NEW p \in Pids, TypeOK, Reuse(p)
    PROVE  /\ cmd' \in [Shells -> Sessions]
           /\ \A s \in Shells :
                /\ cmd'[s].pc = cmd[s].pc /\ cmd'[s].pid = cmd[s].pid
                /\ cmd'[s].out = cmd[s].out
                /\ ~cmd'[s].lost => ~cmd[s].lost /\ ~(cmd[s].pc = "kill" /\ cmd[s].pid = p)
           /\ proc[p] = Free /\ proc' = [proc EXCEPT ![p] = Foreign]
           /\ UNCHANGED <<file, spawns, calm, stray>>
BY DEF Reuse, TypeOK, Sessions

LEMMA TypeStep == TypeOK /\ HoldsPid /\ [Next]_vars => (TypeOK /\ HoldsPid)'
<1> SUFFICES ASSUME TypeOK, HoldsPid, [Next]_vars PROVE (TypeOK /\ HoldsPid)'
    OBVIOUS
<1> USE LifecycleAssumption DEF TypeOK, HoldsPid
<1>0. /\ {"idle", "check", "clear", "spawn", "write", "written", "poll",
         "forget", "kill", "await", "release"} = Phases
      /\ {"running", "notRunning", "refused", "failed", "started",
          "denied", "stillRunning", "stopped"} \subseteq Outcomes
      /\ \A s \in Shells : cmd[s].pid \in Pids \cup {NoPid}
  BY DEF Phases, Outcomes, Sessions
<1> USE <1>0
<1>1. CASE UNCHANGED vars
    BY <1>1 DEF vars
<1>2. ASSUME NEW s \in Shells, NEW op \in {"start", "status", "stop"}, Enter(s, op)
      PROVE  (TypeOK /\ HoldsPid)'
    BY <1>2, EnterEffect
<1>3. ASSUME NEW s \in Shells, Start(s) PROVE (TypeOK /\ HoldsPid)'
    <2>1. CASE StartCheck(s)
        BY <2>1, StepEffect, FinishEffect DEF StartCheck
    <2>2. CASE Clear(s)
        BY <2>2, StepEffect DEF Clear, Unlink
    <2>3. CASE Refuse(s)
        BY <2>3, FinishEffect DEF Refuse
    <2>4. CASE Spawn(s)
        BY <2>4, SpawnEffect DEF Managed
    <2>5. CASE Truncate(s)
        BY <2>5, StepEffect DEF Truncate
    <2>6. CASE Write(s)
        BY <2>6, StepEffect DEF Write
    <2>7. CASE Poll(s)
        BY <2>7, FinishEffect DEF Poll, Unlink
    <2> QED BY <1>3, <2>1, <2>2, <2>3, <2>4, <2>5, <2>6, <2>7 DEF Start
<1>4. ASSUME NEW s \in Shells, Status(s) PROVE (TypeOK /\ HoldsPid)'
    <2>1. CASE StatusCheck(s)
        BY <2>1, StepEffect, FinishEffect DEF StatusCheck
    <2>2. CASE Forget(s)
        BY <2>2, FinishEffect DEF Forget, Unlink
    <2> QED BY <1>4, <2>1, <2>2 DEF Status
<1>5. ASSUME NEW s \in Shells, Stop(s) PROVE (TypeOK /\ HoldsPid)'
    <2>1. CASE StopCheck(s)
        BY <2>1, StepEffect, FinishEffect DEF StopCheck, IsManaged
    <2>2. CASE Kill(s)
        <3>1. cmd' \in [Shells -> Sessions]
          BY <2>2, StepEffect, FinishEffect DEF Kill
        <3>2. proc' \in [Pids -> Managed \cup {Free, Foreign, Zombie}]
          BY <2>2 DEF Kill, Dead, Managed
        <3>3. UNCHANGED <<file, spawns, calm>> /\ stray' \in BOOLEAN
          BY <2>2, Zenon DEF Kill
        <3>4. HoldsPid'
          BY <2>2, StepEffect, FinishEffect DEF Kill
        <3> QED BY <3>1, <3>2, <3>3, <3>4
    <2>3. CASE Await(s)
        BY <2>3, StepEffect, FinishEffect DEF Await
    <2>4. CASE Release(s)
        BY <2>4, FinishEffect DEF Release, Unlink
    <2> QED BY <1>5, <2>1, <2>2, <2>3, <2>4 DEF Stop
<1>6. ASSUME NEW s \in Shells, KillCommand(s) PROVE (TypeOK /\ HoldsPid)'
    <2>1. Idle \in Sessions /\ Idle.pc = "idle"
      BY DEF Idle, Session, Sessions, Phases, Outcomes
    <2> QED BY <1>6, <2>1 DEF KillCommand
<1>7. ASSUME NEW p \in Pids, Booted(p) \/ Exits(p) \/ ForeignExits(p)
      PROVE  (TypeOK /\ HoldsPid)'
    BY <1>7 DEF Booted, Exits, ForeignExits, Dead, Managed
<1>8. ASSUME NEW p \in Pids, Reuse(p)
      PROVE  (TypeOK /\ HoldsPid)'
    BY <1>8, ReuseEffect
<1> QED BY <1>1, <1>2, <1>3, <1>4, <1>5, <1>6, <1>7, <1>8 DEF Next

LEMMA StrayStep == StrayInv /\ [Next]_vars => StrayInv'
<1> SUFFICES ASSUME StrayInv, [Next]_vars PROVE (Checked /\ NoStraySignal)'
    BY TypeStep DEF StrayInv
<1> USE DEF StrayInv, TypeOK, HoldsPid, Checked, NoStraySignal
<1>0. /\ {"idle", "check", "clear", "spawn", "write", "written", "poll",
         "forget", "kill", "await", "release"} = Phases
      /\ {"running", "notRunning", "refused", "failed", "started",
          "denied", "stillRunning", "stopped"} \subseteq Outcomes
  BY DEF Phases, Outcomes
<1> USE <1>0
<1>1. CASE UNCHANGED vars
    BY <1>1 DEF vars
<1>2. ASSUME NEW s \in Shells, NEW op \in {"start", "status", "stop"}, Enter(s, op)
      PROVE  (Checked /\ NoStraySignal)'
    BY <1>2, EnterEffect
<1>3. ASSUME NEW s \in Shells, Start(s) PROVE (Checked /\ NoStraySignal)'
    <2>1. CASE StartCheck(s)
        BY <2>1, StepEffect, FinishEffect DEF StartCheck
    <2>2. CASE Clear(s) \/ Truncate(s) \/ Write(s)
        BY <2>2, StepEffect DEF Clear, Truncate, Write
    <2>3. CASE Refuse(s)
        BY <2>3, FinishEffect DEF Refuse
    <2>4. CASE Spawn(s)
        BY <2>4, SpawnEffect DEF Foreign
    <2>5. CASE Poll(s)
        BY <2>5, FinishEffect DEF Poll, Free, Foreign
    <2> QED BY <1>3, <2>1, <2>2, <2>3, <2>4, <2>5 DEF Start
<1>4. ASSUME NEW s \in Shells, Status(s) PROVE (Checked /\ NoStraySignal)'
    BY <1>4, StepEffect, FinishEffect DEF Status, StatusCheck, Forget
<1>5. ASSUME NEW s \in Shells, Stop(s) PROVE (Checked /\ NoStraySignal)'
    <2>1. CASE StopCheck(s)
        BY <2>1, StepEffect, FinishEffect DEF StopCheck, IsManaged, Managed, Foreign
    <2>2. CASE Kill(s)
        <3>1. /\ cmd[s].pc = "kill" /\ cmd'[s].pc # "kill"
              /\ \A r \in Shells : r # s => cmd'[r] = cmd[r]
          BY <2>2, StepEffect, FinishEffect DEF Kill
        <3>2. \A p \in Pids : proc'[p] = Foreign => proc[p] = Foreign
          BY <2>2 DEF Kill, Dead, Free, Foreign, Zombie
        <3>3. Checked'
          BY <3>1, <3>2
        <3>4. proc[cmd[s].pid] = Foreign => cmd[s].lost
          BY <3>1
        <3>5. NoStraySignal'
          BY <2>2, <3>4, Zenon DEF Kill
        <3> QED BY <3>3, <3>5
    <2>3. CASE Await(s)
        BY <2>3, StepEffect, FinishEffect DEF Await
    <2>4. CASE Release(s)
        BY <2>4, FinishEffect DEF Release
    <2> QED BY <1>5, <2>1, <2>2, <2>3, <2>4 DEF Stop
<1>6. ASSUME NEW s \in Shells, KillCommand(s) PROVE (Checked /\ NoStraySignal)'
    <2>1. Idle.pc = "idle"
      BY DEF Idle, Session
    <2> QED BY <1>6, <2>1 DEF KillCommand, Free, Foreign
<1>7. ASSUME NEW p \in Pids, Booted(p) \/ Exits(p) \/ ForeignExits(p)
      PROVE  (Checked /\ NoStraySignal)'
    BY <1>7 DEF Booted, Exits, ForeignExits, Dead, Free, Foreign, Zombie
<1>8. ASSUME NEW p \in Pids, Reuse(p) PROVE (Checked /\ NoStraySignal)'
    BY <1>8, ReuseEffect DEF Foreign
<1> QED BY <1>1, <1>2, <1>3, <1>4, <1>5, <1>6, <1>7, <1>8 DEF Next

-----------------------------------------------------------------------------
(* Commands that neither overlap nor die half-way.                         *)

(* One command runs at a time.  While it still trusts the file, a live     *)
(* daemon is the one the file (and the command) names; between Popen and   *)
(* write_text only the command knows it; and where the file is removed,    *)
(* there is none.                                                          *)
Trusting == {"check", "kill", "await", "poll"}
Holding  == {"write", "written"}
Emptied  == {"clear", "spawn", "forget", "release"}

Alone == \A r, s \in Shells : Busy(r) /\ Busy(s) => r = s
Orderly ==
    calm => /\ Alone
            /\ DaemonIsNamed
            /\ \A s \in Shells :
                 /\ Busy(s) => cmd[s].out = "none"
                 /\ cmd[s].pc \in Trusting => cmd[s].pid = file /\ Daemons \subseteq {file}
                 /\ cmd[s].pc \in Holding  => Daemons \subseteq {cmd[s].pid}
                 /\ cmd[s].pc \in Emptied  => Daemons = {}

NamedInv == TypeOK /\ HoldsPid /\ Orderly

LEMMA InitNamed == Init => NamedInv
<1> SUFFICES ASSUME Init PROVE Orderly
    BY InitStray DEF NamedInv, StrayInv
<1>1. \A s \in Shells : cmd[s].pc = "idle"
    BY DEF Init, Idle, Session
<1>2. Daemons = {}
    BY DEF Init, Daemons, Managed, Free
<1> QED BY <1>1, <1>2 DEF Orderly, Alone, Busy, DaemonIsNamed, Trusting, Holding, Emptied

(* Every command that takes a step is the only one that runs.              *)
LEMMA NamedStep == NamedInv /\ [Next]_vars => NamedInv'
<1> SUFFICES ASSUME NamedInv, [Next]_vars, calm' PROVE Orderly'
    BY TypeStep DEF NamedInv, Orderly
<1> USE LifecycleAssumption DEF NamedInv, TypeOK, HoldsPid
<1>0. /\ Phases = {"idle", "check", "clear", "spawn", "write", "written", "poll",
                   "forget", "kill", "await", "release"}
      /\ Outcomes = {"none", "running", "notRunning", "refused", "failed", "started",
                     "denied", "stillRunning", "stopped"}
      /\ \A s \in Shells : cmd[s].pid \in Pids \cup {NoPid}
  BY DEF Phases, Trusting, Holding, Emptied, Outcomes, Sessions
<1> USE <1>0
<1>1. CASE UNCHANGED vars
    BY <1>1 DEF vars, Orderly, Alone, Busy, DaemonIsNamed, Daemons
<1>2. calm
    <2>1. ASSUME NEW s \in Shells, NEW op \in {"start", "status", "stop"}, Enter(s, op)
          PROVE  calm
        BY <2>1, EnterEffect
    <2>2. ASSUME NEW s \in Shells, KillCommand(s) PROVE calm
        BY <2>2 DEF KillCommand
    <2>3. ASSUME NEW s \in Shells, Start(s) PROVE calm
        BY <2>3, SpawnEffect DEF Start, StartCheck, Clear, Refuse, Truncate, Write, Poll
    <2>4. ASSUME NEW s \in Shells, Status(s) \/ Stop(s) PROVE calm
        BY <2>4 DEF Status, StatusCheck, Forget, Stop, StopCheck, Kill, Await, Release
    <2>5. ASSUME NEW p \in Pids, Booted(p) \/ Exits(p) \/ Reuse(p) \/ ForeignExits(p)
          PROVE  calm
        BY <2>5 DEF Booted, Exits, Reuse, ForeignExits
    <2> QED BY <1>1, <2>1, <2>2, <2>3, <2>4, <2>5 DEF Next, vars
<1>3. /\ Alone /\ DaemonIsNamed
      /\ \A s \in Shells :
           /\ Busy(s) => cmd[s].out = "none"
           /\ cmd[s].pc \in Trusting => cmd[s].pid = file /\ Daemons \subseteq {file}
           /\ cmd[s].pc \in Holding  => Daemons \subseteq {cmd[s].pid}
           /\ cmd[s].pc \in Emptied  => Daemons = {}
    BY <1>2 DEF Orderly
<1>s. ASSUME NEW s \in Shells, Busy(s) \/ \A r \in Shells : ~Busy(r),
             \A r \in Shells : r # s => cmd'[r] = cmd[r],
             cmd'[s].pc # "idle" => cmd'[s].out = "none",
             cmd'[s].pc = "idle" => Daemons' \subseteq {file'},
             cmd'[s].pc \in Trusting => cmd'[s].pid = file' /\ Daemons' \subseteq {file'},
             cmd'[s].pc \in Holding  => Daemons' \subseteq {cmd'[s].pid},
             cmd'[s].pc \in Emptied  => Daemons' = {}
      PROVE  Orderly'
    <2>1. \A r \in Shells : r # s => cmd'[r].pc = "idle"
        BY <1>3, <1>s DEF Alone, Busy
    <2>2. Alone'
        BY <2>1 DEF Alone, Busy
    <2>3. DaemonIsNamed'
        BY <1>s DEF DaemonIsNamed, Busy
    <2>4. \A r \in Shells : r # s => cmd'[r].pc \notin Trusting \cup Holding \cup Emptied
        BY <2>1 DEF Trusting, Holding, Emptied
    <2> QED BY <1>s, <2>1, <2>2, <2>3, <2>4 DEF Orderly, Busy
<1> DEFINE Others(s) == \A r \in Shells : r # s => cmd'[r] = cmd[r]
<1>4. ASSUME NEW s \in Shells, NEW op \in {"start", "status", "stop"}, Enter(s, op)
      PROVE  Orderly'
    <2>1. \A r \in Shells : ~Busy(r)
        BY <1>4, EnterEffect
    <2>2. Daemons \subseteq {file} /\ Daemons' = Daemons /\ file' = file
        BY <1>2, <1>3, <1>4, <2>1, EnterEffect DEF DaemonIsNamed, Daemons
    <2>3. cmd'[s].pc = "check" /\ cmd'[s].pid = file /\ cmd'[s].out = "none" /\ Others(s)
        BY <1>4, EnterEffect
    <2> QED BY <1>s, <2>1, <2>2, <2>3 DEF Trusting, Holding, Emptied
<1>5. ASSUME NEW s \in Shells, Start(s) PROVE Orderly'
    <2>0. CASE Spawn(s)
        <3>1. /\ cmd[s].pc = "spawn" /\ cmd'[s].pc = "write" /\ cmd'[s].out = cmd[s].out
              /\ Others(s) /\ cmd'[s].pid \in Pids
              /\ proc' = [proc EXCEPT ![cmd'[s].pid] = "boot"]
            BY <2>0, SpawnEffect
        <3>2. Daemons = {} /\ Busy(s)
            BY <1>3, <3>1 DEF Emptied, Busy
        <3>3. Daemons' \subseteq {cmd'[s].pid}
            BY <3>1, <3>2 DEF Daemons
        <3> QED BY <1>s, <1>3, <3>1, <3>2, <3>3 DEF Trusting, Holding, Emptied
    <2>a. CASE ~Spawn(s)
        <3>0. Daemons' \subseteq Daemons
            <4>1. CASE StartCheck(s) \/ Clear(s) \/ Refuse(s) \/ Truncate(s) \/ Write(s)
                BY <4>1 DEF StartCheck, Clear, Refuse, Truncate, Write, Daemons
            <4>2. CASE Poll(s)
                BY <4>2 DEF Poll, Daemons, Managed, Free
            <4> QED BY <1>5, <2>a, <4>1, <4>2 DEF Start
        <3>1. CASE StartCheck(s)
            <4>1. cmd[s].pc = "check" /\ Others(s) /\ file' = file /\ Busy(s)
                BY <3>1, StepEffect, FinishEffect DEF StartCheck, Busy
            <4>2. cmd[s].pid = file /\ Daemons \subseteq {file}
                BY <1>3, <4>1 DEF Trusting
            <4>3. CASE Finish(s, "running")
                BY <1>s, <3>0, <4>1, <4>2, <4>3, FinishEffect DEF Trusting, Holding, Emptied
            <4>4. CASE ~IsManaged(cmd[s].pid) /\
                       Step(s, "check", IF cmd[s].pid = NoPid THEN "spawn" ELSE "clear")
                <5>1. cmd'[s].pc \in {"spawn", "clear"} /\ cmd'[s].out = cmd[s].out
                    BY <4>4, StepEffect
                <5>2. Daemons' = {}
                    BY <3>0, <4>2, <4>4 DEF IsManaged, Daemons
                <5> QED BY <1>s, <1>3, <4>1, <5>1, <5>2 DEF Trusting, Holding, Emptied
            <4> QED BY <3>1, <4>3, <4>4 DEF StartCheck
        <3>2. CASE Clear(s)
            BY <1>s, <1>3, <3>0, <3>2, StepEffect
               DEF Clear, Busy, Trusting, Holding, Emptied
        <3>3. CASE Refuse(s)
            BY <1>s, <1>3, <3>0, <3>3, FinishEffect
               DEF Refuse, Busy, Trusting, Holding, Emptied
        <3>4. CASE Truncate(s)
            BY <1>s, <1>3, <3>0, <3>4, StepEffect
               DEF Truncate, Busy, Trusting, Holding, Emptied
        <3>5. CASE Write(s)
            BY <1>s, <1>3, <3>0, <3>5, StepEffect
               DEF Write, Busy, Trusting, Holding, Emptied
        <3>6. CASE Poll(s)
            <4>1. cmd[s].pc = "poll" /\ Others(s) /\ cmd'[s].pc = "idle" /\ Busy(s)
                BY <3>6, FinishEffect DEF Poll, Busy
            <4>2. cmd[s].pid = file /\ Daemons \subseteq {file}
                BY <1>3, <4>1 DEF Trusting
            <4>3. Daemons' \subseteq {file'}
                BY <3>0, <3>6, <4>2 DEF Poll, Daemons, Managed, Zombie, Unlink
            <4> QED BY <1>s, <4>1, <4>3 DEF Trusting, Holding, Emptied
        <3> QED BY <1>5, <2>a, <3>1, <3>2, <3>3, <3>4, <3>5, <3>6 DEF Start
    <2> QED BY <2>0, <2>a
<1>6. ASSUME NEW s \in Shells, Status(s) PROVE Orderly'
    <2>1. Daemons' = Daemons
        BY <1>6 DEF Status, StatusCheck, Forget, Daemons
    <2>2. CASE StatusCheck(s)
        <3>1. cmd[s].pc = "check" /\ Others(s) /\ file' = file /\ Busy(s)
            BY <2>2, StepEffect, FinishEffect DEF StatusCheck, Busy
        <3>2. cmd[s].pid = file /\ Daemons \subseteq {file}
            BY <1>3, <3>1 DEF Trusting
        <3>3. CASE cmd'[s].pc = "idle"
            BY <1>s, <2>1, <3>1, <3>2, <3>3 DEF Trusting, Holding, Emptied
        <3>4. CASE ~IsManaged(cmd[s].pid) /\ Step(s, "check", "forget")
            <4>1. Daemons' = {}
                BY <2>1, <3>2, <3>4 DEF IsManaged, Daemons
            <4> QED BY <1>s, <1>3, <3>1, <3>4, <4>1, StepEffect DEF Trusting, Holding, Emptied
        <3> QED BY <2>2, <3>3, <3>4, FinishEffect DEF StatusCheck
    <2>3. CASE Forget(s)
        BY <1>s, <1>3, <2>1, <2>3, FinishEffect DEF Forget, Busy, Trusting, Holding, Emptied
    <2> QED BY <1>6, <2>2, <2>3 DEF Status
<1>7. ASSUME NEW s \in Shells, Stop(s) PROVE Orderly'
    <2>1. CASE StopCheck(s)
        <3>1. cmd[s].pc = "check" /\ Others(s) /\ file' = file /\ Busy(s) /\ Daemons' = Daemons
            BY <2>1, StepEffect, FinishEffect DEF StopCheck, Busy, Daemons
        <3>2. cmd[s].pid = file /\ Daemons \subseteq {file}
            BY <1>3, <3>1 DEF Trusting
        <3>3. CASE Step(s, "check", "kill")
            BY <1>s, <1>3, <3>1, <3>2, <3>3, StepEffect DEF Trusting, Holding, Emptied
        <3>4. CASE Finish(s, "notRunning")
            BY <1>s, <3>1, <3>2, <3>4, FinishEffect DEF Trusting, Holding, Emptied
        <3>5. CASE ~IsManaged(cmd[s].pid) /\ Step(s, "check", "forget")
            <4>1. Daemons' = {}
                BY <3>1, <3>2, <3>5 DEF IsManaged, Daemons
            <4> QED BY <1>s, <1>3, <3>1, <3>5, <4>1, StepEffect DEF Trusting, Holding, Emptied
        <3> QED BY <2>1, <3>3, <3>4, <3>5 DEF StopCheck
    <2>2. CASE Kill(s)
        <3>1. cmd[s].pc = "kill" /\ Others(s) /\ file' = file /\ Busy(s)
            BY <2>2, StepEffect, FinishEffect DEF Kill, Busy
        <3>2. cmd[s].pid = file /\ Daemons \subseteq {file}
            BY <1>3, <3>1 DEF Trusting
        <3>3. Daemons' \subseteq Daemons
            BY <2>2 DEF Kill, Daemons, Dead, Managed, Free, Zombie
        <3>4. CASE proc[cmd[s].pid] = Free /\ Step(s, "kill", "forget")
            <4>1. Daemons' = {}
                BY <3>2, <3>3, <3>4 DEF Daemons, Managed, Free
            <4> QED BY <1>s, <1>3, <3>1, <3>4, <4>1, StepEffect DEF Trusting, Holding, Emptied
        <3>5. CASE Step(s, "kill", "await")
            BY <1>s, <1>3, <3>1, <3>2, <3>3, <3>5, StepEffect DEF Trusting, Holding, Emptied
        <3>6. CASE Finish(s, "denied")
            BY <1>s, <3>1, <3>2, <3>3, <3>6, FinishEffect DEF Trusting, Holding, Emptied
        <3> QED BY <2>2, <3>4, <3>5, <3>6 DEF Kill
    <2>3. CASE Await(s)
        <3>1. cmd[s].pc = "await" /\ Others(s) /\ file' = file /\ Busy(s) /\ Daemons' = Daemons
            BY <2>3, StepEffect, FinishEffect DEF Await, Busy, Daemons
        <3>2. cmd[s].pid = file /\ Daemons \subseteq {file}
            BY <1>3, <3>1 DEF Trusting
        <3>3. CASE ~Exists(cmd[s].pid) /\ Step(s, "await", "release")
            <4>1. Daemons' = {}
                BY <3>1, <3>2, <3>3 DEF Exists, Daemons, Managed, Free
            <4> QED BY <1>s, <1>3, <3>1, <3>3, <4>1, StepEffect DEF Trusting, Holding, Emptied
        <3>4. CASE Finish(s, "stillRunning")
            BY <1>s, <3>1, <3>2, <3>4, FinishEffect DEF Trusting, Holding, Emptied
        <3> QED BY <2>3, <3>3, <3>4 DEF Await
    <2>4. CASE Release(s)
        <3>1. cmd[s].pc = "release" /\ Others(s) /\ cmd'[s].pc = "idle" /\ Busy(s)
              /\ Daemons' = Daemons
            BY <2>4, FinishEffect DEF Release, Busy, Daemons
        <3>2. Daemons' = {}
            BY <1>3, <3>1 DEF Emptied
        <3> QED BY <1>s, <3>1, <3>2 DEF Trusting, Holding, Emptied
    <2> QED BY <1>7, <2>1, <2>2, <2>3, <2>4 DEF Stop
<1>8. ASSUME NEW p \in Pids, Booted(p) \/ Exits(p) \/ Reuse(p) \/ ForeignExits(p)
      PROVE  Orderly'
    <2>1. Daemons' \subseteq Daemons
        BY <1>8 DEF Booted, Exits, Reuse, ForeignExits, Daemons, Dead, Managed, Free, Foreign, Zombie
    <2>2. /\ file' = file
          /\ \A s \in Shells : cmd'[s].pc = cmd[s].pc /\ cmd'[s].pid = cmd[s].pid
                                /\ cmd'[s].out = cmd[s].out
        BY <1>8, ReuseEffect DEF Booted, Exits, ForeignExits
    <2> QED BY <1>2, <1>3, <2>1, <2>2 DEF Orderly, Alone, Busy, DaemonIsNamed
<1>9. ASSUME NEW s \in Shells, KillCommand(s) PROVE Orderly'
    BY <1>9 DEF KillCommand
<1> QED BY <1>1, <1>4, <1>5, <1>6, <1>7, <1>8, <1>9 DEF Next

(* A command that ends by saying that no daemon runs is right.             *)
LEMMA HonestStep ==
    ASSUME NamedInv, Next
    PROVE  \A s \in Shells :
             Busy(s) /\ calm' /\ cmd'[s].out \in {"notRunning", "stopped"}
             => Daemons' = {}
<1> SUFFICES ASSUME NEW s \in Shells, Busy(s), calm',
                    cmd'[s].out \in {"notRunning", "stopped"}
             PROVE  Daemons' = {}
    OBVIOUS
<1> USE DEF NamedInv, TypeOK
<1>0. /\ {"idle", "check", "clear", "spawn", "write", "written", "poll",
         "forget", "kill", "await", "release"} = Phases
      /\ {"none", "running", "notRunning", "refused", "failed", "started",
          "denied", "stillRunning", "stopped"} = Outcomes
  BY DEF Phases, Outcomes
<1> USE <1>0
<1>1. ASSUME NEW r \in Shells, NEW op \in {"start", "status", "stop"}, Enter(r, op)
      PROVE  Daemons' = {}
    BY <1>1, EnterEffect
<1>2. ASSUME NEW r \in Shells, KillCommand(r) PROVE Daemons' = {}
    BY <1>2 DEF KillCommand
<1>3. ASSUME calm' = calm
      PROVE  /\ cmd[s].out = "none"
             /\ cmd[s].pc = "check" => cmd[s].pid = file /\ Daemons \subseteq {file}
             /\ cmd[s].pc \in {"forget", "release"} => Daemons = {}
    BY <1>3 DEF Orderly, Trusting, Emptied
<1>4. ASSUME NEW r \in Shells, Start(r) PROVE Daemons' = {}
    <2>1. calm' = calm
        BY <1>4, SpawnEffect DEF Start, StartCheck, Clear, Refuse, Truncate, Write, Poll
    <2>2. cmd'[s].out \in {cmd[s].out, "running", "refused", "failed", "started"}
        BY <1>4, StepEffect, FinishEffect, SpawnEffect
           DEF Start, StartCheck, Clear, Refuse, Truncate, Write, Poll
    <2> QED BY <1>3, <2>1, <2>2
<1>5. ASSUME NEW r \in Shells, Status(r) PROVE Daemons' = {}
    <2>1. calm' = calm /\ Daemons' = Daemons
        BY <1>5 DEF Status, StatusCheck, Forget, Daemons
    <2>2. r = s /\ (cmd[s].pc = "forget" \/ (cmd[s].pc = "check" /\ cmd[s].pid = NoPid))
        BY <1>3, <1>5, <2>1, StepEffect, FinishEffect DEF Status, StatusCheck, Forget
    <2> QED BY <1>3, <2>1, <2>2, LifecycleAssumption DEF Daemons
<1>6. ASSUME NEW r \in Shells, Stop(r) PROVE Daemons' = {}
    <2>1. calm' = calm
        BY <1>6 DEF Stop, StopCheck, Kill, Await, Release
    <2>2. CASE StopCheck(r)
        <3>1. r = s /\ cmd[s].pc = "check" /\ cmd[s].pid = NoPid
            BY <1>3, <2>1, <2>2, StepEffect, FinishEffect DEF StopCheck
        <3> QED BY <1>3, <2>1, <2>2, <3>1, LifecycleAssumption DEF StopCheck, Daemons
    <2>3. CASE Kill(r)
        BY <1>3, <2>1, <2>3, StepEffect, FinishEffect DEF Kill
    <2>4. CASE Await(r)
        BY <1>3, <2>1, <2>4, StepEffect, FinishEffect DEF Await
    <2>5. CASE Release(r)
        <3>1. r = s
            BY <1>3, <2>1, <2>5, FinishEffect DEF Release
        <3> QED BY <1>3, <2>1, <2>5, <3>1 DEF Release, Daemons
    <2> QED BY <1>6, <2>2, <2>3, <2>4, <2>5 DEF Stop
<1>7. ASSUME NEW p \in Pids, Booted(p) \/ Exits(p) \/ Reuse(p) \/ ForeignExits(p)
      PROVE  Daemons' = {}
    <2>1. calm' = calm /\ cmd'[s].out = cmd[s].out
        BY <1>7, ReuseEffect DEF Booted, Exits, ForeignExits
    <2> QED BY <1>3, <2>1
<1> QED BY <1>1, <1>2, <1>4, <1>5, <1>6, <1>7 DEF Next

(* Every variable keeps its type.                                          *)
THEOREM LifecycleTypes == Spec => []TypeOK
<1>1. StrayInv => TypeOK
    BY DEF StrayInv
<1> QED BY InitStray, StrayStep, <1>1, PTL DEF Spec

(* Whatever commands run at the same time or die half-way, stop signals a  *)
(* process that is no daemon of ours only if the number changed hands      *)
(* between its check and its kill (__main__.py:796-799).                   *)
THEOREM SignalsAreChecked == Spec => []NoStraySignal
<1>1. StrayInv => NoStraySignal
    BY DEF StrayInv
<1> QED BY InitStray, StrayStep, <1>1, PTL DEF Spec

(* While commands neither overlap nor die half-way, a managed daemon that  *)
(* is alive is the one the PID file names (__main__.py:736-740, 811-814).  *)
THEOREM OneNamedDaemon == Spec => []DaemonIsNamed
<1>1. NamedInv => DaemonIsNamed
    BY DEF NamedInv, Orderly, DaemonIsNamed
<1> QED BY InitNamed, NamedStep, <1>1, PTL DEF Spec

(* Under the same conditions a status or stop that says that no daemon is  *)
(* running is right (README.md:136-137).                                   *)
THEOREM NotRunningIsHonest == Spec => NotRunningIsTrue
<1>1. NamedInv /\ [Next]_vars =>
        [\A s \in Shells :
           Busy(s) /\ calm' /\ cmd'[s].out \in {"notRunning", "stopped"}
           => Daemons' = {}]_vars
    BY HonestStep
<1> QED BY InitNamed, NamedStep, <1>1, PTL DEF Spec, NotRunningIsTrue

=============================================================================

------------------------- MODULE DaemonProcess_proofs -------------------------
(***************************************************************************)
(* Shutdown of the daemon process, for every backoff limit and any number  *)
(* of restarts.                                                            *)
(***************************************************************************)
EXTENDS DaemonProcess, TLAPS

(* From SetStop on the event is set, and nothing clears it.                *)
Leaving == {"setStop", "join", "count", "close", "return"}
StopStays == main \in {"join", "count", "close", "return"} => stop

(* Once the join is over, a thread that has not ended is one it gave up    *)
(* on; a thread that has ended does not come back.                         *)
JoinedOrExpired ==
    main \in {"count", "close", "return"} /\ ~expired => UtilEnded

(* Before the loop there is no thread to sample.                           *)
ThreadInLoop ==
    main \in {"load", "probe", "openDb", "install", "spawn"} => util = "none"

(* Only the operator's signal sets the event while the loop runs.          *)
StopIsAsked ==
    /\ sig => asked
    /\ stop /\ main \notin {"down", "unwind", "failed"} => asked
    /\ main \in Leaving => asked
    /\ exit = "ok" => asked

IInv == /\ backoff \in 1 .. MaxBackoff /\ starts \in Nat
        /\ StopStays /\ JoinedOrExpired /\ ThreadInLoop /\ StopIsAsked

LEMMA InitInv == Init => IInv
BY ProcessAssumption
   DEF Init, IInv, StopStays, JoinedOrExpired, ThreadInLoop, StopIsAsked, Leaving

LEMMA MainStep == IInv /\ Main => IInv'
<1> SUFFICES ASSUME IInv, Main PROVE IInv'
    OBVIOUS
<1> USE DEF IInv, StopStays, JoinedOrExpired, ThreadInLoop, StopIsAsked, Leaving,
        UtilEnded, process, signals, stream, Goto, Gone
<1>1. CASE Load
    <2>1. \/ main' = "down" /\ exit' = "refused" /\ util' = "none" /\ sig' = FALSE
          \/ main' = "probe" /\ UNCHANGED <<exit, util, sig>>
        BY <1>1, Zenon DEF Load
    <2>2. main = "load" /\ UNCHANGED <<starts, asked, stop, backoff, expired>>
        BY <1>1, Zenon DEF Load
    <2>3. CASE main' = "down" /\ exit' = "refused" /\ util' = "none" /\ sig' = FALSE
        BY <2>2, <2>3
    <2>4. CASE main' = "probe" /\ UNCHANGED <<exit, util, sig>>
        BY <2>2, <2>4
    <2> QED BY <2>1, <2>3, <2>4
<1>2. CASE Probe
    BY <1>2 DEF Probe
<1>o. CASE OpenDb
    <2>1. /\ main = "openDb" /\ main' \in {"install", "unwind"}
          /\ UNCHANGED <<exit, starts, asked, sig, stop, util, backoff, expired>>
        BY <1>o, Zenon DEF OpenDb
    <2> QED BY <2>1
<1>3. CASE Install \/ Spawn
    BY <1>3 DEF Install, Spawn
<1>4. CASE Check \/ Wait
    BY <1>4 DEF Check, Wait
<1>5. CASE StartRun
    BY <1>5 DEF StartRun
<1>6. CASE Tick \/ Push
    BY <1>6 DEF Tick, Push
<1>7. CASE SetStop
    BY <1>7 DEF SetStop
<1>8. CASE Join
    BY <1>8 DEF Join
<1>9. CASE Count \/ CloseTier
    BY <1>9 DEF Count, CloseTier
<1>10. CASE Return
    BY <1>10 DEF Return
<1> QED BY <1>1, <1>2, <1>o, <1>3, <1>4, <1>5, <1>6, <1>7, <1>8, <1>9, <1>10 DEF Main

LEMMA UtilKeeps == IInv /\ Util => IInv'
<1> SUFFICES ASSUME IInv, Util PROVE IInv'
    OBVIOUS
<1> USE DEF IInv, StopStays, JoinedOrExpired, ThreadInLoop, StopIsAsked, Leaving,
        UtilEnded, process, signals, UtilStep
<1>1. CASE UtilTop
    BY <1>1 DEF UtilTop
<1>2. CASE Connect
    BY <1>2, ProcessAssumption DEF Connect
<1>3. CASE Ready
    BY <1>3 DEF Ready
<1>4. CASE Sample
    BY <1>4 DEF Sample
<1>5. CASE SendUtil \/ Pause \/ Close
    BY <1>5 DEF SendUtil, Pause, Close
<1>6. CASE Lost
    <2>1. backoff' \in 1 .. MaxBackoff
        BY <1>6, ProcessAssumption DEF Lost
    <2> QED BY <1>6, <2>1 DEF Lost
<1> QED BY <1>1, <1>2, <1>3, <1>4, <1>5, <1>6 DEF Util

LEMMA StepInv == IInv /\ [Next]_vars => IInv'
<1> SUFFICES ASSUME IInv, [Next]_vars PROVE IInv'
    OBVIOUS
<1> USE DEF IInv, StopStays, JoinedOrExpired, ThreadInLoop, StopIsAsked, Leaving,
        UtilEnded, process, signals, stream
<1>1. CASE UNCHANGED vars
    BY <1>1 DEF vars
<1>2. CASE BecomeHealthy
    BY <1>2 DEF BecomeHealthy
<1>3. CASE Launch
    BY <1>3, ProcessAssumption DEF Launch
<1>4. CASE Crash
    BY <1>4 DEF Crash, Gone
<1>5. CASE Terminate
    BY <1>5 DEF Terminate, Gone
<1>6. CASE HandleSignal
    BY <1>6 DEF HandleSignal
<1> QED BY <1>1, <1>2, <1>3, <1>4, <1>5, <1>6, MainStep, UtilKeeps DEF Next

(* A normal shutdown calls nvmlShutdown with the util thread ended, unless *)
(* the five seconds of the join were not enough (__main__.py:929-938).     *)
THEOREM TierClosesLast == Spec => []TierClosedUnused
<1>1. IInv => TierClosedUnused
    BY DEF IInv, JoinedOrExpired, TierClosedUnused
<1> QED BY InitInv, StepInv, <1>1, PTL DEF Spec

(* A process that ends cleanly was asked to (Restart=on-failure,           *)
(* README.md:180-182).                                                     *)
THEOREM CleanExit == Spec => []CleanExitIsAsked
<1>1. IInv => CleanExitIsAsked
    BY DEF IInv, StopIsAsked, CleanExitIsAsked
<1> QED BY InitInv, StepInv, <1>1, PTL DEF Spec

(* The util thread never starts to sample a tier a normal shutdown has     *)
(* closed, even after an expired join (ws_client.py:98-107).               *)
THEOREM NoLateSample == Spec => NoSampleAfterClose
<1>1. IInv /\ [Next]_vars =>
        [util # "sample" /\ util' = "sample" => main # "return"]_vars
    <2> SUFFICES ASSUME IInv, Next, util # "sample", util' = "sample", main = "return"
                 PROVE  FALSE
        OBVIOUS
    <2>1. stop /\ main = "return"
        BY DEF IInv, StopStays
    <2>2. CASE Main
        BY <2>1, <2>2 DEF Main, Goto, Gone, Load, Probe, OpenDb, Install, Spawn, Check,
           StartRun, Tick, Push, Wait, SetStop, Join, Count, CloseTier, Return
    <2>3. CASE Util
        BY <2>1, <2>3 DEF Util, UtilStep, UtilTop, Connect, Ready, Sample, SendUtil,
           Pause, Close, Lost
    <2>4. CASE BecomeHealthy \/ Launch \/ Crash \/ Terminate \/ HandleSignal
        BY <2>1, <2>4 DEF BecomeHealthy, Launch, Crash, Terminate, HandleSignal, Gone, stream
    <2> QED BY <2>2, <2>3, <2>4 DEF Next
<1> QED BY InitInv, StepInv, <1>1, PTL DEF Spec, NoSampleAfterClose

-----------------------------------------------------------------------------
(* The values each variable takes.                                         *)
Flags == {dbFile, runId, asked, sig, stop, expired, healthy} \subseteq BOOLEAN
Places ==
    /\ main \in {"down", "load", "probe", "openDb", "install", "spawn", "check",
                 "run", "tick", "push", "wait", "setStop", "join", "count",
                 "close", "unwind", "return", "failed", "stuck"}
    /\ exit \in {"none", "ok", "refused", "error", "crash", "killed"}
    /\ tier \in {"new", "open", "closed"}
    /\ util \in {"none", "top", "connect", "ready", "sample", "send", "pause",
                 "close", "lost", "done", "dead"}

(* No action leaves a flag undefined...                                   *)
LEMMA FlagsStep == Flags /\ [Next]_vars => Flags'
<1> SUFFICES ASSUME Flags, [Next]_vars PROVE Flags'
    OBVIOUS
<1> USE DEF Flags, process, signals, stream, Goto, Gone, UtilStep, UtilEnded, Alive, Fails, Handler
<1>1. CASE BecomeHealthy
    BY <1>1, Zenon DEF BecomeHealthy
<1>2. CASE Launch
    BY <1>2, Zenon DEF Launch
<1>3. CASE Crash
    BY <1>3, Zenon DEF Crash
<1>4. CASE Terminate
    BY <1>4, Zenon DEF Terminate
<1>5. CASE HandleSignal
    BY <1>5, Zenon DEF HandleSignal
<1>6. CASE Load
    BY <1>6, Zenon DEF Load
<1>7. CASE Probe
    BY <1>7, Zenon DEF Probe
<1>8. CASE OpenDb
    BY <1>8, Zenon DEF OpenDb
<1>9. CASE Install
    BY <1>9, Zenon DEF Install
<1>10. CASE Spawn
    BY <1>10, Zenon DEF Spawn
<1>11. CASE Check
    BY <1>11, Zenon DEF Check
<1>12. CASE StartRun
    BY <1>12, Zenon DEF StartRun
<1>13. CASE Tick
    BY <1>13, Zenon DEF Tick
<1>14. CASE Push
    BY <1>14, Zenon DEF Push
<1>15. CASE Wait
    BY <1>15, Zenon DEF Wait
<1>16. CASE SetStop
    BY <1>16, Zenon DEF SetStop
<1>17. CASE Join
    BY <1>17, Zenon DEF Join
<1>18. CASE Count
    BY <1>18, Zenon DEF Count
<1>19. CASE CloseTier
    BY <1>19, Zenon DEF CloseTier
<1>20. CASE Return
    BY <1>20, Zenon DEF Return
<1>21. CASE UtilTop
    BY <1>21, Zenon DEF UtilTop
<1>22. CASE Connect
    BY <1>22, Zenon DEF Connect
<1>23. CASE Ready
    BY <1>23, Zenon DEF Ready
<1>24. CASE Sample
    BY <1>24, Zenon DEF Sample
<1>25. CASE SendUtil
    BY <1>25, Zenon DEF SendUtil
<1>26. CASE Pause
    BY <1>26, Zenon DEF Pause
<1>27. CASE Close
    BY <1>27, Zenon DEF Close
<1>28. CASE Lost
    BY <1>28, Zenon DEF Lost
<1>29. CASE UNCHANGED vars
    BY <1>29, Zenon DEF vars
<1> QED BY <1>1, <1>2, <1>3, <1>4, <1>5, <1>6, <1>7, <1>8, <1>9, <1>10,
           <1>11, <1>12, <1>13, <1>14, <1>15, <1>16, <1>17, <1>18, <1>19,
           <1>20, <1>21, <1>22, <1>23, <1>24, <1>25, <1>26, <1>27, <1>28, <1>29
        DEF Next, Main, Util

(* ... or goes to a place that is none.                                    *)
LEMMA PlacesStep == Places /\ [Next]_vars => Places'
<1> SUFFICES ASSUME Places, [Next]_vars PROVE Places'
    OBVIOUS
<1> USE DEF Places, process, signals, stream, Goto, Gone, UtilStep, UtilEnded, Alive, Fails, Handler
<1>1. CASE BecomeHealthy
    BY <1>1 DEF BecomeHealthy
<1>2. CASE Launch
    BY <1>2 DEF Launch
<1>3. CASE Crash
    BY <1>3 DEF Crash
<1>4. CASE Terminate
    BY <1>4 DEF Terminate
<1>5. CASE HandleSignal
    BY <1>5 DEF HandleSignal
<1>6. CASE Load
    BY <1>6 DEF Load
<1>7. CASE Probe
    BY <1>7 DEF Probe
<1>8. CASE OpenDb
    BY <1>8 DEF OpenDb
<1>9. CASE Install
    BY <1>9 DEF Install
<1>10. CASE Spawn
    BY <1>10 DEF Spawn
<1>11. CASE Check
    BY <1>11 DEF Check
<1>12. CASE StartRun
    BY <1>12 DEF StartRun
<1>13. CASE Tick
    BY <1>13 DEF Tick
<1>14. CASE Push
    BY <1>14 DEF Push
<1>15. CASE Wait
    BY <1>15 DEF Wait
<1>16. CASE SetStop
    BY <1>16 DEF SetStop
<1>17. CASE Join
    BY <1>17 DEF Join
<1>18. CASE Count
    BY <1>18 DEF Count
<1>19. CASE CloseTier
    BY <1>19 DEF CloseTier
<1>20. CASE Return
    BY <1>20 DEF Return
<1>21. CASE UtilTop
    BY <1>21 DEF UtilTop
<1>22. CASE Connect
    BY <1>22 DEF Connect
<1>23. CASE Ready
    BY <1>23 DEF Ready
<1>24. CASE Sample
    BY <1>24 DEF Sample
<1>25. CASE SendUtil
    BY <1>25 DEF SendUtil
<1>26. CASE Pause
    BY <1>26 DEF Pause
<1>27. CASE Close
    BY <1>27 DEF Close
<1>28. CASE Lost
    BY <1>28 DEF Lost
<1>29. CASE UNCHANGED vars
    BY <1>29 DEF vars
<1> QED BY <1>1, <1>2, <1>3, <1>4, <1>5, <1>6, <1>7, <1>8, <1>9, <1>10,
           <1>11, <1>12, <1>13, <1>14, <1>15, <1>16, <1>17, <1>18, <1>19,
           <1>20, <1>21, <1>22, <1>23, <1>24, <1>25, <1>26, <1>27, <1>28, <1>29
        DEF Next, Main, Util

(* Every variable keeps its type, for every backoff limit.                 *)
THEOREM ProcessTypes == Spec => []TypeOK
<1>1. Init => Flags /\ Places
    BY DEF Init, Flags, Places
<1>2. IInv /\ Flags /\ Places => TypeOK
    BY DEF IInv, Flags, Places, TypeOK
<1> QED BY InitInv, StepInv, FlagsStep, PlacesStep, <1>1, <1>2, PTL DEF Spec
=============================================================================

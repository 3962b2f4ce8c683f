------------------------------- MODULE Sampling -------------------------------
(***************************************************************************)
(* A snapshot on its way from NVML to the local history and to the board:  *)
(* the tick of `gua daemon --cloud` (daemon.py _tick with the hook         *)
(* push_snapshot of __main__.py) and the command `gua sync-once`, two      *)
(* processes of one host on one database and one board.  Each has an NVML  *)
(* tier of its own; the daemon keeps the tracker of UsageState between its *)
(* ticks.                                                                  *)
(*                                                                         *)
(* When ticks start is TickSchedule's subject.  The board is external: it  *)
(* takes a request or not, at once or after its sender has given up.       *)
(***************************************************************************)
EXTENDS UsageState, Integers, FiniteSets

CONSTANTS
    Pids,      \* process numbers NVML lists; the board takes positive ones
    Cards,     \* Cards[g]: what NVML may say of device g
    Unread,    \* a process list that could not be read
    NoSnap,    \* no snapshot in hand
    MaxTaken,  \* bound: snapshots
    MaxRuns    \* bound: daemon processes

CardType == [util : {"low", "high"}, sized : BOOLEAN,
             compute : {Unread} \cup SUBSET Pids, graphics : {Unread} \cup SUBSET Pids]

ASSUME SamplingAssumption ==
    /\ Pids \subseteq Int /\ Cards \in [Gpus -> SUBSET CardType]
    /\ \A S \in SUBSET Pids : Unread # S
    /\ MaxTaken \in Nat /\ MaxRuns \in Nat

(* The devices that are there, each with what it says.                     *)
Fleets == UNION {{f \in [S -> UNION {Cards[g] : g \in S}] : \A g \in S : f[g] \in Cards[g]}
                 : S \in SUBSET Gpus}

VARIABLES
    at,      \* at[p]: where p is between two steps
    snap,    \* snap[p]: the Snapshot p works on
    unread,  \* unread[p]: the devices whose lists p's tier last failed to read
    run,     \* which daemon process this is
    taken,   \* history: what NVML said, one entry an instant
    rows,    \* the local history, in the order of the commits
    wire,    \* requests the board may still come to handle
    board,   \* observations the board has accepted
    outcome  \* how the last sync-once ended

vars == <<tracker, at, snap, unread, run, taken, rows, wire, board, outcome>>

Procs == {"daemon", "once"}

(* The run a row is attributed to; sync-once has none.                     *)
RunOf(p) == IF p = "daemon" THEN run ELSE 0

-----------------------------------------------------------------------------
(* NVMLTier.collect.                                                       *)

Listed(l) == IF l = Unread THEN {} ELSE l

(* mutant: the list read last decides                                      *)
ProcessesLast(c) ==
    [q \in Listed(c.compute) \cup Listed(c.graphics) |->
        IF q \in Listed(c.graphics) THEN "graphics" ELSE "compute"]

(* A process in both lists is a compute process, whatever its memory.      *)
Processes(c) ==
    [q \in Listed(c.compute) \cup Listed(c.graphics) |->
        IF q \in Listed(c.compute) THEN "compute" ELSE "graphics"]

(* mutant: only the compute list is watched                                *)
UnreadComputeOnly(cards) == {g \in DOMAIN cards : cards[g].compute = Unread}

UnreadIn(cards) == {g \in DOMAIN cards : Unread \in {cards[g].compute, cards[g].graphics}}

(* What the tracker looks at.                                              *)
Residency(c) == IF c.compute = Unread THEN "unavailable"
                ELSE IF \E q \in DOMAIN Processes(c) : Processes(c)[q] = "compute"
                     THEN "resident" ELSE "none"

Readings(cards) ==
    [g \in Gpus |-> IF g \in DOMAIN cards
                    THEN [util |-> cards[g].util, compute |-> Residency(cards[g])]
                    ELSE Gone]

(* The Snapshot once it is classified.                                     *)
Snapshot(p, cards, labels) ==
    [ts |-> Len(taken) + 1, by |-> p, run |-> RunOf(p), lost |-> FALSE,
     cards |-> [g \in DOMAIN cards |->
                  [util |-> cards[g].util, sized |-> cards[g].sized,
                   procs |-> Processes(cards[g]), state |-> labels[g]]]]

-----------------------------------------------------------------------------
(* derive_collection_status and build_observation_payload.                 *)

Status(s, missed) == IF s.lost THEN "error"
                     ELSE IF DOMAIN s.cards # {} /\ missed # {} THEN "partial"
                     ELSE "ok"

(* A device without a positive memory total makes the payload impossible.  *)
Buildable(s) == \A g \in DOMAIN s.cards : s.cards[g].sized

Shown(card) ==
    [util |-> card.util, state |-> card.state,
     procs |-> [q \in {q \in DOMAIN card.procs : q > 0} |-> card.procs[q]]]

Payload(s, missed) ==
    [ts |-> s.ts, by |-> s.by, status |-> Status(s, missed),
     cards |-> [g \in DOMAIN s.cards |-> Shown(s.cards[g])]]

Observation(p) == Payload(snap[p], unread[p])

-----------------------------------------------------------------------------
(* No command has ended since the last one began, or it ended with nothing *)
(* to say of a snapshot.                                                   *)
Silent == [exit |-> 1, told |-> "nothing", ts |-> 0]

SInit ==
    /\ UInit
    /\ at = [p \in Procs |-> "idle"]
    /\ snap = [p \in Procs |-> NoSnap]
    /\ unread = [p \in Procs |-> {}]
    /\ run = 1
    /\ taken = <<>>
    /\ rows = {} /\ wire = {} /\ board = {}
    /\ outcome = Silent

GoesTo(p, place) == at' = [at EXCEPT ![p] = place]

(* p is done with its snapshot.  A tick that ends early only logs it; the  *)
(* command tells its caller, and its tier goes with it.                    *)
Ends(p, answer) ==
    /\ GoesTo(p, "idle")
    /\ snap' = [snap EXCEPT ![p] = NoSnap]
    /\ unread' = IF p = "daemon" THEN unread ELSE [unread EXCEPT ![p] = {}]
    /\ outcome' = IF p = "daemon" THEN outcome ELSE answer

Says(p, exit, told) == [exit |-> exit, told |-> told, ts |-> snap[p].ts]

Starts(p) == at[p] = "idle" /\ Len(taken) < MaxTaken

(* p has a snapshot in hand, or the news that there is none to be had.     *)
Records(p, s, cards) ==
    /\ taken' = Append(taken, [by |-> p, run |-> RunOf(p), lost |-> s.lost, cards |-> cards])
    /\ snap' = [snap EXCEPT ![p] = s]
    /\ unread' = [unread EXCEPT ![p] = UnreadIn(cards)]
    /\ outcome' = IF p = "daemon" THEN outcome ELSE Silent

(* mutant: a tick publishes the labels of the tick before                  *)
TakeStale(p) ==
    /\ Starts(p)
    /\ \E cards \in Fleets :
        /\ IF p = "daemon" THEN Apply(Readings(cards)) ELSE Classify(Readings(cards))
        /\ Records(p, Snapshot(p, cards, state), cards)
    /\ GoesTo(p, "write")
    /\ UNCHANGED <<run, rows, wire, board>>

(* The devices that are there, each with what it says of itself; the       *)
(* snapshot is classified before it is written.                            *)
Take(p) ==
    /\ Starts(p)
    /\ \E cards \in Fleets :
        /\ IF p = "daemon" THEN Apply(Readings(cards)) ELSE Classify(Readings(cards))
        /\ Records(p, Snapshot(p, cards, state'), cards)
    /\ GoesTo(p, "write")
    /\ UNCHANGED <<run, rows, wire, board>>

(* NVML fails on some device, after it has answered for others: there is   *)
(* no snapshot, the tracker has not seen any, and the lists missed before  *)
(* the failure are noted (a command's tier goes with it).                  *)
CollectFails(p) ==
    /\ Starts(p)
    /\ \E g \in Gpus : \E missed \in SUBSET (Gpus \ {g}) :
        unread' = [unread EXCEPT ![p] = IF p = "daemon" THEN missed ELSE {}]
    /\ outcome' = IF p = "daemon" THEN outcome ELSE Silent
    /\ UNCHANGED <<tracker, at, snap, run, taken, rows, wire, board>>

(* _push_error_heartbeat: no driver, so nothing to write.                  *)
ProbeFails ==
    /\ Starts("once")
    /\ Records("once", [ts |-> Len(taken) + 1, by |-> "once", run |-> 0, lost |-> TRUE,
                        cards |-> <<>>], <<>>)
    /\ GoesTo("once", "push")
    /\ UNCHANGED <<tracker, run, rows, wire, board>>

Write(p) ==
    /\ at[p] = "write"
    /\ rows' = rows \cup {snap[p]}
    /\ GoesTo(p, "push")
    /\ UNCHANGED <<tracker, snap, unread, run, taken, wire, board, outcome>>

(* mutant: the error is logged and the push goes on                        *)
WriteFailsIgnored(p) ==
    /\ at[p] = "write"
    /\ GoesTo(p, "push")
    /\ UNCHANGED <<tracker, snap, unread, run, taken, rows, wire, board, outcome>>

(* The transaction is rolled back; the tracker is not.                     *)
WriteFails(p) ==
    /\ at[p] = "write"
    /\ Ends(p, Silent)
    /\ UNCHANGED <<tracker, run, taken, rows, wire, board>>

(* build_observation_payload raises.                                       *)
PayloadInvalid(p) ==
    /\ at[p] = "push" /\ ~Buildable(snap[p])
    /\ Ends(p, Says(p, 1, "saved"))
    /\ UNCHANGED <<tracker, run, taken, rows, wire, board>>

Send(p) ==
    /\ at[p] = "push" /\ Buildable(snap[p])
    /\ wire' = wire \cup {Observation(p)}
    /\ GoesTo(p, "await")
    /\ UNCHANGED <<tracker, snap, unread, run, taken, rows, board, outcome>>

(* The board takes a request, its sender waiting or long gone.             *)
Accept ==
    \E o \in wire :
        /\ wire' = wire \ {o} /\ board' = board \cup {o}
        /\ UNCHANGED <<tracker, at, snap, unread, run, taken, rows, outcome>>

(* mutant: the answer is not waited for                                    *)
AnsweredAtOnce(p) ==
    /\ at[p] = "await"
    /\ Ends(p, IF snap[p].lost THEN Says(p, 1, "heartbeat") ELSE Says(p, 0, "pushed"))
    /\ UNCHANGED <<tracker, run, taken, rows, wire, board>>

(* A success, with a body that is JSON or none.                            *)
Answered(p) ==
    /\ at[p] = "await" /\ Observation(p) \in board
    /\ Ends(p, IF snap[p].lost THEN Says(p, 1, "heartbeat") ELSE Says(p, 0, "pushed"))
    /\ UNCHANGED <<tracker, run, taken, rows, wire, board>>

(* A CloudError: no connection, an HTTP error, or a body that is not JSON. *)
(* The error of a proxy does not say that the board gives the request up,  *)
(* and one that is never handled may as well stay on the wire.             *)
PushFails(p) ==
    /\ at[p] = "await"
    /\ Ends(p, Says(p, 1, IF snap[p].lost THEN "failed" ELSE "saved"))
    /\ UNCHANGED <<tracker, run, taken, rows, wire, board>>

(* The answer does not come: a TimeoutError, which urllib wraps only while *)
(* it connects and sends, so that _request lets it pass.                   *)
TimesOut(p) ==
    /\ at[p] = "await"
    /\ Ends(p, Silent)
    /\ UNCHANGED <<tracker, run, taken, rows, wire, board>>

(* The process is killed; a daemon is started again, with a new tracker    *)
(* and a new tier.                                                         *)
Killed(p) ==
    /\ \/ p = "once" /\ at[p] # "idle" /\ UNCHANGED <<tracker, run>>
       \/ p = "daemon" /\ run < MaxRuns /\ run' = run + 1 /\ NewTracker
    /\ GoesTo(p, "idle")
    /\ snap' = [snap EXCEPT ![p] = NoSnap]
    /\ unread' = [unread EXCEPT ![p] = {}]
    /\ outcome' = IF p = "daemon" THEN outcome ELSE Silent
    /\ UNCHANGED <<taken, rows, wire, board>>

SNext ==
    \/ \E p \in Procs :
        \/ Take(p) \/ CollectFails(p) \/ Write(p) \/ WriteFails(p)
        \/ PayloadInvalid(p) \/ Send(p)
        \/ Answered(p) \/ PushFails(p) \/ TimesOut(p) \/ Killed(p)
    \/ ProbeFails \/ Accept

SSpec == SInit /\ [][SNext]_vars

-----------------------------------------------------------------------------
Places == {"idle", "write", "push", "await"}

(* The values the variables take; the board is only ever sent processes    *)
(* with a positive number (snapshot.py:127-129) and labels it knows.       *)
TypeOK ==
    /\ TrackerTypeOK
    /\ at \in [Procs -> Places]
    /\ \A p \in Procs : (snap[p] = NoSnap) <=> (at[p] = "idle")
    /\ unread \in [Procs -> SUBSET Gpus]
    /\ run \in 1 .. MaxRuns
    /\ Len(taken) <= MaxTaken
    /\ \A o \in wire \cup board :
        /\ o.ts \in 1 .. Len(taken) /\ o.by \in Procs
        /\ o.status \in {"ok", "partial", "error"}
        /\ \A g \in DOMAIN o.cards :
            /\ o.cards[g].state \in {"active", "idle_held", "idle", "unknown"}
            /\ \A q \in DOMAIN o.cards[g].procs : q > 0

Kept  == {r.ts : r \in rows}
ShownAt(os) == {o.ts : o \in {x \in os : x.status # "error"}}

Promised == INSTANCE LocalFirst
    WITH Instants <- 1 .. MaxTaken, kept <- Kept, shown <- ShownAt(board)

(* collect, local write, push, in this order, for the daemon and sync-once *)
(* at once (__main__.py:541-542): the board never has what the history has *)
(* not, a late request included, and nothing takes a committed row back.   *)
ImplementsLocalFirst == Promised!Spec

(* cards show what NVML said of the devices, with each process counted at  *)
(* its own device once and as what it is.                                  *)
Matches(cards, said, pids) ==
    /\ DOMAIN cards = DOMAIN said
    /\ \A g \in DOMAIN said : LET procs == cards[g].procs IN
        /\ cards[g].util = said[g].util
        /\ DOMAIN procs = pids \cap (Listed(said[g].compute) \cup Listed(said[g].graphics))
        /\ \A q \in DOMAIN procs :
              procs[q] = "compute" <=> q \in Listed(said[g].compute)

(* What the history and the board hold of a moment is what NVML said then  *)
(* of every device that answered (nvml.py:127-148, snapshot.py:77-114): no *)
(* snapshot is stored or sent in pieces or under the time of another.      *)
StoresMatchNvml ==
    /\ \A r \in rows : /\ r.by = taken[r.ts].by
                       /\ Matches(r.cards, taken[r.ts].cards, Pids)
    /\ \A o \in board \cup wire :
        /\ o.by = taken[o.ts].by
        /\ o.status = "error" <=> taken[o.ts].lost
        /\ Matches(o.cards, taken[o.ts].cards, {q \in Pids : q > 0})

(* A list that could not be read is told as partial, of this snapshot and  *)
(* no other (__main__.py:878-879), and hides the label of its own device   *)
(* only, when it is the compute list (nvml.py:64-66).                      *)
UnreadIsTold ==
    \A o \in board \cup wire : LET said == taken[o.ts].cards IN
        o.status # "error" =>
            /\ o.status = "partial" <=> \E g \in DOMAIN said :
                  Unread \in {said[g].compute, said[g].graphics}
            /\ \A g \in DOMAIN said :
                  o.cards[g].state = "unknown" <=> said[g].compute = Unread

(* The moments the tracker saw g at before r, and the last Window of them. *)
Seen(r, g) == {t \in 1 .. r.ts : /\ taken[t].by = "daemon" /\ taken[t].run = r.run
                                 /\ g \in DOMAIN taken[t].cards}
Recent(r, g) == {t \in Seen(r, g) :
                    Cardinality({u \in Seen(r, g) : u > t}) < Window}

(* The label of a row can be told from the rows of its run, unless one of  *)
(* the last Window readings was lost after the tracker had counted it      *)
(* (daemon.py:97-99); that of sync-once from its own row.                  *)
LabelMatchesHistory ==
    \A r \in rows : \A g \in DOMAIN r.cards :
        LET card == r.cards[g]
            base == IF r.by = "daemon" THEN Recent(r, g) ELSE {r.ts}
            used == \E q \in DOMAIN card.procs : card.procs[q] = "compute"
            busy == \E x \in rows : x.ts \in base /\ x.cards[g].util = "high"
        IN /\ used <=> card.state \in {"active", "idle_held"}
           /\ used /\ base \subseteq Kept => (card.state = "active" <=> busy)

(* Of the snapshot it names, an answer says no more than is so.            *)
Honest(a) ==
    /\ a.told \in {"saved", "pushed"} => a.ts \in Kept
    /\ a.told = "pushed" => a.ts \in ShownAt(board)
    /\ a.told = "heartbeat" => a.ts \in {o.ts : o \in board} \ ShownAt(board)
    /\ a.told = "failed" => taken[a.ts].lost
    /\ a.exit = 0 => a.told = "pushed"

(* What sync-once tells its caller is so (__main__.py:606-638), and stays  *)
(* so: success means both stores have the snapshot, "saved" that the local *)
(* one has, and only success ends with 0.                                  *)
AnswerIsTrue == Honest(outcome)
=============================================================================

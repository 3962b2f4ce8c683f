--------------------------- MODULE MCTickSchedule ----------------------------
(* Instances of TickSchedule, with what its ticks write, for TLC.          *)
EXTENDS GpuHours

MCGpus == {"held", "free", "busy"}
Proc(g, p, m, u) == [gpu |-> g, pid |-> p, mem |-> m, user |-> u]

(* Held by two processes neither of which holds it alone, one user's; just *)
(* under both thresholds; and at work.                                     *)
MCSnapshots ==
    {[util  |-> [g \in MCGpus |-> IF g = "busy" THEN 10 ELSE 9],
      procs |-> {Proc("held", 1, 1, "ann"), Proc("held", 2, 100, "ann"),
                 Proc("free", 3, 100, "bob")}]}
=============================================================================

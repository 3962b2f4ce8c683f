------------------------------ MODULE MCSampling ------------------------------
(* Instances of Sampling for TLC.                                          *)
EXTENDS Sampling, TLC

Card(u, s, c, g) == [util |-> u, sized |-> s, compute |-> c, graphics |-> g]

(* gpu0 is busy, without its graphics list, or held, without its size;     *)
(* gpu1 is without its compute list.                                       *)
MCGpus  == {"gpu0", "gpu1"}
MCPids  == {0, 7}
MCCards == [g \in MCGpus |->
    IF g = "gpu0" THEN {Card("high", TRUE, {7}, Unread), Card("low", FALSE, {7}, {0, 7})}
    ELSE {Card("high", TRUE, Unread, {0, 7})}]
=============================================================================

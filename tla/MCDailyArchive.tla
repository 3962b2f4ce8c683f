--------------------------- MODULE MCDailyArchive ---------------------------
(* Instances of DailyArchive for TLC; the bounds are in the cfg files.     *)
EXTENDS DailyArchive

AnySnapshot == {{}, {"gpu_sample"}, Tables}
WholeOrNone == {{}, Tables}
=============================================================================

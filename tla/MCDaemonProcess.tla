--------------------------- MODULE MCDaemonProcess ---------------------------
(* Instances of DaemonProcess for TLC; the bounds are in the cfg files.    *)
EXTENDS DaemonProcess
=============================================================================

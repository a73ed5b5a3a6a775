--------------------------- MODULE MCLaunchControl ---------------------------
(* Two instances and two launches, of one instance or of both. *)
EXTENDS LaunchControl
=============================================================================

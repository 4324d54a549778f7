---------------------------- MODULE MCLinuxTask ----------------------------
(* LinuxTask on small instances; the .cfg files choose the constants. *)
EXTENDS LinuxTask

=============================================================================

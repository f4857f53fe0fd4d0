-------------------------------- MODULE MCSuspend --------------------------------
(***************************************************************************)
(* A small instance of Suspend: one sweep that comes round, a restart and  *)
(* one resume.                                                             *)
(***************************************************************************)
EXTENDS Suspend
=============================================================================

---------------------------- MODULE MCFanService ----------------------------
(* Small instances of FanService. *)
EXTENDS FanService

\* Nothing goes wrong; daemons are killed; commands are, and daemons are slow.
Worlds == {{}, {"crash", "restore"}, {"interrupt", "slow"}}
=============================================================================

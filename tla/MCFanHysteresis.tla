--------------------------- MODULE MCFanHysteresis --------------------------
(* Small instances of FanHysteresis. *)
EXTENDS FanHysteresis

\* Temperatures close together, up to an emergency.
Warm == {72, 79, 83, 89}
=============================================================================

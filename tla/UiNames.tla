------------------------------- MODULE UiNames -------------------------------
(***************************************************************************)
(* The names of cr11_ui_state.h: the phases of the gateway's user interface *)
(* and the actions it asks its caller for.                                  *)
(***************************************************************************)

Phases == {"STARTING", "RESTORING", "UNPROVISIONED", "JOINING", "POST_JOIN",
           "READY", "LEAVING", "FORCE_PENDING", "RESULT_GRACEFUL",
           "RESULT_FORCED", "TERMINAL", "ERROR"}

Actions == {"START_STEERING", "BEGIN_LOCAL_RESET", "ARM_FORCED_WIPE"}

ResultPhases == {"RESULT_GRACEFUL", "RESULT_FORCED"}

\* A local reset that is under way and has not come to an end.
ResetFlow == {"LEAVING", "FORCE_PENDING"} \cup ResultPhases

\* Phases that only a reboot leaves.
FinalPhases == {"TERMINAL", "ERROR"}

AcceptsReset(phase) == phase \in {"READY", "POST_JOIN", "RESTORING"}
=============================================================================

---------------------------- MODULE UiRefinement ----------------------------
(***************************************************************************)
(* The UI state machine implements UiPhases: forget the clock readings, the  *)
(* button and the light, and every call is one of the steps promised there.  *)
(***************************************************************************)
EXTENDS UiMachine

Shown(s) == [phase    |-> s.phase,
             pending  |-> s.pending,
             left     |-> s.leave_succeeded,
             lease    |-> s.lease_armed,
             watchdog |-> s.boot_was_watchdog]

Promise == INSTANCE UiPhases WITH view <- Shown(ui)

\* Whatever calls are made and whenever, the phases, the requested actions and
\* the lease change only as UiPhases allows (all of cr11_ui_state.c).
KeepsPromise == Promise!Spec
=============================================================================

---------------------------- MODULE EventPathMC ----------------------------
(***************************************************************************)
(* EventPath on a small instance: two remotes, one of which reaches all the  *)
(* endpoints of the gateway, and fewer slots than links.                     *)
(***************************************************************************)
EXTENDS EventPath

Remote(low, high) == [mode |-> "short", address |-> <<low, high, 0, 0, 0, 0, 0, 0>>]
ExtendedRemote == [mode |-> "extended", address |-> <<1, 2, 3, 4, 5, 6, 7, 255>>]

MCLinks ==
    ({Remote(52, 18)} \X Cr11Endpoints) \cup {<<ExtendedRemote, 10>>}
=============================================================================

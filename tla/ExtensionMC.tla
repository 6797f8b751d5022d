----------------------------- MODULE ExtensionMC -----------------------------
(***************************************************************************)
(* The two parts of cr11_gateway_router_extension.mjs for model checking.  They *)
(* run in one event loop and share no state, and each property is about one  *)
(* of them, so that nothing is lost when each part runs while the other is at *)
(* rest.                                                                     *)
(***************************************************************************)
EXTENDS RouterExtension, SoftRejoin

extensionVars == <<vars, rejoinVars>>

ExtensionInit == Init /\ RejoinInit

ExtensionNext ==
    \/ Next /\ RejoinInit /\ UNCHANGED rejoinVars
    \/ RejoinNext /\ Init /\ gateway /\ UNCHANGED vars

ExtensionSpec ==
    /\ ExtensionInit /\ [][ExtensionNext]_extensionVars
    /\ RouterFairness
    /\ RejoinFairness
=============================================================================

------------------------ MODULE MCChannelGovernance ------------------------
(***************************************************************************)
(* ChannelGovernance with two devices of the founder's, one address that   *)
(* a version names as an admin or not.                                     *)
(***************************************************************************)
EXTENDS ChannelGovernance, TLC

CONSTANTS f1, f2, a1

MCHolder == f1 :> "founder" @@ f2 :> "founder" @@ a1 :> "admin"
=============================================================================

---------------------------- MODULE MCTabSession ----------------------------
(***************************************************************************)
(* TabSession with two accounts that sign in once each.                    *)
(***************************************************************************)
EXTENDS TabSession, TLC

CONSTANTS A, B, a1, b1

MCOwner == a1 :> A @@ b1 :> B

MCSymmetry == Permutations(Tab) \union Permutations(Slot)
=============================================================================

-------------------------- MODULE MCQuorumRecords --------------------------
(***************************************************************************)
(* QuorumRecords with three relays of the reference set and one of the     *)
(* writer's own.                                                           *)
(***************************************************************************)
EXTENDS QuorumRecords, TLC

CONSTANTS a, b, c, h

MCReference == {a, b, c}
MCRelay     == {a, b, c, h}

(* The writer's own relay forgets; so may one of the reference relays.     *)
MCForgetfuls == {{h}} \union {{h, r} : r \in MCReference}

MCSymmetry == Permutations(MCReference)
=============================================================================

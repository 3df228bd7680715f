------------------------- MODULE MCRevocationCheck -------------------------
(***************************************************************************)
(* RevocationCheck with two requests that overlap, either of two sessions  *)
(* of one account, the second issued one tick after the first, or of one   *)
(* session.                                                                *)
(***************************************************************************)
EXTENDS RevocationCheck, TLC

CONSTANTS s1, s2, a1, c1, c2

MCOwnSession  == c1 :> s1 @@ c2 :> s2
MCSameSession == [c \in Caller |-> s1]
MCAccountOf   == [s \in Session |-> a1]
MCIat         == [s \in Session |-> IF s = s1 THEN 0 ELSE 1]

(* Sound where both requests are of one session. *)
MCSymmetry == Permutations(Caller)
=============================================================================

------------------------- MODULE MCAttestationIndex -------------------------
(***************************************************************************)
(* AttestationIndex with one address that signed for one key and then for  *)
(* another, and a newer copy that it did not sign.                         *)
(***************************************************************************)
EXTENDS AttestationIndex, TLC

CONSTANTS addr, k, l, ck, cl, stray

MCAddressOf == [c \in {ck, cl, stray} |-> addr]
MCKeysOf     == ck :> {k} @@ cl :> {l} @@ stray :> {l}
MCIssued     == ck :> 2 @@ cl :> 1 @@ stray :> 3

MCCoins == {[old |-> 1, new |-> 1], [old |-> 2, new |-> 0]}
=============================================================================

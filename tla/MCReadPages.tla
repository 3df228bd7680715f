----------------------------- MODULE MCReadPages -----------------------------
(***************************************************************************)
(* ReadPages with two relays: both with any of four events, or one with    *)
(* any of six, one of them dropped by the reader, beside a relay with none *)
(* while at most one event is published.                                   *)
(***************************************************************************)
EXTENDS ReadPages, TLC

CONSTANTS e1, e2, f2, g2, e3, x2

MCAt == e1 :> 1 @@ e2 :> 2 @@ f2 :> 2 @@ g2 :> 2 @@ x2 :> 2 @@ e3 :> 3

MCSymmetry == Permutations(Relay) \union Permutations({e2, f2})

Beside == [cap |-> 2, others |-> 0, declares |-> FALSE]

Two ==
    /\ site \in [Relay -> [cap : {2, 3}, others : {0, 2}, declares : {FALSE}]]
    /\ first \in [Relay -> SUBSET {e1, e2, f2, e3}]

One ==
    \E r \in Relay, s \in Site, S \in SUBSET Event :
        /\ site = [q \in Relay |-> IF q = r THEN s ELSE Beside]
        /\ first = [q \in Relay |-> IF q = r THEN S ELSE {}]

MCInit == (Two \/ One) /\ Init

MCNext == Next /\ (held' # held => \E r \in Relay : first[r] = {} /\ held'[r] = {})

MCSpec == MCInit /\ [][MCNext]_vars
=============================================================================

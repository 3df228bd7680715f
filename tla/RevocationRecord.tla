--------------------------- MODULE RevocationRecord ---------------------------
(***************************************************************************)
(* What a revocation written to a quorum promises its readers: it is       *)
(* written once, its writer hears whether it was published, and from then  *)
(* on no lookup that begins says "live"; none says "revoked" of a record   *)
(* nobody wrote.  Relays, attempts and answers are left to QuorumRecords.  *)
(***************************************************************************)
CONSTANT Reader

VARIABLES
    write,  \* what the writer knows of its write
    lookup, \* whether a reader's lookup began, and on which side of "published"
    said    \* what the reader was told

vars == <<write, lookup, said>>

Outcome == {"published", "not yet published"}
Verdict == {"unknown", "revoked", "live", "short"}

Init ==
    /\ write = "idle"
    /\ lookup = [q \in Reader |-> "none"]
    /\ said = [q \in Reader |-> "none"]

Write ==
    /\ write = "idle" /\ write' = "writing"
    /\ UNCHANGED <<lookup, said>>

Report ==
    /\ write = "writing" /\ write' \in Outcome
    /\ UNCHANGED <<lookup, said>>

Begin(q) ==
    /\ lookup[q] = "none"
    /\ lookup' = [lookup EXCEPT ![q] = IF write = "published" THEN "after" ELSE "before"]
    /\ UNCHANGED <<write, said>>

MaySay(q, v) ==
    /\ v = "live" => lookup[q] = "before"
    /\ v = "revoked" => write # "idle"

Say(q) ==
    /\ lookup[q] # "none" /\ said[q] = "none"
    /\ \E v \in Verdict : MaySay(q, v) /\ said' = [said EXCEPT ![q] = v]
    /\ UNCHANGED <<write, lookup>>

Next ==
    \/ Write \/ Report
    \/ \E q \in Reader : Begin(q)
    \/ \E q \in Reader : Say(q)

Spec == Init /\ [][Next]_vars
=============================================================================

------------------------------ MODULE StampUpgrade ------------------------------
(***************************************************************************)
(* The proof of a stamp: submitToCalendars and upgradeProof of stamp-ots,  *)
(* run again and again by advanceOts of stamp-cli, which keeps what they   *)
(* return.  Calendars answer, fail or say "not yet" in any order; each     *)
(* anchors what it may have been sent in a block of its choosing, real or  *)
(* not, and the explorer comes to know a real block, or cannot be read.    *)
(*                                                                         *)
(* A proof is the calendars whose receipts are in it, and those whose      *)
(* continuations are.                                                      *)
(***************************************************************************)
EXTENDS Integers, FiniteSets, FiniteSetsExt

CONSTANTS
    Calendar,
    MinSuccesses, \* receipts a submission needs
    Height        \* heights of blocks

None == 0

VARIABLES
    block,     \* calendars: the block it says it anchored the stamp in, or None
    shown,     \* the calendars whose block the explorer shows with their root
    status,    \* of the stamp: none, pending or confirmed
    receipts,  \* the calendars in its proof
    merged,    \* those of them whose continuations are
    blockHeight,
    doing,     \* idle, submit or upgrade
    answer,    \* the calendars' answers in the call under way
    ripe,      \* whether it began with every calendar's block shown
    told       \* what the last call returned or threw

world == <<block, shown>>
stamp == <<status, receipts, merged, blockHeight>>
call  == <<doing, answer, ripe>>
vars  == <<world, stamp, call, told>>

Init ==
    /\ block = [c \in Calendar |-> None] /\ shown = {}
    /\ status = "none" /\ receipts = {} /\ merged = {} /\ blockHeight = None
    /\ doing = "idle" /\ answer = [c \in Calendar |-> "none"] /\ ripe = FALSE
    /\ told = "nothing"

-----------------------------------------------------------------------------
(* Calendars and the explorer.                                             *)

Anchor(c) ==
    /\ block[c] = None
    /\ \E h \in Height : block' = [block EXCEPT ![c] = h]
    /\ UNCHANGED <<shown, stamp, call, told>>

Show(c) ==
    /\ block[c] # None /\ shown' = shown \union {c}
    /\ UNCHANGED <<block, stamp, call, told>>

-----------------------------------------------------------------------------
(* advanceOts.                                                             *)

Asked == {c \in Calendar : answer[c] # "none"}
Settled == \A c \in Asked : answer[c] # "waiting"
Rejected == {c \in Asked : answer[c] = "failed"}

(* Only calendars the proof was submitted to.                              *)
Asks(c) == status = "none" \/ c \in receipts

Begin ==
    /\ doing = "idle" /\ status # "confirmed"
    /\ doing' = IF status = "none" THEN "submit" ELSE "upgrade"
    /\ answer' = [c \in Calendar |-> IF Asks(c) THEN "waiting" ELSE "none"]
    /\ ripe' = (status = "pending" /\ receipts \subseteq shown)
    /\ UNCHANGED <<world, stamp, told>>

Answers(c) ==
    /\ answer[c] = "waiting"
    /\ answer' = [answer EXCEPT ![c] =
         IF doing = "submit" THEN "receipt" ELSE IF block[c] = None THEN "not_yet" ELSE "merged"]
    /\ UNCHANGED <<world, stamp, doing, ripe, told>>

(* An answer that is refused, does not parse or has not come in time.      *)
Fails(c) ==
    /\ answer[c] = "waiting"
    /\ answer' = [answer EXCEPT ![c] = "failed"]
    /\ UNCHANGED <<world, stamp, doing, ripe, told>>

(* What the call returns is kept; of what it throws, nothing is.           *)
Returns(what) ==
    /\ told' = what /\ doing' = "idle"
    /\ answer' = [c \in Calendar |-> "none"] /\ ripe' = FALSE
    /\ UNCHANGED world

Throws(what) == Returns(what) /\ UNCHANGED stamp

Submitted ==
    LET ok == Asked \ Rejected IN
    /\ doing = "submit" /\ Settled
    /\ IF Cardinality(ok) < MinSuccesses THEN Throws("unread")
       ELSE /\ Returns("pending") /\ status' = "pending" /\ receipts' = ok
            /\ UNCHANGED <<merged, blockHeight>>


Tree == merged \union {c \in Asked : answer[c] = "merged"}

(* resolveAnchor: the blocks of the tree that the explorer bears out.      *)
Anchors(T) == {block[c] : c \in T \intersect shown}

(* Mutant of Unread: calendars that do not answer have not anchored yet.   *)
NeverUnread == FALSE

Unread == Asked # {} /\ Rejected = Asked

Upgraded ==
    LET anchors == Anchors(Tree) IN
    /\ doing = "upgrade" /\ Settled
    /\ IF anchors # {}
       THEN /\ Returns("confirmed") /\ status' = "confirmed"
            /\ merged' = Tree /\ blockHeight' = Min(anchors)
            /\ UNCHANGED receipts
       ELSE IF Unread THEN Throws("unread")
       ELSE /\ Returns("pending") /\ merged' = Tree
            /\ UNCHANGED <<status, receipts, blockHeight>>

(* The explorer does not answer about a block of the tree.                 *)
HeaderUnread ==
    /\ doing = "upgrade" /\ Settled /\ Tree # {}
    /\ Throws("header_unread")

Next ==
    \/ \E c \in Calendar : Anchor(c)
    \/ \E c \in Calendar : Show(c)
    \/ \E c \in Calendar : Answers(c)
    \/ \E c \in Calendar : Fails(c)
    \/ Begin \/ Submitted \/ Upgraded \/ HeaderUnread

(* A calendar is given up at its timeout, an upgrade is tried again and,   *)
(* now and then, the explorer answers.                                     *)
Fairness ==
    /\ \A c \in Calendar : WF_vars(Fails(c))
    /\ WF_vars(Begin) /\ WF_vars(Submitted) /\ SF_vars(Upgraded)

Spec == Init /\ [][Next]_vars
FairSpec == Spec /\ Fairness

-----------------------------------------------------------------------------
TypeOK ==
    /\ block \in [Calendar -> Height \union {None}] /\ shown \subseteq Calendar
    /\ merged \subseteq receipts /\ receipts \subseteq Calendar
    /\ (status = "none" <=> receipts = {}) /\ (status = "confirmed" <=> blockHeight # None)

(* A stamp is confirmed at a block the explorer bears out, whatever else   *)
(* its calendars say of blocks lower or higher (upgrade.ts:28-35).         *)
ConfirmedIsShown ==
    status = "confirmed" => \E c \in merged \intersect shown : block[c] = blockHeight

(* A proof all of whose calendars had anchored it before it was upgraded   *)
(* is never reported as still pending: confirmed, or not known, whichever  *)
(* of them answer (upgrade.ts:9, 44-48).                                   *)
AnchoredIsNotPending ==
    [][ripe /\ ~ripe' => told' # "pending"]_vars

=============================================================================

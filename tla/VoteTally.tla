------------------------------- MODULE VoteTally -------------------------------
(***************************************************************************)
(* tally of vote-core/src/tally.ts over an anchored poll: ballots are      *)
(* cast at any time, dated as their voters like, and in time if a Bitcoin  *)
(* block up to H_close + G commits to them.  Blocks are mined and          *)
(* reorganized while anyone tallies, and a tally once announced as final   *)
(* must be the one every later tally gives.                                *)
(*                                                                         *)
(* Ballots have the poll's id, an option of its own and a signature that   *)
(* verifies: tally drops the others one by one.  A voter's weight at the   *)
(* snapshot is given.                                                      *)
(***************************************************************************)
EXTENDS Integers, Sequences, FiniteSets, FiniteSetsExt, SequencesExt

CONSTANTS
    Voter,
    Ballot,
    Of,            \* voter, option, created_at, opens: what a ballot says, and
                   \* whether it opens to an option of the poll it is committed to
    BallotId,      \* ballot_id, which only orders ballots
    Option,
    Weight,        \* voterWeight at the snapshot
    Grace,         \* ANCHOR_GRACE_BLOCKS
    Confirmations, \* ANCHOR_FINAL_CONFIRMATIONS, and what a snapshot needs
    Snapshot,      \* what snapshot_block may be: a height, or Deadline
    MaxTip         \* bound: height of the chain

Unknown  == 0            \* closeHeight, or an anchor, not known
Deadline == 0            \* snapshot_block is "deadline"
Infinity == MaxTip + 1   \* sorts after every height

VARIABLES
    secret, tiebreak, snapshot_block, \* the poll's mode, tiebreak and snapshot
    tipHeight, peak,     \* the chain's height, and the greatest it had
    closeHeight, anchor, \* H_close, and the block that commits to each ballot
    cast,     \* the ballots published, in the order a tally is passed them
    announced \* what tallies gave as final

poll  == <<secret, tiebreak, snapshot_block>>
chain == <<tipHeight, peak, closeHeight, anchor>>
vars  == <<poll, chain, cast, announced>>

-----------------------------------------------------------------------------
(* anchor.ts.                                                              *)

lastAnchorHeight == closeHeight + Grace

(* Mutant of anchoredTallyIsFinal: the last anchorable block is enough.    *)
FinalAtLastAnchor == closeHeight # Unknown /\ tipHeight >= lastAnchorHeight

anchoredTallyIsFinal == closeHeight # Unknown /\ tipHeight >= lastAnchorHeight + Confirmations

inTime(b) == anchor[b] # Unknown /\ (closeHeight = Unknown \/ anchor[b] <= lastAnchorHeight)

-----------------------------------------------------------------------------
(* tally.                                                                  *)

Sorted(b) == IF anchor[b] = Unknown THEN Infinity ELSE anchor[b]

(* Mutant of After: ballots of one block and second are told apart by      *)
(* nothing.                                                                *)
AfterInTime(a, b) ==
    \/ Sorted(b) > Sorted(a)
    \/ Sorted(b) = Sorted(a) /\ Of[b].created_at > Of[a].created_at

(* b sorts after a by anchor, created_at and id.                           *)
After(a, b) ==
    \/ Sorted(b) > Sorted(a)
    \/ Sorted(b) = Sorted(a) /\ Of[b].created_at > Of[a].created_at
    \/ Sorted(b) = Sorted(a) /\ Of[b].created_at = Of[a].created_at /\ BallotId[b] > BallotId[a]

chooseByTiebreak(a, b) ==
    IF tiebreak = "latest" THEN IF After(a, b) THEN b ELSE a
                           ELSE IF After(b, a) THEN b ELSE a

(* A final tally keeps the ballots in time only.                           *)
Filtered(b) == anchoredTallyIsFinal => inTime(b)

(* One ballot more: the ballot kept of voter v, if any, or b.              *)
Keep(existing, b, v) ==
    IF Of[b].voter # v \/ ~Filtered(b) THEN existing
    ELSE IF existing = {} THEN {b} ELSE {chooseByTiebreak(a, b) : a \in existing}

(* The ballot of a voter that stands, if any.                              *)
Standing(ballots, v) ==
    LET perVoter[i \in 0 .. Len(ballots)] ==
          IF i = 0 THEN {} ELSE Keep(perVoter[i - 1], ballots[i], v)
    IN  perVoter[Len(ballots)]

Snapshots == IF snapshot_block = Deadline THEN closeHeight ELSE snapshot_block

Total(ballots) == MapThenSumSet(LAMBDA b : Weight[Of[b].voter], ballots)

(* The count of the ballots that stand; a voter whose coins cannot be read *)
(* stops it.  One that opens to no option is no ballot, though it stood.   *)
Count(ballots, unread) ==
    LET standing == UNION {Standing(ballots, v) : v \in Voter}
        counted  == {b \in standing : secret => Of[b].opens}
        weighed  == {b \in counted : Of[b].option # "withdraw"}
    IN  IF \E b \in weighed : Of[b].voter \in unread THEN [state |-> "unread"]
        ELSE [state   |-> IF anchoredTallyIsFinal THEN "tallied" ELSE "provisional",
              close   |-> closeHeight,
              counted |-> counted,
              tallies |-> [o \in Option |-> Total({b \in weighed : Of[b].option = o})]]

tally(ballots, unread) ==
    IF secret /\ ~anchoredTallyIsFinal THEN [state |-> "awaiting_reveal"]
    ELSE IF Snapshots = Unknown \/ tipHeight - Snapshots + 1 < Confirmations
      THEN [state |-> "deferred"]
    ELSE Count(ballots, unread)

-----------------------------------------------------------------------------
Init ==
    /\ secret \in BOOLEAN /\ tiebreak \in {"latest", "first"} /\ snapshot_block \in Snapshot
    /\ tipHeight = 1 /\ peak = 1 /\ closeHeight = Unknown
    /\ anchor = [b \in Ballot |-> Unknown]
    /\ cast = <<>> /\ announced = {}

Cast(b) ==
    /\ ~Contains(cast, b)
    /\ cast' = Append(cast, b)
    /\ UNCHANGED <<poll, chain, announced>>

(* A block: it commits to some ballots, and may be the first whose median  *)
(* time is past the deadline.                                              *)
Mine ==
    /\ tipHeight < MaxTip /\ tipHeight' = tipHeight + 1 /\ peak' = Max({peak, tipHeight'})
    /\ \E S \in SUBSET {b \in ToSet(cast) : anchor[b] = Unknown} :
         anchor' = [b \in Ballot |-> IF b \in S THEN tipHeight' ELSE anchor[b]]
    /\ \/ closeHeight' = closeHeight
       \/ closeHeight = Unknown /\ closeHeight' = tipHeight'
    /\ UNCHANGED <<poll, cast, announced>>

(* Blocks are replaced, none that had more than the confirmations a final  *)
(* tally asks for.                                                         *)
Reorg ==
    /\ \E h \in 1 .. tipHeight - 1 : h >= peak - Confirmations /\ tipHeight' = h
    /\ anchor' = [b \in Ballot |-> IF anchor[b] > tipHeight' THEN Unknown ELSE anchor[b]]
    /\ closeHeight' = IF closeHeight > tipHeight' THEN Unknown ELSE closeHeight
    /\ UNCHANGED <<poll, peak, cast, announced>>

(* Mutant of Announce: a provisional count is given out as the result.     *)
AnnounceEarly ==
    /\ \E unread \in SUBSET Voter :
         /\ tally(cast, unread).state \in {"tallied", "provisional"}
         /\ announced' = announced \union {tally(cast, unread)}
    /\ UNCHANGED <<poll, chain, cast>>

Announce ==
    /\ \E unread \in SUBSET Voter :
         /\ tally(cast, unread).state = "tallied"
         /\ announced' = announced \union {tally(cast, unread)}
    /\ UNCHANGED <<poll, chain, cast>>

Next ==
    \/ \E b \in Ballot : Cast(b)
    \/ Mine \/ Reorg \/ Announce

Spec == Init /\ [][Next]_vars

-----------------------------------------------------------------------------
TypeOK ==
    /\ tipHeight \in 1 .. MaxTip /\ peak \in tipHeight .. MaxTip /\ closeHeight \in 0 .. tipHeight
    /\ anchor \in [Ballot -> 0 .. tipHeight]
    /\ \A t \in announced : t.state = "tallied"

(* Every final tally is the same one: whatever is cast after it, however   *)
(* the chain grows, is reorganized by up to the confirmations it asks for  *)
(* and grows again, and whoever's coins could not be read meanwhile        *)
(* (anchor.ts:34-41, tally.ts:191-203, 328-333).                           *)
FinalTallyStands == Cardinality(announced) <= 1

(* A tally is of the ballots, not of the order they are passed in: voters' *)
(* earlier and later ballots, anchored or not, of one block or one second  *)
(* (tally.ts:414-437).                                                     *)
TallyIsOrderFree ==
    \A s \in SetToSeqs(ToSet(cast)) : tally(s, {}) = tally(cast, {})
=============================================================================

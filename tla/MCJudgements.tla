----------------------------- MODULE MCJudgements -----------------------------
(***************************************************************************)
(* What a reader makes of a channel, a pledge, a poll or an agent's        *)
(* action: ChannelGovernance with two devices of the founder's and an      *)
(* address that a version names as an admin or not, PledgeState with two   *)
(* outcomes, VoteTally with two ballots of one voter and one of another's, *)
(* or DelegatedActions with an action delivered twice.  The four share     *)
(* nothing: a behaviour is about one of them, chosen at the start.         *)
(***************************************************************************)
EXTENDS Integers, Sequences, TLC

CONSTANTS f1, f2, a1, v1, v2, b1, b2, b3, q1, q2

CONSTANTS
    Key, Founder, Admin, Holder, MaxCopies, MaxRevoked,
    Resolves, Expires, Windows, LastTime, MaxHeard,
    Voter, Ballot, Of, BallotId, Option, Weight, Grace, Confirmations, Snapshot, MaxTip,
    Request, Chains, Actions, Length, MaxSkew, GuardSkew, Block, LastDate, MaxRevocations

VARIABLES
    subject,
    version, revoked, freshest, tip,
    mechanism, disputes, atBlock, now, mined, heard, abandoned,
    secret, tiebreak, snapshot_block, tipHeight, peak, closeHeight, anchor, cast, announced,
    date, links, action, anchored, revocations, keepUntil, request

Channel == INSTANCE ChannelGovernance
Pledge  == INSTANCE PledgeState
Vote    == INSTANCE VoteTally
Acts    == INSTANCE DelegatedActions

channelVars == <<version, revoked, freshest, tip>>
pledgeVars  == <<mechanism, disputes, atBlock, now, mined, heard, abandoned>>
voteVars    == <<secret, tiebreak, snapshot_block, tipHeight, peak, closeHeight, anchor,
                 cast, announced>>
actVars     == <<date, links, action, anchored, revocations, keepUntil, request>>
vars == <<subject, channelVars, pledgeVars, voteVars, actVars>>

MCHolder == f1 :> "founder" @@ f2 :> "founder" @@ a1 :> "admin"
MCSymmetry == Permutations({f1, f2}) \union Permutations({q1, q2})

Says(v, o, opens) == [voter |-> v, option |-> o, created_at |-> 1, opens |-> opens]
MCOf == b1 :> Says(v1, "yes", TRUE) @@ b2 :> Says(v1, "no", FALSE) @@ b3 :> Says(v2, "yes", TRUE)
MCId == b1 :> 1 @@ b2 :> 2 @@ b3 :> 3
MCWeight == v1 :> 2 @@ v2 :> 1

(* Scopes with every operator, in a chain of one or two links; and one     *)
(* scope in chains of every window, of which alone revocations and anchors *)
(* are published, and whose actions alone are delivered twice.             *)
Scope(o, m) == [op |-> o, n |-> m]
AtMost2 == Scope("<=", 2)
Scopes == {Scope("none", 0), Scope("*", 0), Scope("=", 1), Scope("!=", 1), AtMost2,
           Scope("<", 2), Scope(">", 0), Scope(">=", 1)}
Within(from, to, c) == [issued |-> from, expires |-> to, scopes |-> {c}]
MCChains ==
    {<<Within(0, 3, c)>> : c \in Scopes}
    \union {<<Within(0, 3, c), Within(1, 3, d)>> : c \in Scopes, d \in Scopes}
    \union {<<Within(0, 3, AtMost2), Within(from, to, AtMost2)>> : from \in {0, 1}, to \in {2, 4}}
MCActions ==
    [signed_at : {1}, claim : Scopes, length : {0, 3}]
    \union [signed_at : 0 .. 3, claim : {AtMost2}, length : {1}]
Disturbed ==
    \/ revocations' # revocations \/ anchored' # anchored
    \/ \A q \in Request : request'[q] # Acts!Idle
Plain == action.length = 1 /\ \A i \in DOMAIN links : links[i].scopes = {AtMost2}

(* What the proofs ask of the constants: times and heights are numbers, a  *)
(* ballot has an id of its own, a chain has links, and the numbers of its  *)
(* scopes lie below Infinity.                                              *)
PledgeTimes == /\ LastTime \in Nat /\ Resolves \in Int /\ Expires \in Int
               /\ Windows \subseteq Int /\ MaxHeard \in Nat

VoteBounds ==
    /\ MaxTip \in Nat \ {0} /\ Grace \in Nat /\ Confirmations \in Nat
    /\ \A b \in Ballot : Of[b].created_at \in Int
    /\ BallotId \in [Ballot -> Int]
    /\ \A a, b \in Ballot : BallotId[a] = BallotId[b] => a = b

ActsNumber == {n \in Int : -Acts!Infinity < n /\ n < Acts!Infinity}
ActsScope == [op : {"none", "*", "=", "!=", "<", "<=", ">", ">="}, n : ActsNumber]
ActsLink == [issued : Int, expires : Int, scopes : SUBSET ActsScope]

ActsBounds ==
    /\ Chains \subseteq {s \in Seq(ActsLink) : s # <<>>}
    /\ Length \subseteq Int
    /\ Actions \subseteq [signed_at : Int, claim : ActsScope, length : Length]
    /\ GuardSkew \in Int /\ MaxSkew \in Int /\ LastDate \in Nat

ASSUME JudgementsAssumption == PledgeTimes /\ VoteBounds /\ ActsBounds

NoChannel == version = <<>> /\ revoked = {} /\ freshest = TRUE /\ tip = 0
NoPledge  == /\ mechanism = "deterministic" /\ disputes = TRUE /\ atBlock = TRUE
             /\ now = 0 /\ mined = FALSE /\ heard = <<>> /\ abandoned = FALSE
NoVote    == /\ secret = FALSE /\ tiebreak = "latest" /\ snapshot_block = 0
             /\ tipHeight = 1 /\ peak = 1 /\ closeHeight = 0
             /\ anchor = [b \in Ballot |-> 0] /\ cast = <<>> /\ announced = {}
NoAct     == /\ date = 0 /\ links = <<>> /\ action = Scope("none", 0) /\ anchored = 0
             /\ revocations = {} /\ keepUntil = Acts!Unknown
             /\ request = [q \in Request |-> Acts!Idle]

Init ==
    \/ subject = "channel" /\ Channel!Init /\ NoPledge /\ NoVote /\ NoAct
    \/ subject = "pledge" /\ Pledge!Init /\ NoChannel /\ NoVote /\ NoAct
    \/ subject = "vote" /\ Vote!Init /\ NoChannel /\ NoPledge /\ NoAct
    \/ subject = "act" /\ Acts!Init /\ NoChannel /\ NoPledge /\ NoVote

Next ==
    \/ subject = "channel" /\ Channel!Next /\ UNCHANGED <<subject, pledgeVars, voteVars, actVars>>
    \/ subject = "pledge" /\ Pledge!Next /\ UNCHANGED <<subject, channelVars, voteVars, actVars>>
    \/ subject = "vote" /\ Vote!Next /\ UNCHANGED <<subject, channelVars, pledgeVars, actVars>>
    \/ /\ subject = "act" /\ Acts!Next /\ (Disturbed => Plain)
       /\ UNCHANGED <<subject, channelVars, pledgeVars, voteVars>>

Spec == Init /\ [][Next]_vars

(* Every module's type invariant.                                          *)
TypeOK ==
    /\ Channel!TypeOK /\ Pledge!TypeOK /\ Vote!TypeOK
    /\ subject = "act" => Acts!TypeOK

(* Their properties, as each module states them.                           *)
OrderOnlyBreaksTies == subject = "pledge" => Pledge!OrderOnlyBreaksTies
FinalTallyStands    == subject = "vote" => Vote!FinalTallyStands
TallyIsOrderFree    == subject = "vote" => Vote!TallyIsOrderFree
ActsAreGranted      == subject = "act" => Acts!ActsAreGranted
AuditUpholdsActs    == subject = "act" => Acts!AuditUpholdsActs
RepeatIsLate        == subject = "act" => Acts!RepeatIsLate

StrangersChangeNothing == Channel!StrangersChangeNothing
FounderChainStands     == Channel!FounderChainStands
ReopenedByFounder      == Channel!ReopenedByFounder
ExpiryIsFinal          == Pledge!ExpiryIsFinal
=============================================================================

--------------------------- MODULE DelegatedActions ---------------------------
(***************************************************************************)
(* A server that decides whether to run what an agent signed, with         *)
(* verifyAction and createReplayGuard of agent-core/src/verify.ts, as      *)
(* EXAMPLES.md:491-507 and agent-mcp/README.md:98-131 have it: the         *)
(* revocations are read, verifyAction is called and awaited, and what      *)
(* passes is run on its first use.  The one action of a behaviour may      *)
(* reach the server more than once, and an auditor judges it as of its own *)
(* signed_at, by verifyActionAsOfSignedAt.                                 *)
(*                                                                         *)
(* A chain is a delegation and at most one sub-delegation of it.  Scopes   *)
(* are of one verb with one numeric key, which the signed content also     *)
(* tells (max_bytes).  Envelopes are well formed, their signers are those  *)
(* their links name, and an anchor is verified where there is one.         *)
(***************************************************************************)
EXTENDS Integers, Sequences, FiniteSets

CONSTANTS
    Request,        \* deliveries of the action
    Chains,         \* chains: sequences of [issued, expires, scopes]
    Actions,        \* actions: [signed_at, claim, length]; a claim, as a scope, is [op, n]
    Length,         \* lengths of content
    MaxSkew,        \* maxSkewMs of verifyAction
    GuardSkew,      \* maxSkewMs of createReplayGuard
    Block,          \* heights of anchors
    LastDate,       \* bound: when the clock stops
    MaxRevocations  \* bound: copies of revocations published

VARIABLES
    date,        \* the server's clock
    links,       \* the links, the root first
    action,      \* what the agent signed
    anchored,    \* the height of the action's anchor, 0 for none
    revocations, \* the copies of revocations published
    keepUntil,   \* until when the guard remembers the action
    request

signed == <<links, action>>
vars == <<date, signed, anchored, revocations, keepUntil, request>>

Unknown == -1  \* no time: the guard does not have the action

(* A copy's ots is outside its signature: it may claim an anchor that does *)
(* not verify, whose height is 0.                                          *)
Revocation ==
    {r \in [link : {1, 2}, signed_at : 0 .. LastDate, confirmed : BOOLEAN, height : Block \union {0}] :
       r.height # 0 => r.confirmed}

-----------------------------------------------------------------------------
(* Scopes (scope.ts).                                                      *)

Infinity == 1000  \* beyond every number of a scope

Lowest(c)  == IF c.op \in {"=", ">="} THEN c.n ELSE IF c.op = ">" THEN c.n + 1 ELSE -Infinity
Highest(c) == IF c.op \in {"=", "<="} THEN c.n ELSE IF c.op = "<" THEN c.n - 1 ELSE Infinity

Ordered == {"<", "<=", ">", ">="}

(* Mutant of rangeSubset: only the upper ends are compared.                *)
rangeSubsetAbove(ex, g) == ex.op \in Ordered \union {"="} /\ Highest(ex) <= Highest(g)

rangeSubset(ex, g) ==
    /\ ex.op \in Ordered \union {"="}
    /\ Lowest(g) <= Lowest(ex) /\ Highest(ex) <= Highest(g)

isSubScope(ex, g) ==
    \/ g.op \in {"none", "*"}
    \/ g.op = "=" /\ ex = g
    \/ g.op = "!=" /\ ((ex.op = "=" /\ ex.n # g.n) \/ ex = g)
    \/ g.op \in Ordered /\ rangeSubset(ex, g)

(* The key as the signed content has it, whatever the agent claims.        *)
contentBoundScope == [op |-> "=", n |-> action.length]

-----------------------------------------------------------------------------
(* verifyAction, as of a date, and verifyActionAsOfSignedAt.               *)

LinkIds == DOMAIN links
Leaf    == links[Len(links)]

In(t, link) == link.issued <= t /\ t < link.expires

(* A link is within the one above it, in time and in scope.                *)
verifyChainLink(link, parent) ==
    /\ link.issued < link.expires
    /\ parent.issued <= link.issued /\ link.expires <= parent.expires
    /\ \A c \in link.scopes : \E p \in parent.scopes : isSubScope(c, p)

Contained ==
    \E g \in Leaf.scopes : isSubScope(action.claim, g) /\ isSubScope(contentBoundScope, g)

(* The revocation takes effect at or before the action.                    *)
revocationPrecedes(r) ==
    IF r.height # 0 /\ anchored # 0 THEN r.height <= anchored
    ELSE \/ anchored = 0 /\ r.confirmed
         \/ r.signed_at <= action.signed_at

InEffect(r, t) == r.height # 0 \/ r.signed_at <= t

(* What holds of the action whenever it is judged.                         *)
Granted ==
    /\ \A i \in LinkIds \ {1} : verifyChainLink(links[i], links[i - 1])
    /\ In(action.signed_at, Leaf)
    /\ Contained

Cites(S) == {r \in S : r.link \in LinkIds}

verifyActionAsOfSignedAt(S) == Granted /\ \A r \in Cites(S) : ~revocationPrecedes(r)

(* Mutant of verifyAction: only the date of the check counts against a     *)
(* revocation.                                                             *)
verifyActionAtNow(S, t) ==
    /\ Granted
    /\ \A i \in LinkIds : In(t, links[i])
    /\ \A r \in Cites(S) : ~InEffect(r, t)
    /\ t - action.signed_at <= MaxSkew /\ action.signed_at - t <= MaxSkew

verifyAction(S, t) ==
    /\ verifyActionAsOfSignedAt(S)
    /\ \A i \in LinkIds : In(t, links[i])
    /\ \A r \in Cites(S) : ~InEffect(r, t)
    /\ t - action.signed_at <= MaxSkew /\ action.signed_at - t <= MaxSkew

-----------------------------------------------------------------------------
Idle == [step |-> "idle"]

Init ==
    /\ date = 0
    /\ links \in Chains /\ action \in Actions /\ anchored = 0
    /\ revocations = {}
    /\ keepUntil = Unknown
    /\ request = [q \in Request |-> Idle]

(* The principal or the agent of a link revokes it, dating it as they      *)
(* like, or somebody passes on another copy.                               *)
Revoke(r) ==
    /\ Cardinality(revocations) < MaxRevocations
    /\ revocations' = revocations \union {r}
    /\ UNCHANGED <<date, signed, anchored, keepUntil, request>>

Anchor(h) ==
    /\ anchored = 0 /\ anchored' = h
    /\ UNCHANGED <<date, signed, revocations, keepUntil, request>>

Tick ==
    /\ date < LastDate /\ date' = date + 1
    /\ UNCHANGED <<signed, anchored, revocations, keepUntil, request>>

Becomes(q, r) == request' = [request EXCEPT ![q] = r]

(* The caller reads the revocations of the chain.                          *)
Fetch(q) ==
    /\ request[q].step = "idle"
    /\ Becomes(q, [step |-> "fetched", read |-> revocations])
    /\ UNCHANGED <<date, signed, anchored, revocations, keepUntil>>

(* verifyAction takes the date when it is called; its answer is awaited.   *)
Verify(q) ==
    /\ request[q].step = "fetched"
    /\ LET read == request[q].read IN
       Becomes(q, IF verifyAction(read, date)
                  THEN [step |-> "passed", read |-> read, asOf |-> date]
                  ELSE [step |-> "refused"])
    /\ UNCHANGED <<date, signed, anchored, revocations, keepUntil>>

Remembered == keepUntil > date

Runs(q) ==
    Becomes(q, [step |-> "run", read |-> request[q].read, asOf |-> request[q].asOf, at |-> date])

(* Mutant of firstUse: the action is kept until its signing, not until it  *)
(* could no longer pass.                                                   *)
firstUseKeepsToSigning(q) ==
    /\ request[q].step = "passed"
    /\ IF Remembered THEN Becomes(q, [step |-> "used"]) /\ UNCHANGED keepUntil
                     ELSE Runs(q) /\ keepUntil' = action.signed_at
    /\ UNCHANGED <<date, signed, anchored, revocations>>

(* The guard drops what it need no longer remember, then looks.            *)
firstUse(q) ==
    /\ request[q].step = "passed"
    /\ IF Remembered THEN Becomes(q, [step |-> "used"]) /\ UNCHANGED keepUntil
                     ELSE Runs(q) /\ keepUntil' = action.signed_at + GuardSkew
    /\ UNCHANGED <<date, signed, anchored, revocations>>

Next ==
    \/ \E r \in Revocation : Revoke(r)
    \/ \E h \in Block : Anchor(h)
    \/ \E q \in Request : Fetch(q) \/ Verify(q) \/ firstUse(q)
    \/ Tick

Spec == Init /\ [][Next]_vars

-----------------------------------------------------------------------------
TypeOK ==
    /\ date \in 0 .. LastDate
    /\ links \in Chains /\ action \in Actions /\ anchored \in Block \union {0}
    /\ revocations \subseteq Revocation
    /\ keepUntil \in {Unknown} \union Int
    /\ \A q \in Request :
         request[q].step \in {"idle", "fetched", "passed", "refused", "run", "used"}

Run == {q \in Request : request[q].step = "run"}

(* The numbers a scope lets the key be, by the meaning of its operator.    *)
Allowed(c) ==
    {n \in Length : CASE c.op = "="  -> n = c.n
                      [] c.op = "!=" -> n # c.n
                      [] c.op = "<"  -> n < c.n
                      [] c.op = "<=" -> n <= c.n
                      [] c.op = ">"  -> n > c.n
                      [] c.op = ">=" -> n >= c.n
                      [] OTHER       -> TRUE}

(* What is run lies within one scope of the root's, both as claimed and as *)
(* its content is, however the chain narrows it; every link was in force   *)
(* when it was signed and when it was checked; and no revocation of any    *)
(* link that the caller had read was dated by then (verify.ts:416-683,     *)
(* 992-1119; scope.ts:343-387).                                            *)
ActsAreGranted ==
    \A q \in Run :
        /\ \E g \in links[1].scopes :
             Allowed(action.claim) \union {action.length} \subseteq Allowed(g)
        /\ \A i \in LinkIds : In(action.signed_at, links[i]) /\ In(request[q].asOf, links[i])
        /\ \A r \in request[q].read : r.link \in LinkIds => request[q].asOf < r.signed_at

(* What was run is upheld by every later audit, however the action is      *)
(* anchored since, but for a copy of a revocation that the caller had not  *)
(* read, dated no later than the action or claiming an anchor              *)
(* (verify.ts:583-620, 1203-1214).                                         *)
AuditUpholdsActs ==
    \A q \in Run :
        verifyActionAsOfSignedAt(revocations)
        \/ \E r \in Cites(revocations) \ request[q].read :
              r.confirmed \/ r.signed_at <= action.signed_at

(* An action is run again only once the guard's time from its signing is   *)
(* over: never while it is remembered, whatever the order of the requests  *)
(* and however long their checks take (verify.ts:685-710).                 *)
RepeatIsLate ==
    \A p, q \in Run : p # q =>
        \E r \in {p, q} : request[r].at >= action.signed_at + GuardSkew
===============================================================================

-------------------------- MODULE ChannelGovernance --------------------------
(***************************************************************************)
(* The governance of a channel: verifyDescriptor and resolveChannelChain   *)
(* of chat-core/src/channel.ts.  Devices sign versions on any version they *)
(* like, sign again what others wrote, and are revoked; a reader resolves  *)
(* the versions it holds to the tip that governs.                          *)
(*                                                                         *)
(* A key is one binding of one device, and every copy carries its binding; *)
(* a successor goes the way of the status.  Versions are numbered as they  *)
(* are first signed: `freshest` says whether created_at and the ids rank a *)
(* later one first or last among versions of equal standing.               *)
(***************************************************************************)
EXTENDS Integers, FiniteSets, Sequences

CONSTANTS
    Key,
    Founder,   \* the founder's address
    Admin,     \* the addresses a version may name as admins
    Holder,    \* the address a key's binding names
    MaxCopies, \* bound: copies of versions signed
    MaxRevoked \* bound: keys revoked

None == 0   \* what a genesis supersedes, and a channel that does not resolve

VARIABLES
    version,  \* nodes: the versions, each with the keys that signed a copy
    revoked,  \* the keys whose binding is revoked
    freshest, \* whether the later of two versions wins a tie
    tip       \* the version the channel resolves to, for a reader that holds them all

vars == <<version, revoked, freshest, tip>>

Id == DOMAIN version
OfFounder == {k \in Key : Holder[k] = Founder}

-----------------------------------------------------------------------------
(* verifyDescriptor.                                                       *)

(* Mutant of AdminMay: an admin may re-open a channel.                     *)
AdminMayOpen(p, v) == p.admins \subseteq v.admins /\ (v.closed => p.closed)

(* An admin may not remove an admin, nor close or re-open the channel.     *)
AdminMay(p, v) == p.admins \subseteq v.admins /\ v.closed = p.closed

(* Mutant of MaySign: a genesis by whoever it names as the inbox.          *)
GenesisByAnyone(k, v, V) == v.supersedes = None /\ k = v.inbox

(* A genesis is signed by the founder's inbox key it names; a version on   *)
(* another keeps that key, and is the founder's or an admin's of the prior.*)
MaySign(k, v, V) ==
    IF v.supersedes = None THEN k = v.inbox /\ k \in OfFounder
    ELSE LET p == V[v.supersedes] IN
         /\ v.inbox = p.inbox
         /\ k \in OfFounder \/ (Holder[k] \in p.admins /\ AdminMay(p, v))

-----------------------------------------------------------------------------
(* resolveChannelChain, of the versions V when the keys R are revoked.     *)

(* Mutant of Copies: one copy is kept, and it may be a stranger's.         *)
OneCopy(V, i) == {k \in V[i].signers : \A o \in V[i].signers : MaySign(o, V[i], V)}

(* The keys that signed an authorized copy.                                *)
Copies(V, i) == {k \in V[i].signers : MaySign(k, V[i], V)}

(* A version and those before it, back to its genesis.                     *)
Chain(V, i) == {i} \union V[i].before

(* A version stands on its binding, and on the versions before it, revoked *)
(* since or not.                                                           *)
Stands(V, copies, i) == \A a \in Chain(V, i) : copies[a] # {}

(* The versions on a chain that ends at a tip.                             *)
Resolving(V, tips) == UNION {Chain(V, t) : t \in tips}

Rank(copies, R) ==
    LET ofFounder == copies \intersect OfFounder IN
    IF ofFounder \ R # {} THEN 1 ELSE IF ofFounder # {} THEN 2 ELSE 3

(* Mutant of Overruled: the longest chain wins at every fork.              *)
NeverOverruled(V, rank, i) == FALSE

(* A sibling at a fork on the way to i ranks better; geneses are siblings. *)
Overruled(V, rank, i) ==
    \E a \in Chain(V, i) : \E o \in DOMAIN rank :
        V[o].supersedes = V[a].supersedes /\ rank[o] < rank[a]

(* A closed tip, then the longest chain, then created_at and the id.       *)
Beats(V, i, j) ==
    LET depth(a) == Cardinality(V[a].before)
    IN  IF V[i].closed # V[j].closed THEN V[i].closed
        ELSE IF depth(i) # depth(j) THEN depth(i) > depth(j) ELSE (i > j) = freshest

(* validateChain, tipCopy, and the best of the tips that nothing           *)
(* supersedes and no fork overrules.                                       *)
Resolution(V, R) ==
    LET copies    == [i \in DOMAIN V |-> Copies(V, i)]
        stands    == {i \in DOMAIN V : Stands(V, copies, i)}
        tips      == {i \in stands : copies[i] \ R # {}}
        resolving == Resolving(V, tips)
        rank      == [i \in resolving |-> Rank(copies[i], R)]
        left      == {i \in tips : /\ \A o \in resolving : V[o].supersedes # i
                                   /\ ~Overruled(V, rank, i)}
    IN  [tips |-> tips, rank |-> rank,
         tip |-> IF left = {} THEN None
                 ELSE CHOOSE i \in left : \A j \in left \ {i} : Beats(V, i, j)]

-----------------------------------------------------------------------------
Init ==
    /\ version = <<>>
    /\ revoked = {}
    /\ freshest \in BOOLEAN
    /\ tip = None

Content(k, s) ==
    [supersedes : {s}, before : {IF s = None THEN {} ELSE Chain(version, s)},
     inbox : {IF s = None THEN k ELSE version[s].inbox},
     admins : SUBSET Admin, closed : BOOLEAN, signers : {{k}}]

Room == Cardinality(UNION {{i} \X version[i].signers : i \in Id}) < MaxCopies

(* A key, revoked or not, signs what it may sign on any version there is.  *)
Sign(k) ==
    /\ Room
    /\ \E s \in Id \union {None} : \E v \in Content(k, s) :
         MaySign(k, v, version) /\ version' = Append(version, v)
    /\ UNCHANGED <<revoked, freshest>>
    /\ tip' = Resolution(version', revoked').tip

(* Any key signs a version there is: the id covers the content alone.      *)
SignAgain(k) ==
    /\ Room
    /\ \E i \in Id : version' = [version EXCEPT ![i].signers = @ \union {k}]
    /\ UNCHANGED <<revoked, freshest>>
    /\ tip' = Resolution(version', revoked').tip

Revoke(k) ==
    /\ Cardinality(revoked) < MaxRevoked
    /\ k \notin revoked /\ revoked' = revoked \union {k}
    /\ UNCHANGED <<version, freshest>>
    /\ tip' = Resolution(version', revoked').tip

Next ==
    \/ \E k \in Key : Sign(k)
    \/ \E k \in Key : SignAgain(k)
    \/ \E k \in Key : Revoke(k)

Spec == Init /\ [][Next]_vars

-----------------------------------------------------------------------------
TypeOK ==
    /\ \A i \in Id : /\ version[i].supersedes \in 0 .. i - 1
                     /\ version[i].inbox \in OfFounder /\ version[i].admins \subseteq Admin
                     /\ version[i].signers \subseteq Key
    /\ revoked \subseteq Key
    /\ tip \in Id \union {None}

Now == Resolution(version, revoked)

TipChain == IF tip = None THEN {} ELSE Chain(version, tip)

By(k) == \E i \in Id' : k \in version'[i].signers /\ (i \in Id => k \notin version[i].signers)

(* A key no version names moves no tip, whoever's content it signs again   *)
(* (channel.ts:646-650).                                                   *)
StrangersChangeNothing ==
    [][\A k \in Key \ OfFounder :
           By(k) /\ (\A i \in Id : Holder[k] \notin version[i].admins) => tip' = tip]_vars

(* The founder decided each version up to the tip, and none of the         *)
(* founder's competes with one of them: then an admin's or a revoked       *)
(* device's branch, at whatever fork and however long, leaves the tip on   *)
(* the channel's chain (channel.ts:795-800).                               *)
Undisputed ==
    LET rank == Now.rank IN
    \A a \in TipChain : /\ rank[a] = 1
                        /\ \A o \in DOMAIN rank \ {a} :
                             rank[o] = 1 => version[o].supersedes # version[a].supersedes

FounderChainStands ==
    [][\A k \in Key : By(k) /\ k \notin OfFounder \ revoked /\ tip # None /\ Undisputed
           => tip \in TipChain']_vars

(* While a closed version has a live copy, the channel is open only if the *)
(* founder signed an open version off its chain: no admin's branch opens   *)
(* it, from before the close or after it, whatever is signed again or      *)
(* revoked (channel.ts:404-424, 826-832).                                  *)
ReopenedByFounder ==
    \A t \in Now.tips : version[t].closed /\ tip # None /\ ~version[tip].closed =>
        \E i \in DOMAIN Now.rank \ Chain(version, t) :
            ~version[i].closed /\ Copies(version, i) \intersect OfFounder # {}


=============================================================================

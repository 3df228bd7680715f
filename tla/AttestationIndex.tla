--------------------------- MODULE AttestationIndex ---------------------------
(***************************************************************************)
(* AttestationIndex of relay-filter/src/attestation-index.ts: every        *)
(* attestation a relay was shown, and decide() answered from memory while  *)
(* refreshes check signatures and read the chain, and address reads look   *)
(* for other keys an address backs.  Both run freely against each other;   *)
(* each await splits its function into actions.                            *)
(*                                                                         *)
(* A copy is an attestation with one signature.  A bond is the amounts of  *)
(* an address's coins old enough and too new for the one age asked for.    *)
(***************************************************************************)
EXTENDS Integers, FiniteSets

CONSTANTS
    Copy, Address, Key,
    AddressOf,  \* the address of a copy
    KeysOf,     \* the keys it binds
    Issued,     \* issuedAt, as a rank
    Valid,      \* the copies whose signature verifies
    Ahead,      \* the copies dated ahead of the clock at the start
    Coins,      \* [old, new]: what an address may hold
    Amounts,    \* the values minSats takes
    MaxInFlight, \* bound: refreshes running at once
    MaxReads     \* bound: reads of one address running at once

ASSUME CopyAssumption ==
    /\ AddressOf \in [Copy -> Address] /\ KeysOf \in [Copy -> SUBSET Key]
    /\ Issued \in [Copy -> Nat] /\ Valid \subseteq Copy /\ Ahead \subseteq Copy
    /\ \A S \in SUBSET Copy : S # {} => \E c \in S : \A d \in S : Issued[d] <= Issued[c]

ASSUME AmountAssumption ==
    /\ Coins \subseteq [old : Nat, new : Nat] /\ Amounts \subseteq Nat
    /\ MaxInFlight \in Nat /\ MaxReads \in Nat

Bond    == [ok : BOOLEAN, old : Nat, new : Nat, cover : Nat]
NoBond  == [ok |-> FALSE, old |-> 0, new |-> 0, cover |-> -1]
Refresh == [step : {"signing", "asking"}, address : Address, list : SUBSET Copy,
            copy : Copy, cover : Nat]

VARIABLES
    held,       \* byId: the copies held
    signed,     \* whether each copy's signature verifies, once checked
    bonds,      \* the bond last read of each address
    chainDown,  \* the addresses the chain API has not answered for yet
    refused,    \* the addresses whose coins it would not list
    unread,     \* the addresses whose own read has not finished
    cover,      \* the amount bonds are read for
    refreshing, \* the refreshes in flight
    due,        \* the addresses refreshAll has still to refresh
    reads,      \* the reads of each address in flight
    published,  \* the copies the relays serve
    ahead,      \* the copies still dated ahead of the clock
    first,      \* history: the copies served of an address when it was first held
    answered    \* history: the addresses the chain has answered about

memory == <<held, signed, bonds, chainDown, refused, unread, cover>>
world  == <<published, ahead>>
vars   == <<memory, refreshing, due, reads, world, first, answered>>

CopiesOf(a, H) == {c \in H : AddressOf[c] = a}
Known(H) == {AddressOf[c] : c \in H}
Newest(S) == CHOOSE c \in S : \A d \in S : Issued[d] <= Issued[c]

Init ==
    /\ held = {} /\ signed = [c \in Copy |-> "unchecked"]
    /\ bonds = [a \in Address |-> NoBond]
    /\ chainDown = {} /\ refused = {} /\ unread = {}
    /\ cover \in Amounts
    /\ refreshing = {} /\ due = {} /\ reads = [a \in Address |-> 0]
    /\ published \in SUBSET Copy /\ ahead = Ahead
    /\ first = [a \in Address |-> {}] /\ answered = {}

-----------------------------------------------------------------------------
(* A refresh.  It checks the copies it found when it started, newest       *)
(* first, one await each; those already checked cost none.                 *)

candidates(a, H) == CopiesOf(a, H) \ ahead

(* The newest the address signed; with none, the newest.                   *)
Latest(list, sg) ==
    LET sound == {c \in list : sg[c] = "valid"}
    IN  IF sound # {} THEN Newest(sound) ELSE Newest(list)

(* Mutant of Continue: the newest copy alone is checked.                   *)
ContinueNewest(a, list, sg) ==
    IF sg[Newest(list)] = "unchecked"
      THEN [step |-> "signing", address |-> a, list |-> list, copy |-> Newest(list), cover |-> 0]
      ELSE [step |-> "asking", address |-> a, list |-> {}, copy |-> Latest(list, sg), cover |-> cover]

(* The loop up to its next await, the copies before it being checked, or   *)
(* past it to the question to the chain, for the amount of that moment.    *)
Continue(a, list, sg) ==
    LET unchecked == {c \in list : sg[c] = "unchecked"}
    IN  IF unchecked # {}
          THEN [step |-> "signing", address |-> a, list |-> list, copy |-> Newest(unchecked), cover |-> 0]
          ELSE [step |-> "asking", address |-> a, list |-> {}, copy |-> Latest(list, sg), cover |-> cover]

(* refresh(address) up to its first await, with H held.                    *)
Started(a, H) ==
    LET list == candidates(a, H)
    IN  IF list = {} THEN {} ELSE {Continue(a, list, signed)}

Within(R) == Cardinality(R) <= MaxInFlight

Sign(r) ==
    /\ r.step = "signing"
    /\ signed' = [signed EXCEPT ![r.copy] = IF r.copy \in Valid THEN "valid" ELSE "invalid"]
    /\ refreshing' = (refreshing \ {r}) \union {Continue(r.address, r.list, signed')}
    /\ UNCHANGED <<held, bonds, chainDown, refused, unread, cover, due, reads, world, first, answered>>

(* The chain listed coins, or the signature did not verify: a verdict.     *)
Lists(r, ok, coins) ==
    /\ refused' = refused \ {r.address} /\ chainDown' = chainDown \ {r.address}
    /\ bonds' = IF r.cover < bonds[r.address].cover THEN bonds
                ELSE [bonds EXCEPT ![r.address] =
                         [ok |-> ok, old |-> coins.old, new |-> coins.new, cover |-> r.cover]]

Refuses(a) ==
    /\ refused' = refused \union {a} /\ chainDown' = chainDown \ {a}
    /\ bonds' = [bonds EXCEPT ![a] = NoBond]

(* Mutant of Outage: it forgets a refusal.                                 *)
OutageForgets(a) ==
    /\ chainDown' = IF bonds[a] = NoBond THEN chainDown \union {a} ELSE chainDown
    /\ refused' = refused \ {a} /\ UNCHANGED bonds

Outage(a) ==
    /\ chainDown' = IF bonds[a] = NoBond THEN chainDown \union {a} ELSE chainDown
    /\ UNCHANGED <<refused, bonds>>

(* The chain is asked only when the signature verifies.                    *)
Verify(r) ==
    /\ r.step = "asking"
    /\ \/ /\ r.copy \in Valid
          /\ \E coins \in Coins : Lists(r, TRUE, coins)
          /\ answered' = answered \union {r.address}
       \/ r.copy \in Valid /\ Refuses(r.address) /\ answered' = answered \union {r.address}
       \/ r.copy \in Valid /\ Outage(r.address) /\ UNCHANGED answered
       \/ r.copy \notin Valid /\ Lists(r, FALSE, [old |-> 0, new |-> 0]) /\ UNCHANGED answered
    /\ refreshing' = refreshing \ {r}
    /\ UNCHANGED <<held, signed, unread, cover, due, reads, world, first>>

-----------------------------------------------------------------------------
(* What comes in.                                                          *)

(* A copy from the subscription, the backlog or a lookup by identity.      *)
Ingest(c) ==
    /\ c \in published \ held /\ KeysOf[c] # {}
    /\ LET a == AddressOf[c]
       IN  /\ held' = held \union {c}
           /\ IF a \in Known(held)
                THEN UNCHANGED <<unread, reads, first>>
                ELSE /\ unread' = unread \union {a}
                     /\ reads' = [reads EXCEPT ![a] = @ + 1]
                     /\ first' = [first EXCEPT ![a] = {d \in CopiesOf(a, published) : KeysOf[d] # {}}]
           /\ refreshing' = refreshing \union Started(a, held')
    /\ Within(refreshing')
    /\ UNCHANGED <<signed, bonds, chainDown, refused, cover, due, world, answered>>

(* The sets of copies held so far as those of new come in one by one.      *)
Orders(new) ==
    {O \in SUBSET (SUBSET new \ {{}}) :
        /\ Cardinality(O) = Cardinality(new)
        /\ new # {} => new \in O
        /\ \A S, T \in O : S \subseteq T \/ T \subseteq S}

(* Mutant of ReadAnswers: a read cut off counts as finished.               *)
ReadAnswersAny(a) ==
    /\ reads[a] > 0 /\ reads' = [reads EXCEPT ![a] = @ - 1]
    /\ \E got \in SUBSET {c \in CopiesOf(a, published) : KeysOf[c] # {}} :
         /\ held' = held \union got
         /\ \E O \in Orders(got \ held) :
              refreshing' = refreshing \union UNION {Started(a, held \union S) : S \in O}
    /\ unread' = unread \ {a}
    /\ Within(refreshing')
    /\ UNCHANGED <<signed, bonds, chainDown, refused, cover, due, world, first, answered>>

(* readAddress: a read that is complete missed nothing served by then.     *)
ReadAnswers(a) ==
    /\ reads[a] > 0 /\ reads' = [reads EXCEPT ![a] = @ - 1]
    /\ \E got \in SUBSET {c \in CopiesOf(a, published) : KeysOf[c] # {}} :
         /\ held' = held \union got
         /\ \E O \in Orders(got \ held) :
              refreshing' = refreshing \union UNION {Started(a, held \union S) : S \in O}
         /\ unread' \in IF first[a] \subseteq got THEN {unread, unread \ {a}} ELSE {unread}
    /\ Within(refreshing')
    /\ UNCHANGED <<signed, bonds, chainDown, refused, cover, due, world, first, answered>>

(* Mutant of refreshAll: what is read is not refreshed.                    *)
RefreshUnread ==
    /\ \A a \in unread : reads[a] < MaxReads
    /\ reads' = [a \in Address |-> IF a \in unread THEN reads[a] + 1 ELSE reads[a]]
    /\ due' = due \union unread

(* Reads what is unread again, and every address's bond in its turn.       *)
refreshAll ==
    /\ \A a \in unread : reads[a] < MaxReads
    /\ reads' = [a \in Address |-> IF a \in unread THEN reads[a] + 1 ELSE reads[a]]
    /\ due' = due \union Known(held)

Interval ==
    /\ refreshAll
    /\ UNCHANGED <<memory, refreshing, world, first, answered>>

(* What decide() changes: a larger minSats re-reads every bond.            *)
Raise(min) ==
    /\ min > cover /\ cover' = min
    /\ refreshAll
    /\ UNCHANGED <<held, signed, bonds, chainDown, refused, unread, refreshing, world, first, answered>>

SweepNext(a) ==
    /\ a \in due /\ due' = due \ {a}
    /\ refreshing' = refreshing \union Started(a, held)
    /\ Within(refreshing')
    /\ UNCHANGED <<memory, reads, world, first, answered>>

Publish(c) ==
    /\ c \notin published /\ published' = published \union {c}
    /\ UNCHANGED <<memory, refreshing, due, reads, ahead, first, answered>>

TimePasses ==
    /\ ahead # {} /\ ahead' = {}
    /\ UNCHANGED <<memory, refreshing, due, reads, published, first, answered>>

-----------------------------------------------------------------------------
Next ==
    \/ \E r \in refreshing : Sign(r)
    \/ \E r \in refreshing : Verify(r)
    \/ \E c \in Copy : Ingest(c) \/ Publish(c)
    \/ \E a \in Address : ReadAnswers(a) \/ SweepNext(a)
    \/ \E min \in Amounts : Raise(min)
    \/ Interval \/ TimePasses

(* Promises settle and the timer fires; nothing else is owed.              *)
Fairness ==
    /\ WF_vars(\E r \in refreshing : Sign(r) \/ Verify(r))
    /\ \A a \in Address : SF_vars(SweepNext(a))
    /\ WF_vars(\E a \in Address : ReadAnswers(a))
    /\ WF_vars(Interval)

Spec == Init /\ [][Next]_vars
FairSpec == Spec /\ Fairness

-----------------------------------------------------------------------------
(* decide(), for a key, an amount and whether an age is asked for.         *)

addresses(k) == {AddressOf[c] : c \in {d \in held : k \in KeysOf[d]}}

keysFor(a) == UNION {KeysOf[c] : c \in {d \in CopiesOf(a, held) : signed[d] = "valid"}}

Shared(a) == \E j, k \in keysFor(a) : j # k

(* Mutant of Lagging: an age read for any amount serves.                   *)
NeverLags(a, min, aged) == bonds[a] = NoBond

(* No bond, or an age read for a smaller amount.                           *)
Lagging(a, min, aged) == bonds[a] = NoBond \/ (aged /\ bonds[a].cover < min)

Passed(k) == {a \in addresses(k) : ~Shared(a) /\ a \notin refused}
Bonded(k, min, aged) ==
    {a \in Passed(k) \ unread : ~Lagging(a, min, aged) /\ bonds[a].ok}

Sats(a) == bonds[a].old + bonds[a].new

(* days_unspent for the cover read: the age of the coins that make it up,  *)
(* oldest first; of the oldest coin when none was asked for.               *)
OldEnough(a) ==
    IF bonds[a].cover = 0 THEN bonds[a].old > 0
    ELSE bonds[a].old >= bonds[a].cover \/ (bonds[a].new = 0 /\ bonds[a].old > 0)

(* a is the address of the bond that decides; the order held breaks ties.  *)
Accepts(k, min, aged, a) ==
    /\ a \in Bonded(k, min, aged)
    /\ \A b \in Bonded(k, min, aged) : Sats(b) <= Sats(a)
    /\ Sats(a) >= min /\ (aged => OldEnough(a))

Unverified(k, min, aged) ==
    {a \in Passed(k) : a \in unread \/ (Lagging(a, min, aged) /\ a \notin chainDown)}

FailsOpen(k, min, aged, a) ==
    /\ \A b \in Address : ~Accepts(k, min, aged, b)
    /\ Unverified(k, min, aged) = {}
    /\ a \in Passed(k) /\ Lagging(a, min, aged) /\ a \in chainDown

-----------------------------------------------------------------------------
TypeOK ==
    /\ held \subseteq Copy /\ signed \in [Copy -> {"unchecked", "valid", "invalid"}]
    /\ bonds \in [Address -> Bond \union {NoBond}]
    /\ chainDown \subseteq {a \in Address : bonds[a] = NoBond}
    /\ refused \subseteq Address /\ unread \subseteq Known(held)
    /\ cover \in Nat
    /\ refreshing \subseteq Refresh
    /\ \A r \in refreshing : {r.copy} \union r.list \subseteq CopiesOf(r.address, held)
    /\ due \subseteq Address /\ reads \in [Address -> Nat]
    /\ published \subseteq Copy /\ ahead \subseteq Ahead
    /\ first \in [Address -> SUBSET Copy] /\ answered \subseteq Address

(* An address out of unread has every copy held that the relays served     *)
(* when it was first met, though later reads of it may still run or have   *)
(* been cut off (attestation-index.ts:133-137, 410-418).                   *)
ReadMeansAllHeld == \A a \in Known(held) \ unread : first[a] \subseteq held

(* A refresh in flight will check c's signature.                           *)
OnItsWay(c) ==
    /\ signed[c] = "unchecked"
    /\ \E r \in refreshing : r.step = "signing" /\ c \in r.list

(* A key is let in by an address whose copies held, once those still being *)
(* checked are set aside, bind one key at most: concurrent refreshes with  *)
(* lists of different ages leave no copy unchecked (338-342, 218-221).     *)
SharedStakeIsCaught ==
    \A k \in Key, min \in Amounts, aged \in BOOLEAN, a \in Address :
        Accepts(k, min, aged, a) =>
            \A c, d \in (CopiesOf(a, held) \cap Valid) \ Ahead :
                \/ OnItsWay(c) \/ OnItsWay(d)
                \/ \A i \in KeysOf[c], j \in KeysOf[d] : i = j

(* Once the chain has answered about an address, listing coins or refusing *)
(* to, no later outage lets a key in by it (121-126, 366-371).             *)
AnsweredNeverFailsOpen ==
    \A k \in Key, min \in Amounts, aged \in BOOLEAN, a \in Address :
        FailsOpen(k, min, aged, a) => a \notin answered

(* A decision that asks for an age lets a key in only when coins of that   *)
(* age make up its minSats, whatever amount and order the bonds were read  *)
(* in (45-46, 233-234, 374).                                               *)
AgeIsOfTheAmount ==
    \A k \in Key, min \in Amounts, a \in Address :
        Accepts(k, min, TRUE, a) => bonds[a].old >= min

(* While an address keeps a bond, the amount its age was read for never    *)
(* drops: a refresh begun for less never undoes one for more (374-375).    *)
CoverNeverLags ==
    [][\A a \in Address : bonds[a] # NoBond /\ bonds'[a] # NoBond
                            => bonds'[a].cover >= bonds[a].cover]_vars

(* Every copy held whose date has come has its signature checked at last,  *)
(* those that were dated ahead when they came in by the interval (335-342, *)
(* 388-392).                                                               *)
HeldIsChecked ==
    \A c \in Copy : (c \in held /\ c \notin ahead) ~> signed[c] # "unchecked"

(* The comment of signed: "a copy that does not counts for nothing"        *)
(* (attestation-index.ts:116): the copies of a key an address let in are   *)
(* not all ones whose signature was checked and does not verify.           *)
UnsignedCountsForNothing ==
    \A k \in Key, min \in Amounts, aged \in BOOLEAN, a \in Address :
        Accepts(k, min, aged, a) =>
            \E c \in CopiesOf(a, held) : k \in KeysOf[c] /\ signed[c] # "invalid"

=============================================================================

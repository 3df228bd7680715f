------------------------ MODULE AttestationIndexProofs ------------------------
(***************************************************************************)
(* The invariants of AttestationIndex for any copies, addresses, keys and  *)
(* amounts.  One inductive invariant carries them all: its parts say what  *)
(* a read that finished, a copy held and an answer of the chain leave      *)
(* behind.                                                                 *)
(***************************************************************************)
EXTENDS AttestationIndex, TLAPS

(* A copy once checked has the verdict its signature gives.                *)
VerdictsAreTrue ==
    \A c \in Copy : /\ signed[c] = "valid" => c \in Valid
                    /\ signed[c] = "invalid" => c \notin Valid

(* Only addresses held are being read.                                     *)
ReadsAreOfKnown == \A a \in Address : reads[a] > 0 => a \in Known(held)

(* A copy held, not dated ahead when it came, is checked or being checked. *)
UncheckedIsOnItsWay ==
    \A c \in held \ Ahead : signed[c] = "unchecked" => OnItsWay(c)

(* What the chain answered about is bonded or refused.                     *)
AnsweredIsKept == \A a \in answered : bonds[a] # NoBond \/ a \in refused

(* A refresh that signs has copies to sign.                                *)
SigningHasAList == \A r \in refreshing : r.step = "signing" => r.list # {}

IInv ==
    /\ TypeOK
    /\ ReadMeansAllHeld /\ ReadsAreOfKnown
    /\ VerdictsAreTrue /\ UncheckedIsOnItsWay
    /\ AnsweredIsKept /\ SigningHasAList

-----------------------------------------------------------------------------
(* A nonempty set of copies has a newest one, and CHOOSE finds it.         *)
LEMMA NewestIsIn ==
    ASSUME NEW S \in SUBSET Copy, S # {}
    PROVE  Newest(S) \in S
<1>1. \E c \in S : \A d \in S : Issued[d] <= Issued[c]
  BY CopyAssumption
<1> QED BY <1>1 DEF Newest

(* The step x a refresh of a goes on to from a list of what H holds.       *)
GoesOn(x, a, H, list, sg) ==
    /\ x \in Refresh /\ x.address = a
    /\ {x.copy} \union x.list \subseteq CopiesOf(a, H)
    /\ \A c \in list : sg[c] = "unchecked" => x.step = "signing" /\ x.list = list
    /\ x.step = "signing" => x.list # {}

LEMMA ContinueGoesOn ==
    ASSUME NEW a \in Address, NEW H \in SUBSET Copy, NEW list \in SUBSET Copy,
           list \subseteq CopiesOf(a, H), list # {},
           NEW ACTION sg, sg \in [Copy -> {"unchecked", "valid", "invalid"}], cover \in Nat
    PROVE  GoesOn(Continue(a, list, sg), a, H, list, sg)
<1> DEFINE unchecked == {c \in list : sg[c] = "unchecked"}
           sound == {c \in list : sg[c] = "valid"}
<1>1. list \subseteq Copy
  BY DEF CopiesOf
<1>2. Latest(list, sg) \in list
  <2>1. sound # {} => Newest(sound) \in sound
    BY <1>1, NewestIsIn
  <2>2. Newest(list) \in list
    BY <1>1, NewestIsIn
  <2> QED BY <2>1, <2>2 DEF Latest
<1>3. unchecked # {} => Newest(unchecked) \in unchecked
  BY <1>1, NewestIsIn
<1>4. CASE unchecked # {}
  <2>1. Continue(a, list, sg) = [step |-> "signing", address |-> a, list |-> list,
                                 copy |-> Newest(unchecked), cover |-> 0]
    BY <1>4 DEF Continue
  <2> QED BY <1>1, <1>3, <1>4, <2>1 DEF Refresh, GoesOn
<1>5. CASE unchecked = {}
  <2>1. Continue(a, list, sg) = [step |-> "asking", address |-> a, list |-> {},
                                 copy |-> Latest(list, sg), cover |-> cover]
    BY <1>5 DEF Continue
  <2> QED BY <1>1, <1>2, <1>5, <2>1 DEF Refresh, GoesOn
<1> QED BY <1>4, <1>5

(* Refreshes of what H holds.                                              *)
AreOf(R, H) ==
    /\ R \subseteq Refresh
    /\ \A r \in R : /\ r.copy \in CopiesOf(r.address, H)
                    /\ r.list \subseteq CopiesOf(r.address, H)
                    /\ r.step = "signing" => r.list # {}

(* What a refresh starts with is typed and has every unchecked copy whose  *)
(* date has come on its list.                                              *)
LEMMA StartedIsRefresh ==
    ASSUME NEW a \in Address, NEW H \in SUBSET Copy, TypeOK
    PROVE  /\ AreOf(Started(a, H), H)
           /\ \A c \in CopiesOf(a, H) \ ahead : signed[c] = "unchecked" =>
                 \E r \in Started(a, H) : r.step = "signing" /\ c \in r.list
<1> DEFINE list == candidates(a, H)
<1>1. list \in SUBSET Copy /\ list \subseteq CopiesOf(a, H)
  BY DEF candidates, CopiesOf
<1>2. CASE list = {}
  BY <1>2 DEF Started, candidates, AreOf
<1>3. CASE list # {}
  <2>1. Started(a, H) = {Continue(a, list, signed)}
    BY <1>3 DEF Started
  <2> HIDE DEF list
  <2>2. \A c \in CopiesOf(a, H) \ ahead : c \in list
    BY DEF list, candidates
  <2>3. GoesOn(Continue(a, list, signed), a, H, list, signed)
    BY <1>1, <1>3, ContinueGoesOn DEF TypeOK
  <2> QED BY <1>1, <1>3, <2>1, <2>2, <2>3 DEF GoesOn, AreOf
<1> QED BY <1>2, <1>3

-----------------------------------------------------------------------------
LEMMA InitInv == Init => IInv
<1> SUFFICES ASSUME Init PROVE IInv
  OBVIOUS
<1> USE AmountAssumption, CopyAssumption DEF Init
<1>1. TypeOK
  BY DEF TypeOK, Bond, Known
<1>2. ReadMeansAllHeld /\ ReadsAreOfKnown /\ VerdictsAreTrue /\ UncheckedIsOnItsWay
  BY DEF ReadMeansAllHeld, ReadsAreOfKnown, VerdictsAreTrue, UncheckedIsOnItsWay, Known
<1>3. AnsweredIsKept /\ SigningHasAList
  BY DEF AnsweredIsKept, SigningHasAList
<1> QED BY <1>1, <1>2, <1>3 DEF IInv

(* What the refreshes in flight owe.                                       *)
InFlight == AreOf(refreshing, held) /\ UncheckedIsOnItsWay

LEMMA InvInFlight == IInv => InFlight
BY DEF IInv, TypeOK, InFlight, AreOf, SigningHasAList

(* Refreshes added to those in flight that check what came in: what was    *)
(* being checked still is.                                                 *)
LEMMA AddedRefreshes ==
    ASSUME InFlight, NEW ACTION H, held \subseteq H, held' = H,
           NEW ACTION R, AreOf(R, H), refreshing' = refreshing \union R, signed' = signed,
           \A c \in (H \ held) \ Ahead : signed[c] = "unchecked" => \E r \in R : r.step = "signing" /\ c \in r.list
    PROVE  InFlight'
<1>1. AreOf(refreshing, held) /\ UncheckedIsOnItsWay
  BY DEF InFlight
<1>2. AreOf(refreshing', held')
  BY <1>1 DEF AreOf, CopiesOf
<1>3. UncheckedIsOnItsWay'
  <2> SUFFICES ASSUME NEW c \in H \ Ahead, signed[c] = "unchecked"
               PROVE  \E r \in refreshing' : r.step = "signing" /\ c \in r.list
    BY DEF UncheckedIsOnItsWay, OnItsWay
  <2>1. CASE c \in held
    BY <1>1, <2>1 DEF UncheckedIsOnItsWay, OnItsWay
  <2>2. CASE c \notin held
    BY <2>2
  <2> QED BY <2>1, <2>2
<1> QED BY <1>2, <1>3 DEF InFlight

LEMMA SignKeeps == ASSUME IInv, NEW r \in refreshing, Sign(r) PROVE IInv'
<1> USE DEF Sign, world
<1>1. /\ TypeOK /\ r \in Refresh /\ r.list \subseteq CopiesOf(r.address, held) /\ r.list # {}
      /\ r.copy \in Copy /\ r.list \in SUBSET Copy
  BY DEF IInv, TypeOK, SigningHasAList, Refresh, CopiesOf
<1> DEFINE next == Continue(r.address, r.list, signed')
<1>2. /\ r.address \in Address /\ held \in SUBSET Copy /\ cover \in Nat
      /\ signed' \in [Copy -> {"unchecked", "valid", "invalid"}]
  BY <1>1 DEF TypeOK, Refresh
<1>3. GoesOn(next, r.address, held, r.list, signed')
  BY <1>1, <1>2, ContinueGoesOn
<1> HIDE DEF next
<1>4. refreshing' = (refreshing \ {r}) \union {next}
  BY DEF next
<1>5. TypeOK'
  <2>1. signed' \in [Copy -> {"unchecked", "valid", "invalid"}]
    BY <1>1 DEF TypeOK
  <2>2. refreshing' \subseteq Refresh /\ \A q \in refreshing' : {q.copy} \union q.list \subseteq CopiesOf(q.address, held)
    BY <1>1, <1>3, <1>4 DEF TypeOK, GoesOn
  <2> QED BY <1>1, <2>1, <2>2 DEF TypeOK, Known, CopiesOf
<1>6. VerdictsAreTrue'
  BY <1>1 DEF IInv, VerdictsAreTrue, TypeOK
<1>7. UncheckedIsOnItsWay'
  <2> SUFFICES ASSUME NEW c \in held \ Ahead, signed'[c] = "unchecked"
               PROVE  \E q \in refreshing' : q.step = "signing" /\ c \in q.list
    BY DEF UncheckedIsOnItsWay, OnItsWay
  <2>1. signed[c] = "unchecked"
    BY <1>1 DEF TypeOK
  <2>2. PICK q \in refreshing : q.step = "signing" /\ c \in q.list
    BY <2>1 DEF IInv, UncheckedIsOnItsWay, OnItsWay
  <2> QED BY <1>3, <1>4, <2>2, <2>1 DEF GoesOn
<1>8. ReadMeansAllHeld' /\ ReadsAreOfKnown' /\ AnsweredIsKept' /\ SigningHasAList'
  BY <1>3, <1>4 DEF GoesOn, IInv, ReadMeansAllHeld, ReadsAreOfKnown, AnsweredIsKept, SigningHasAList, Known
<1> QED BY <1>5, <1>6, <1>7, <1>8 DEF IInv

LEMMA VerifyKeeps == ASSUME IInv, NEW r \in refreshing, Verify(r) PROVE IInv'
<1> USE DEF Verify, world
<1>1. TypeOK /\ r \in Refresh /\ r.address \in Address /\ r.cover \in Nat /\ r.step # "signing"
  BY DEF IInv, TypeOK, Refresh
<1> DEFINE a == r.address
<1>2. /\ bonds' \in [Address -> Bond \union {NoBond}]
      /\ chainDown' \subseteq {b \in Address : bonds'[b] = NoBond} /\ refused' \subseteq Address
      /\ answered' \subseteq Address /\ AnsweredIsKept'
  <2> DEFINE new(ok, coins) == [ok |-> ok, old |-> coins.old, new |-> coins.new, cover |-> r.cover]
  <2>1. ASSUME NEW ok \in BOOLEAN, NEW coins \in [old : Nat, new : Nat], Lists(r, ok, coins),
               answered' \subseteq answered \union {a}
        PROVE  /\ bonds' \in [Address -> Bond \union {NoBond}]
               /\ chainDown' \subseteq {b \in Address : bonds'[b] = NoBond} /\ refused' \subseteq Address
               /\ answered' \subseteq Address /\ AnsweredIsKept'
    <3>1. new(ok, coins) \in Bond /\ new(ok, coins) # NoBond
      BY <1>1 DEF Bond, NoBond
    <3>2. bonds'[a] # NoBond /\ \A b \in Address \ {a} : bonds'[b] = bonds[b]
      BY <1>1, <2>1, <3>1 DEF Lists, TypeOK, Bond, NoBond
    <3>3. bonds' \in [Address -> Bond \union {NoBond}]
      BY <1>1, <2>1, <3>1 DEF Lists, TypeOK
    <3>4. chainDown' = chainDown \ {a} /\ refused' = refused \ {a}
      BY <2>1 DEF Lists
    <3>5. AnsweredIsKept'
      BY <1>1, <2>1, <3>2, <3>4 DEF IInv, AnsweredIsKept, TypeOK
    <3> QED BY <1>1, <2>1, <3>2, <3>3, <3>4, <3>5 DEF TypeOK
  <2>2. CASE r.copy \in Valid /\ Refuses(a) /\ answered' = answered \union {a}
    BY <1>1, <2>2 DEF Refuses, TypeOK, IInv, AnsweredIsKept
  <2>3. CASE r.copy \in Valid /\ Outage(a) /\ UNCHANGED answered
    BY <1>1, <2>3 DEF Outage, TypeOK, IInv, AnsweredIsKept
  <2>4. CASE /\ r.copy \in Valid /\ \E coins \in Coins : Lists(r, TRUE, coins)
             /\ answered' = answered \union {a}
    BY <2>1, <2>4, AmountAssumption
  <2>5. CASE r.copy \notin Valid /\ Lists(r, FALSE, [old |-> 0, new |-> 0]) /\ UNCHANGED answered
    BY <2>1, <2>5
  <2> QED BY <2>2, <2>3, <2>4, <2>5
<1>3. TypeOK'
  BY <1>1, <1>2 DEF TypeOK, Known, CopiesOf
<1>4. UncheckedIsOnItsWay'
  BY <1>1 DEF IInv, UncheckedIsOnItsWay, OnItsWay
<1>5. ReadMeansAllHeld' /\ ReadsAreOfKnown' /\ VerdictsAreTrue' /\ SigningHasAList'
  BY DEF IInv, ReadMeansAllHeld, ReadsAreOfKnown, VerdictsAreTrue, SigningHasAList, Known
<1> QED BY <1>2, <1>3, <1>4, <1>5 DEF IInv

(* What comes in starts a refresh of it, and reads an address first met.   *)
LEMMA IngestKeeps == ASSUME IInv, NEW c \in Copy, Ingest(c) PROVE IInv'
<1> USE DEF Ingest, world
<1> DEFINE a == AddressOf[c]
           H == held \union {c}
<1>1. TypeOK /\ a \in Address /\ H \in SUBSET Copy /\ cover \in Nat /\ ahead \subseteq Ahead
  BY CopyAssumption DEF IInv, TypeOK
<1>2. /\ AreOf(Started(a, H), H)
      /\ \A d \in CopiesOf(a, H) \ ahead : signed[d] = "unchecked" =>
            \E r \in Started(a, H) : r.step = "signing" /\ d \in r.list
  BY <1>1, StartedIsRefresh
<1>3. refreshing' = refreshing \union Started(a, H) /\ held' = H
  OBVIOUS
<1>4. InFlight'
  <2>1. \A d \in (H \ held) \ Ahead : d \in CopiesOf(a, H) \ ahead
    BY <1>1 DEF CopiesOf
  <2>2. held \subseteq H /\ signed' = signed
    OBVIOUS
  <2> HIDE DEF H, a
  <2> QED BY <1>2, <1>3, <2>1, <2>2, InvInFlight, AddedRefreshes
<1>5. unread' \subseteq Known(held)' /\ reads' \in [Address -> Nat] /\ first' \in [Address -> SUBSET Copy]
  BY <1>1 DEF TypeOK, Known, CopiesOf
<1>6. TypeOK'
  BY <1>1, <1>4, <1>5 DEF TypeOK, InFlight, AreOf
<1>7. ReadMeansAllHeld' /\ ReadsAreOfKnown'
  <2>0. Known(held') = Known(held) \union {a} /\ held \subseteq held'
    BY DEF Known
  <2>1. CASE a \in Known(held)
    BY <1>1, <2>0, <2>1 DEF IInv, ReadMeansAllHeld, ReadsAreOfKnown, TypeOK
  <2>2. CASE a \notin Known(held)
    <3>1. /\ unread' = unread \union {a} /\ reads' = [reads EXCEPT ![a] = @ + 1]
          /\ \A b \in Address \ {a} : first'[b] = first[b]
      BY <1>1, <2>2 DEF TypeOK
    <3>2. Known(held) \subseteq Address
      BY <1>1, CopyAssumption DEF Known, TypeOK
    <3> QED BY <1>1, <2>0, <3>1, <3>2 DEF IInv, ReadMeansAllHeld, ReadsAreOfKnown, TypeOK
  <2> QED BY <2>1, <2>2
<1>8. VerdictsAreTrue' /\ AnsweredIsKept'
  BY DEF IInv, VerdictsAreTrue, AnsweredIsKept
<1> QED BY <1>4, <1>6, <1>7, <1>8 DEF IInv, InFlight, AreOf, SigningHasAList

(* A read that ends brings in what it got, and frees the address only when *)
(* it missed nothing.                                                      *)
LEMMA ReadKeeps == ASSUME IInv, NEW a \in Address, ReadAnswers(a) PROVE IInv'
<1> USE DEF ReadAnswers, world
<1>1. TypeOK /\ cover \in Nat /\ ahead \subseteq Ahead /\ held \subseteq Copy /\ published \subseteq Copy
  BY DEF IInv, TypeOK
<1>2. PICK got \in SUBSET {c \in CopiesOf(a, published) : KeysOf[c] # {}} :
         /\ held' = held \union got
         /\ \E O \in Orders(got \ held) :
              refreshing' = refreshing \union UNION {Started(a, held \union S) : S \in O}
         /\ unread' \in IF first[a] \subseteq got THEN {unread, unread \ {a}} ELSE {unread}
  OBVIOUS
<1>3. PICK O \in Orders(got \ held) :
         refreshing' = refreshing \union UNION {Started(a, held \union S) : S \in O}
  BY <1>2
<1> DEFINE H == held \union got
           R == UNION {Started(a, held \union S) : S \in O}
<1>4. got \subseteq CopiesOf(a, H) /\ got \in SUBSET Copy /\ H \in SUBSET Copy
  BY <1>1, <1>2 DEF CopiesOf
<1>5. \A S \in O : held \union S \in SUBSET Copy /\ S \subseteq got
  BY <1>1, <1>4 DEF Orders
<1>6. AreOf(R, H)
  <2>1. ASSUME NEW S \in O, NEW r \in Started(a, held \union S)
        PROVE  /\ r \in Refresh /\ r.copy \in CopiesOf(r.address, H)
               /\ r.list \subseteq CopiesOf(r.address, H)
               /\ r.step = "signing" => r.list # {}
    <3>1. AreOf(Started(a, held \union S), held \union S)
      BY <1>1, <1>5, StartedIsRefresh
    <3>2. CopiesOf(r.address, held \union S) \subseteq CopiesOf(r.address, H)
      BY <1>5 DEF CopiesOf
    <3> QED BY <2>1, <3>1, <3>2 DEF AreOf
  <2> QED BY <2>1 DEF AreOf
<1>7. \A c \in (H \ held) \ Ahead : signed[c] = "unchecked" => \E r \in R : r.step = "signing" /\ c \in r.list
  <2> SUFFICES ASSUME NEW c \in (H \ held) \ Ahead, signed[c] = "unchecked"
               PROVE  \E r \in R : r.step = "signing" /\ c \in r.list
    OBVIOUS
  <2>1. got \ held \in O /\ held \union (got \ held) = H
    BY <1>3 DEF Orders
  <2>2. c \in CopiesOf(a, H) \ ahead
    BY <1>1, <1>4
  <2>3. \E r \in Started(a, H) : r.step = "signing" /\ c \in r.list
    BY <1>1, <1>4, <2>2, StartedIsRefresh
  <2> QED BY <2>1, <2>3
<1>8. held' = H /\ refreshing' = refreshing \union R
  BY <1>2, <1>3
<1>9. InFlight'
  <2>1. held \subseteq H /\ signed' = signed
    OBVIOUS
  <2> HIDE DEF R, H
  <2> QED BY <1>6, <1>7, <1>8, <2>1, InvInFlight, AddedRefreshes
<1>10. ReadMeansAllHeld' /\ ReadsAreOfKnown' /\ unread' \subseteq Known(held)'
  <2>1. Known(held') = Known(held) /\ a \in Known(held)
    BY <1>1, <1>4, <1>8 DEF IInv, ReadsAreOfKnown, Known, CopiesOf
  <2> HIDE DEF H, R
  <2>2. reads' = [reads EXCEPT ![a] = @ - 1] /\ first' = first /\ reads[a] > 0
    OBVIOUS
  <2>3. ReadsAreOfKnown'
    BY <1>1, <2>1, <2>2 DEF IInv, ReadsAreOfKnown, TypeOK
  <2>4. ReadMeansAllHeld' /\ unread' \subseteq Known(held)'
    BY <1>1, <1>2, <2>1, <2>2 DEF IInv, ReadMeansAllHeld, TypeOK
  <2> QED BY <2>3, <2>4
<1>11. reads' \in [Address -> Nat]
  BY <1>1 DEF TypeOK
<1>12. TypeOK'
  BY <1>1, <1>4, <1>8, <1>9, <1>10, <1>11 DEF TypeOK, InFlight, AreOf
<1>13. VerdictsAreTrue' /\ AnsweredIsKept'
  BY DEF IInv, VerdictsAreTrue, AnsweredIsKept
<1> QED BY <1>9, <1>10, <1>12, <1>13 DEF IInv, InFlight, AreOf, SigningHasAList

LEMMA SweepKeeps == ASSUME IInv, NEW a \in Address, SweepNext(a) PROVE IInv'
<1> USE DEF SweepNext, world, memory
<1>1. TypeOK /\ cover \in Nat /\ held \in SUBSET Copy
  BY DEF IInv, TypeOK
<1>2. InFlight'
  <2>1. AreOf(Started(a, held), held)
    BY <1>1, StartedIsRefresh
  <2> QED BY <2>1, InvInFlight, AddedRefreshes
<1>3. TypeOK'
  BY <1>1, <1>2 DEF TypeOK, InFlight, AreOf
<1> QED BY <1>2, <1>3 DEF IInv, InFlight, AreOf, SigningHasAList, ReadMeansAllHeld, ReadsAreOfKnown, VerdictsAreTrue, AnsweredIsKept, Known

LEMMA RefreshAllKeeps ==
    ASSUME IInv, refreshAll, cover' \in Nat,
           UNCHANGED <<held, signed, bonds, chainDown, refused, unread, refreshing, world, first, answered>>
    PROVE  IInv'
<1> USE DEF refreshAll, world
<1>1. reads' \in [Address -> Nat] /\ due' \subseteq Address
  BY CopyAssumption DEF IInv, TypeOK, Known
<1>2. TypeOK'
  BY <1>1 DEF IInv, TypeOK
<1>3. ReadsAreOfKnown'
  BY DEF IInv, TypeOK, ReadsAreOfKnown
<1> QED BY <1>2, <1>3 DEF IInv, ReadMeansAllHeld, VerdictsAreTrue, UncheckedIsOnItsWay, OnItsWay,
          AnsweredIsKept, SigningHasAList, Known

LEMMA StepKeeps == ASSUME IInv, [Next]_vars PROVE IInv'
<1>1. ASSUME NEW r \in refreshing, Sign(r) PROVE IInv'
  BY <1>1, SignKeeps
<1>2. ASSUME NEW r \in refreshing, Verify(r) PROVE IInv'
  BY <1>2, VerifyKeeps
<1>3. ASSUME NEW c \in Copy, Ingest(c) PROVE IInv'
  BY <1>3, IngestKeeps
<1>4. ASSUME NEW c \in Copy, Publish(c) PROVE IInv'
  BY <1>4 DEF Publish, memory, IInv, TypeOK, ReadMeansAllHeld, ReadsAreOfKnown, VerdictsAreTrue,
              UncheckedIsOnItsWay, OnItsWay, AnsweredIsKept, SigningHasAList
<1>5. ASSUME NEW a \in Address, ReadAnswers(a) PROVE IInv'
  BY <1>5, ReadKeeps
<1>6. ASSUME NEW a \in Address, SweepNext(a) PROVE IInv'
  BY <1>6, SweepKeeps
<1>7. ASSUME NEW min \in Amounts, Raise(min) PROVE IInv'
  BY <1>7, AmountAssumption, RefreshAllKeeps DEF Raise
<1>8. CASE Interval
  BY <1>8, RefreshAllKeeps DEF Interval, memory, IInv, TypeOK
<1>9. CASE TimePasses
  BY <1>9 DEF TimePasses, memory, IInv, TypeOK, ReadMeansAllHeld, ReadsAreOfKnown, VerdictsAreTrue,
              UncheckedIsOnItsWay, OnItsWay, AnsweredIsKept, SigningHasAList
<1>10. CASE UNCHANGED vars
  BY <1>10 DEF vars, memory, world, IInv, TypeOK, ReadMeansAllHeld, ReadsAreOfKnown, VerdictsAreTrue,
              UncheckedIsOnItsWay, OnItsWay, AnsweredIsKept, SigningHasAList
<1> QED BY <1>1, <1>2, <1>3, <1>4, <1>5, <1>6, <1>7, <1>8, <1>9, <1>10 DEF Next

(* The inductive invariant of the index holds throughout, for any copies,  *)
(* addresses, keys and amounts and any two refreshes that overlap.         *)
THEOREM Inductive == Spec => []IInv
<1>1. Init => IInv
  BY InitInv
<1>2. IInv /\ [Next]_vars => IInv'
  BY StepKeeps
<1> QED BY <1>1, <1>2, PTL DEF Spec

-----------------------------------------------------------------------------
(* Every variable keeps its type, and no outage is noted beside a bond.    *)
THEOREM TypeCorrect == Spec => []TypeOK
<1>1. IInv => TypeOK
  BY DEF IInv
<1> QED BY <1>1, Inductive, PTL

(* An address taken as read has all held that was served when it was met.  *)
THEOREM ReadIsWhole == Spec => []ReadMeansAllHeld
<1>1. IInv => ReadMeansAllHeld
  BY DEF IInv
<1> QED BY <1>1, Inductive, PTL

(* No key is let in by an address two checked copies bind to two keys.     *)
THEOREM SharedIsCaught == Spec => []SharedStakeIsCaught
<1>1. IInv => SharedStakeIsCaught
  <2> SUFFICES ASSUME IInv, NEW k \in Key, NEW min \in Amounts, NEW aged \in BOOLEAN,
                      NEW a \in Address, Accepts(k, min, aged, a),
                      NEW c \in (CopiesOf(a, held) \cap Valid) \ Ahead,
                      NEW d \in (CopiesOf(a, held) \cap Valid) \ Ahead,
                      ~OnItsWay(c), ~OnItsWay(d), NEW i \in KeysOf[c], NEW j \in KeysOf[d]
               PROVE  i = j
    BY DEF SharedStakeIsCaught
  <2>1. signed[c] = "valid" /\ signed[d] = "valid"
    BY DEF IInv, TypeOK, VerdictsAreTrue, UncheckedIsOnItsWay, CopiesOf
  <2>2. i \in keysFor(a) /\ j \in keysFor(a)
    BY <2>1 DEF keysFor
  <2>3. ~Shared(a)
    BY DEF Accepts, Bonded, Passed
  <2> QED BY <2>2, <2>3 DEF Shared
<1> QED BY <1>1, Inductive, PTL

(* No outage undoes an answer of the chain.                                *)
THEOREM NeverOpenOnceAnswered == Spec => []AnsweredNeverFailsOpen
<1>1. IInv => AnsweredNeverFailsOpen
  BY DEF IInv, TypeOK, AnsweredIsKept, AnsweredNeverFailsOpen, FailsOpen, Passed
<1> QED BY <1>1, Inductive, PTL

(* The age decided on is that of the amount asked for.                     *)
THEOREM AgeCoversAmount == Spec => []AgeIsOfTheAmount
<1>1. IInv => AgeIsOfTheAmount
  <2> SUFFICES ASSUME IInv, NEW k \in Key, NEW min \in Amounts, NEW a \in Address,
                      Accepts(k, min, TRUE, a)
               PROVE  bonds[a].old >= min
    BY DEF AgeIsOfTheAmount
  <2>1. bonds[a] # NoBond /\ ~(bonds[a].cover < min) /\ OldEnough(a) /\ Sats(a) >= min
    BY DEF Accepts, Bonded, Lagging
  <2>2. bonds[a] \in Bond /\ min \in Nat
    BY <2>1, AmountAssumption DEF IInv, TypeOK
  <2>3. /\ bonds[a].old \in Nat /\ bonds[a].new \in Nat /\ bonds[a].cover \in Nat
    BY <2>2 DEF Bond
  <2> QED BY <2>1, <2>2, <2>3 DEF OldEnough, Sats
<1> QED BY <1>1, Inductive, PTL

(* The amount a kept bond was read for never drops.                        *)
THEOREM CoverKeepsUp == Spec => CoverNeverLags
<1>1. IInv /\ [Next]_vars => [\A a \in Address : bonds[a] # NoBond /\ bonds'[a] # NoBond
                                  => bonds'[a].cover >= bonds[a].cover]_vars
  <2> SUFFICES ASSUME IInv, Next, NEW a \in Address, bonds[a] # NoBond, bonds'[a] # NoBond
               PROVE  bonds'[a].cover >= bonds[a].cover
    OBVIOUS
  <2>1. bonds[a].cover \in Nat /\ bonds \in [Address -> Bond \union {NoBond}] /\ refreshing \subseteq Refresh
    BY DEF IInv, TypeOK, Bond
  <2>2. CASE UNCHANGED bonds
    BY <2>1, <2>2
  <2>3. ASSUME NEW r \in refreshing, Verify(r) PROVE bonds'[a].cover >= bonds[a].cover
    <3>1. r.cover \in Nat /\ r.address \in Address
      BY <2>1 DEF Refresh
    <3>2. ASSUME NEW ok, NEW coins, Lists(r, ok, coins) PROVE bonds'[a].cover >= bonds[a].cover
      <4>1. CASE r.cover < bonds[r.address].cover
        BY <2>1, <3>2, <4>1 DEF Lists
      <4>2. CASE ~(r.cover < bonds[r.address].cover) /\ a = r.address
        <5>1. bonds'[a].cover = r.cover
          BY <2>1, <3>2, <4>2 DEF Lists
        <5> QED BY <2>1, <3>1, <4>2, <5>1
      <4>3. CASE ~(r.cover < bonds[r.address].cover) /\ a # r.address
        BY <2>1, <3>2, <4>3 DEF Lists
      <4> QED BY <4>1, <4>2, <4>3
    <3>3. CASE Refuses(r.address)
      BY <2>1, <3>1, <3>3 DEF Refuses
    <3>4. CASE Outage(r.address)
      BY <2>1, <3>4 DEF Outage
    <3> QED BY <2>3, <3>2, <3>3, <3>4 DEF Verify
  <2> QED BY <2>2, <2>3 DEF Next, Sign, Ingest, Publish, ReadAnswers, SweepNext, Raise, Interval,
            TimePasses, memory
<1> QED BY <1>1, Inductive, PTL DEF Spec, CoverNeverLags

=============================================================================

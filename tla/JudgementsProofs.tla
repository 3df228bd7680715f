---------------------------- MODULE JudgementsProofs ----------------------------
(***************************************************************************)
(* What MCJudgements makes of a channel, a pledge, a poll or an action,    *)
(* for any versions, outcomes, chains and clocks: the inductive invariants *)
(* of PledgeState, VoteTally, DelegatedActions and ChannelGovernance, one  *)
(* after the other, and at the end the properties of the behaviours that   *)
(* are about any one of them.                                              *)
(***************************************************************************)
EXTENDS MCJudgements, FiniteSetTheorems, SequenceTheorems, TLAPS

(* A set of naturals has a least one.                                      *)
LEMMA LeastNat ==
  ASSUME NEW S, S \subseteq Nat, S # {}
  PROVE  \E x \in S : \A y \in S : x <= y
  <1> DEFINE R == {p \in Nat \X Nat : p[1] < p[2]}
  <1>1. IsWellFoundedOn(R, Nat)
    BY NatLessThanWellFounded DEF OpToRel
  <1> HIDE DEF R
  <1>2. PICK x \in S : \A y \in S : ~(<<y, x>> \in R)
    BY <1>1, WFMin
  <1>3. ASSUME NEW y \in S PROVE x <= y
    <2>1. <<y, x>> \in Nat \X Nat /\ <<y, x>> \notin R
      BY <1>2
    <2>2. ~(y < x)
      BY <2>1 DEF R
    <2> QED
      BY <2>2
  <1> QED
    BY <1>3

-----------------------------------------------------------------------------
(* PledgeState.                                                            *)

(* The first of the outcomes at S: Earliest, whatever it is that settles.  *)
PledgeBefore(s, i, j) == s[i].at < s[j].at \/ (s[i].at = s[j].at /\ i <= j)

PledgeFirst(S, s) == CHOOSE i \in S : \A j \in S : PledgeBefore(s, i, j)

LEMMA PledgeFirstIs ==
  ASSUME NEW ACTION S, NEW ACTION s, S \subseteq Nat, S # {}, \A i \in S : s[i].at \in Nat
  PROVE  PledgeFirst(S, s) \in S /\ \A j \in S : PledgeBefore(s, PledgeFirst(S, s), j)
  <1> DEFINE T == {s[i].at : i \in S}
  <1>1. PICK t \in T : \A u \in T : t <= u
    BY LeastNat
  <1> DEFINE U == {i \in S : s[i].at = t}
  <1>2. U \subseteq Nat /\ U # {}
    BY <1>1
  <1>3. PICK i \in U : \A j \in U : i <= j
    BY <1>2, LeastNat
  <1>4. i \in S /\ \A j \in S : PledgeBefore(s, i, j)
    BY <1>1, <1>3 DEF PledgeBefore
  <1> HIDE DEF T, U
  <1> QED
    BY <1>4 DEF PledgeFirst

(* There is no other.                                                      *)
LEMMA PledgeFirstUnique ==
  ASSUME NEW ACTION S, NEW ACTION s, S \subseteq Nat, \A i \in S : s[i].at \in Nat,
         NEW ACTION e, e \in S, \A j \in S : PledgeBefore(s, e, j)
  PROVE  PledgeFirst(S, s) = e
  <1>1. PledgeFirst(S, s) \in S /\ PledgeBefore(s, PledgeFirst(S, s), e) /\ PledgeBefore(s, e, PledgeFirst(S, s))
    BY PledgeFirstIs
  <1> DEFINE f == PledgeFirst(S, s)
  <1>2. f \in Nat /\ e \in Nat /\ s[f].at \in Nat /\ s[e].at \in Nat
    BY <1>1
  <1> HIDE DEF f
  <1>3. PledgeBefore(s, f, e) /\ PledgeBefore(s, e, f)
    BY <1>1 DEF f
  <1>4. f = e
    BY <1>2, <1>3 DEF PledgeBefore
  <1> QED
    BY <1>4 DEF f

-----------------------------------------------------------------------------
(* The outcome at e is contested.                                          *)
PledgeContested(s, e) == \E j \in DOMAIN s : Pledge!InForce(s[j]) /\ Pledge!Disputes(s[j], s[e])

(* What classifyState says, in these terms.                                *)
PledgeClassified(s) ==
    IF abandoned THEN "broken"
    ELSE IF Pledge!Settling(s) = {} THEN Pledge!ByTime
    ELSE IF PledgeContested(s, PledgeFirst(Pledge!Settling(s), s)) THEN Pledge!Disputed
    ELSE s[PledgeFirst(Pledge!Settling(s), s)].says

LEMMA PledgeClassifyIs == \A s : Pledge!classifyState(s) = PledgeClassified(s)
  BY DEF Pledge!classifyState, PledgeClassified, PledgeContested, Pledge!Earliest, PledgeFirst, PledgeBefore

(* The outcomes are outcomes.                                              *)
PledgeIInv == /\ mechanism \in {"counterparty_signs", "deterministic"}
              /\ now \in Nat /\ heard \in Seq(Pledge!Outcome)

LEMMA PledgeStepIInv == ASSUME PledgeIInv, [Pledge!Next]_(Pledge!vars) PROVE PledgeIInv'
  <1>1. ASSUME NEW o \in Pledge!Outcome, Pledge!Hear(o) PROVE PledgeIInv'
    BY <1>1 DEF Pledge!Hear, PledgeIInv, Pledge!pledge
  <1>2. CASE Pledge!Abandon \/ Pledge!Mine \/ Pledge!Tick
    BY <1>2 DEF Pledge!Abandon, Pledge!Mine, Pledge!Tick, PledgeIInv, Pledge!pledge
  <1>3. CASE UNCHANGED Pledge!vars
    BY <1>3 DEF Pledge!vars, PledgeIInv, Pledge!pledge
  <1> QED
    BY <1>1, <1>2, <1>3 DEF Pledge!Next

(* The variables keep their types: what classifyState's cases rest on.     *)
THEOREM PledgeInvariance == Pledge!Spec => []PledgeIInv
  <1>1. Pledge!Init => PledgeIInv
    BY EmptySeq DEF Pledge!Init, PledgeIInv
  <1>2. PledgeIInv /\ [Pledge!Next]_(Pledge!vars) => PledgeIInv'
    BY PledgeStepIInv
  <1> QED
    BY <1>1, <1>2, PTL DEF Pledge!Spec

(* What is known of each outcome heard.                                    *)
LEMMA PledgeHeardIs ==
  ASSUME PledgeTimes, PledgeIInv
  PROVE  /\ DOMAIN heard = 1 .. Len(heard) /\ Len(heard) \in Nat
         /\ \A i \in DOMAIN heard :
              /\ heard[i] \in Pledge!Outcome /\ heard[i].by \in Pledge!Signer
              /\ heard[i].says \in {"kept", "broken"}
              /\ heard[i].at \in Nat /\ heard[i].window \in Int
  <1>1. DOMAIN heard = 1 .. Len(heard) /\ Len(heard) \in Nat
    BY LenProperties DEF PledgeIInv
  <1>2. ASSUME NEW o \in Pledge!Outcome
        PROVE  /\ o.by \in Pledge!Signer /\ o.says \in {"kept", "broken"}
               /\ o.at \in Nat /\ o.window \in Int
    <2>1. o.by \in Pledge!Signer /\ o.says \in {"kept", "broken"} /\ o.at \in 0 .. LastTime
          /\ o.window \in Windows
      BY DEF Pledge!Outcome
    <2>2. o.at \in Nat
      BY <2>1 DEF PledgeTimes
    <2>3. o.window \in Int
      BY <2>1 DEF PledgeTimes
    <2> QED
      BY <2>1, <2>2, <2>3
  <1>3. \A i \in 1 .. Len(heard) : heard[i] \in Pledge!Outcome
    BY DEF PledgeIInv
  <1> QED
    BY <1>1, <1>2, <1>3

LEMMA PledgeSettlingIs ==
  ASSUME PledgeTimes, PledgeIInv
  PROVE  /\ Pledge!Settling(heard) \subseteq Nat
         /\ \A i \in Pledge!Settling(heard) : i \in DOMAIN heard /\ heard[i].at \in Nat
  BY PledgeHeardIs DEF Pledge!Settling

-----------------------------------------------------------------------------
(* At expires_at a pledge is decided, and one that nothing can settle a    *)
(* dispute of is not disputed (state.ts:94-101, 118-120).                  *)
THEOREM PledgeDecided == ASSUME PledgeTimes PROVE Pledge!Spec => []Pledge!ExpiryDecides
  <1>1. ASSUME PledgeTimes, PledgeIInv PROVE Pledge!ExpiryDecides
    <2>1. Pledge!Settling(heard) # {} => heard[PledgeFirst(Pledge!Settling(heard), heard)].says \in {"kept", "broken"}
      BY <1>1, PledgeSettlingIs, PledgeFirstIs, PledgeHeardIs
    <2>2. Pledge!status = PledgeClassified(heard)
      BY PledgeClassifyIs DEF Pledge!status
    <2> QED
      BY <2>1, <2>2 DEF Pledge!ExpiryDecides, PledgeClassified, Pledge!ByTime, Pledge!Disputed
  <1> QED
    BY <1>1, PledgeInvariance, PTL

-----------------------------------------------------------------------------
(* The order outcomes are passed in tells apart only settling outcomes     *)
(* dated at one second (state.ts:59-60; README.md:164), for any number of  *)
(* outcomes in any order.                                                  *)
THEOREM PledgeOrderBreaksTies == ASSUME PledgeTimes PROVE Pledge!Spec => []Pledge!OrderOnlyBreaksTies
  <1>1. ASSUME PledgeTimes, PledgeIInv,
               \A i, j \in Pledge!Settling(heard) : heard[i].at = heard[j].at => heard[i] = heard[j],
               NEW p \in Pledge!Bijection(DOMAIN heard, DOMAIN heard)
        PROVE  LET s == [i \in DOMAIN heard |-> heard[p[i]]] IN Pledge!classifyState(s) = Pledge!status
    <2> DEFINE D == DOMAIN heard
               s == [i \in D |-> heard[p[i]]]
    <2>1. p \in [D -> D] /\ \A j \in D : \E i \in D : p[i] = j
      BY DEF Pledge!Bijection, Pledge!Injection, Pledge!Surjection
    <2>2. DOMAIN s = D /\ \A i \in D : s[i] = heard[p[i]] /\ p[i] \in D
      BY <2>1
    <2> HIDE DEF s
    <2>3. Pledge!Settling(s) = {i \in D : p[i] \in Pledge!Settling(heard)}
      BY <2>2 DEF Pledge!Settling
    <2>4. Pledge!Settling(s) = {} <=> Pledge!Settling(heard) = {}
      BY <2>1, <2>3 DEF Pledge!Settling
    <2>5. ASSUME Pledge!Settling(heard) # {}
          PROVE  s[PledgeFirst(Pledge!Settling(s), s)] = heard[PledgeFirst(Pledge!Settling(heard), heard)]
      <3> DEFINE e == PledgeFirst(Pledge!Settling(heard), heard)
                 f == PledgeFirst(Pledge!Settling(s), s)
      <3>1. e \in Pledge!Settling(heard) /\ \A j \in Pledge!Settling(heard) : PledgeBefore(heard, e, j)
        BY <1>1, <2>5, PledgeSettlingIs, PledgeFirstIs
      <3>2. Pledge!Settling(s) \subseteq Nat /\ \A i \in Pledge!Settling(s) : s[i].at \in Nat
        BY <1>1, <2>2, <2>3, PledgeHeardIs
      <3>3. f \in Pledge!Settling(s) /\ \A j \in Pledge!Settling(s) : PledgeBefore(s, f, j)
        BY <2>4, <2>5, <3>2, PledgeFirstIs
      <3> HIDE DEF e, f
      <3>4. p[f] \in Pledge!Settling(heard) /\ s[f] = heard[p[f]]
        BY <2>2, <2>3, <3>3
      <3>5. PICK g \in D : p[g] = e
        BY <2>1, <3>1 DEF Pledge!Settling
      <3>6. g \in Pledge!Settling(s) /\ s[g] = heard[e]
        BY <2>2, <2>3, <3>1, <3>5
      <3>7. heard[e].at \in Nat /\ heard[p[f]].at \in Nat
        BY <1>1, <3>1, <3>4, PledgeSettlingIs
      <3>8. PledgeBefore(heard, e, p[f]) /\ PledgeBefore(s, f, g)
        BY <3>1, <3>3, <3>4, <3>6
      <3>9. heard[e].at = heard[p[f]].at
        BY <3>4, <3>6, <3>7, <3>8 DEF PledgeBefore
      <3>10. heard[e] = s[f]
        BY <1>1, <3>1, <3>4, <3>9
      <3> QED
        BY <3>10 DEF e, f
    <2>6. ASSUME NEW o PROVE (\E j \in D : Pledge!InForce(s[j]) /\ Pledge!Disputes(s[j], o))
                               <=> \E j \in D : Pledge!InForce(heard[j]) /\ Pledge!Disputes(heard[j], o)
      BY <2>1, <2>2
    <2>7. Pledge!Settling(heard) # {} => (PledgeContested(s, PledgeFirst(Pledge!Settling(s), s))
                                     <=> PledgeContested(heard, PledgeFirst(Pledge!Settling(heard), heard)))
      BY <2>2, <2>5, <2>6 DEF PledgeContested
    <2>8. PledgeClassified(s) = PledgeClassified(heard)
      BY <2>4, <2>5, <2>7 DEF PledgeClassified
    <2> QED
      BY <2>8, PledgeClassifyIs DEF Pledge!status, s
  <1>2. ASSUME PledgeTimes, PledgeIInv PROVE Pledge!OrderOnlyBreaksTies
    BY <1>1, <1>2 DEF Pledge!OrderOnlyBreaksTies, Pledge!OrderDoesNotMatter, Pledge!Reordered
  <1> QED
    BY <1>2, PledgeInvariance, PTL

-----------------------------------------------------------------------------
(* Both sides of a step, in the same terms.                                *)
LEMMA PledgeStatusIs == Pledge!status = PledgeClassified(heard) /\ Pledge!status' = PledgeClassified(heard)'
  BY DEF Pledge!status, Pledge!classifyState, PledgeClassified, PledgeContested, Pledge!Earliest, PledgeFirst, PledgeBefore

(* An outcome heard is the last one, and may settle if it does.            *)
LEMMA PledgeHearIs ==
  ASSUME PledgeTimes, PledgeIInv, NEW o \in Pledge!Outcome, Pledge!Hear(o)
  PROVE  /\ DOMAIN heard' = DOMAIN heard \union {Len(heard) + 1}
         /\ heard' # heard /\ Pledge!Last(heard') = o /\ heard'[Len(heard) + 1] = o
         /\ \A i \in DOMAIN heard : heard'[i] = heard[i] /\ i # Len(heard) + 1
         /\ o.at \in Nat /\ o.by \in Pledge!Signer
         /\ UNCHANGED <<mechanism, disputes, atBlock, now, mined, abandoned>>
         /\ Pledge!Settling(heard)' = Pledge!Settling(heard) \union
              (IF Pledge!InForce(o) /\ Pledge!Settles(o) THEN {Len(heard) + 1} ELSE {})
  <1>1. heard' = Append(heard, o) /\ heard' \in Seq(Pledge!Outcome) /\ Len(heard') = Len(heard) + 1
    BY DEF Pledge!Hear, PledgeIInv
  <1>2. DOMAIN heard = 1 .. Len(heard) /\ Len(heard) \in Nat
    BY PledgeHeardIs
  <1>3. DOMAIN heard' = 1 .. Len(heard) + 1
    BY <1>1, LenProperties
  <1>4. heard'[Len(heard) + 1] = o /\ \A i \in 1 .. Len(heard) : heard'[i] = heard[i]
    BY <1>1, <1>2 DEF PledgeIInv
  <1>5. UNCHANGED <<mechanism, disputes, atBlock, now, mined, abandoned>>
    BY DEF Pledge!Hear, Pledge!pledge
  <1>6. Pledge!Settling(heard)' = Pledge!Settling(heard) \union
              (IF Pledge!InForce(o) /\ Pledge!Settles(o) THEN {Len(heard) + 1} ELSE {})
    BY <1>2, <1>3, <1>4, <1>5 DEF Pledge!Settling, Pledge!InForce, Pledge!Settles
  <1>7. Pledge!Last(heard') = o
    BY <1>1, <1>4 DEF Pledge!Last
  <1>8. o.at \in 0 .. LastTime /\ o.by \in Pledge!Signer
    BY DEF Pledge!Outcome
  <1>9. o.at \in Nat
    BY <1>8 DEF PledgeTimes
  <1>10. heard' # heard
    <2>1. Len(heard) + 1 \in DOMAIN heard' /\ Len(heard) + 1 \notin DOMAIN heard
      BY <1>2, <1>3
    <2> QED
      BY <2>1
  <1>11. DOMAIN heard' = DOMAIN heard \union {Len(heard) + 1}
    BY <1>2, <1>3
  <1> QED
    BY <1>2, <1>4, <1>5, <1>6, <1>7, <1>8, <1>9, <1>10, <1>11

(* It does not take the settling outcome's place unless it settles and is  *)
(* dated no later.                                                         *)
LEMMA PledgeHearKeepsFirst ==
  ASSUME PledgeTimes, PledgeIInv, NEW o \in Pledge!Outcome, Pledge!Hear(o), Pledge!Settling(heard) # {},
         Pledge!Settles(o) => o.at > heard[PledgeFirst(Pledge!Settling(heard), heard)].at
  PROVE  /\ PledgeFirst(Pledge!Settling(heard), heard) \in DOMAIN heard
         /\ PledgeFirst(Pledge!Settling(heard)', heard') = PledgeFirst(Pledge!Settling(heard), heard)
         /\ heard'[PledgeFirst(Pledge!Settling(heard), heard)] = heard[PledgeFirst(Pledge!Settling(heard), heard)]
  <1> DEFINE e == PledgeFirst(Pledge!Settling(heard), heard)
             S == Pledge!Settling(heard)
             T == S \union (IF Pledge!InForce(o) /\ Pledge!Settles(o) THEN {Len(heard) + 1} ELSE {})
  <1>1. S \subseteq Nat /\ \A i \in S : i \in DOMAIN heard /\ heard[i].at \in Nat
    BY PledgeSettlingIs
  <1>2. e \in S /\ \A j \in S : PledgeBefore(heard, e, j)
    BY <1>1, PledgeFirstIs
  <1>3. T \subseteq Nat /\ \A i \in T : heard'[i].at \in Nat
    BY <1>1, PledgeHearIs, PledgeHeardIs
  <1>4. e \in T /\ heard'[e] = heard[e] /\ e \in DOMAIN heard
    BY <1>1, <1>2, PledgeHearIs
  <1>5. Pledge!Settling(heard)' = T
    BY PledgeHearIs
  <1>6. heard'[Len(heard) + 1] = o /\ \A j \in S : heard'[j] = heard[j]
    BY <1>1, PledgeHearIs
  <1>7. o.at \in Nat /\ heard[e].at \in Nat /\ (Pledge!Settles(o) => o.at > heard[e].at)
    BY <1>1, <1>2, PledgeHearIs
  <1> HIDE DEF e, S
  <1>8. \A j \in T : PledgeBefore(heard', e, j)
    BY <1>2, <1>4, <1>6, <1>7 DEF PledgeBefore
  <1> HIDE DEF T
  <1>9. PledgeFirst(T, heard') = e
    BY <1>3, <1>4, <1>8, PledgeFirstUnique
  <1> QED
    BY <1>4, <1>5, <1>9 DEF e

(* Nothing but the outcomes passed changes what is said then.              *)
LEMMA PledgeHearStatus ==
  ASSUME PledgeTimes, PledgeIInv, NEW o \in Pledge!Outcome, Pledge!Hear(o)
  PROVE  LET f == PledgeFirst(Pledge!Settling(heard)', heard') IN
         Pledge!status' = IF abandoned THEN "broken"
                   ELSE IF Pledge!Settling(heard)' = {} THEN Pledge!ByTime
                   ELSE IF PledgeContested(heard', f) THEN Pledge!Disputed
                   ELSE heard'[f].says
  <1>1. UNCHANGED <<mechanism, disputes, atBlock, now, mined, abandoned>>
    BY PledgeHearIs
  <1>2. Pledge!ByTime' = Pledge!ByTime /\ Pledge!Disputed' = Pledge!Disputed
    BY <1>1 DEF Pledge!ByTime, Pledge!Disputed
  <1>3. ASSUME NEW ACTION f
        PROVE  PledgeContested(heard', f) <=> \E j \in DOMAIN heard' :
                  /\ heard'[j].at <= now' /\ (heard'[j].by # "deterministic" => heard'[j].at < Expires)
                  /\ heard'[j].says # heard'[f].says
                  /\ \/ mechanism' = "counterparty_signs" /\ heard'[j].by = "swearer"
                     \/ /\ heard'[j].by = IF mechanism' = "counterparty_signs"
                                          THEN "counterparty" ELSE "deterministic"
                        /\ heard'[j].at < heard'[f].window
    BY <1>1 DEF PledgeContested, Pledge!InForce, Pledge!Disputes, Pledge!CounterClaims, Pledge!Settles
  <1>4. PledgeContested(heard, PledgeFirst(Pledge!Settling(heard), heard))'
          <=> PledgeContested(heard', PledgeFirst(Pledge!Settling(heard)', heard'))
    BY <1>3 DEF PledgeContested, Pledge!InForce, Pledge!Disputes, Pledge!CounterClaims, Pledge!Settles
  <1> QED
    BY <1>1, <1>2, <1>4, PledgeStatusIs DEF PledgeClassified

(* A step that hears an outcome is Hear of it.                             *)
LEMMA PledgeHeardBy ==
  ASSUME PledgeTimes, PledgeIInv, Pledge!Next, heard' # heard
  PROVE  \E o \in Pledge!Outcome : Pledge!Hear(o) /\ Pledge!Last(heard') = o
  <1>1. \E o \in Pledge!Outcome : Pledge!Hear(o)
    BY DEF Pledge!Next, Pledge!Abandon, Pledge!Mine, Pledge!Tick
  <1> QED
    BY <1>1, PledgeHearIs

-----------------------------------------------------------------------------
(* The swearer never gets a pledge out of what it is but into a dispute,   *)
(* or into what a dispute times out to (state.ts:44-48, 83-87), whatever   *)
(* was heard before.                                                       *)
THEOREM PledgeSwearerDisputes == ASSUME PledgeTimes PROVE Pledge!Spec => Pledge!SwearerOnlyDisputes
  <1>1. ASSUME PledgeTimes, PledgeIInv, Pledge!Next, heard' # heard, Pledge!Last(heard').by = "swearer"
        PROVE  Pledge!status' \in {Pledge!status, Pledge!Disputed}
    <2>1. PICK o \in Pledge!Outcome : Pledge!Hear(o) /\ o.by = "swearer"
      BY <1>1, PledgeHeardBy
    <2>2. ~Pledge!Settles(o)
      BY <2>1 DEF Pledge!Settles
    <2> DEFINE e == PledgeFirst(Pledge!Settling(heard), heard)
    <2>3. Pledge!Settling(heard)' = Pledge!Settling(heard)
      BY <1>1, <2>1, <2>2, PledgeHearIs
    <2>4. CASE Pledge!Settling(heard) = {}
      BY <1>1, <2>1, <2>3, <2>4, PledgeHearStatus, PledgeStatusIs DEF PledgeClassified
    <2>5. CASE Pledge!Settling(heard) # {}
      <3>1. /\ e \in DOMAIN heard /\ PledgeFirst(Pledge!Settling(heard)', heard') = e
            /\ heard'[e] = heard[e]
        BY <1>1, <2>1, <2>2, <2>5, PledgeHearKeepsFirst
      <3>2. PledgeContested(heard, e) => PledgeContested(heard', e)
        BY <1>1, <2>1, <3>1, PledgeHearIs DEF PledgeContested
      <3>3. Pledge!status' = IF abandoned THEN "broken"
                      ELSE IF PledgeContested(heard', e) THEN Pledge!Disputed ELSE heard[e].says
        BY <1>1, <2>1, <2>3, <2>5, <3>1, PledgeHearStatus
      <3>4. Pledge!status = IF abandoned THEN "broken"
                     ELSE IF PledgeContested(heard, e) THEN Pledge!Disputed ELSE heard[e].says
        BY <2>5, PledgeStatusIs DEF PledgeClassified
      <3> QED
        BY <3>2, <3>3, <3>4
    <2> QED
      BY <2>4, <2>5
  <1>2. ASSUME PledgeIInv, [Pledge!Next]_(Pledge!vars)
        PROVE  [heard' # heard /\ Pledge!Last(heard').by = "swearer" => Pledge!status' \in {Pledge!status, Pledge!Disputed}]_(Pledge!vars)
    BY <1>1, <1>2
  <1> QED
    BY <1>2, PledgeInvariance, PTL DEF Pledge!Spec, Pledge!SwearerOnlyDisputes

(* When the window of the settling outcome has closed, its resolver's      *)
(* later outcomes change nothing (state.ts:83-93), however many there are. *)
THEOREM PledgeWindowClosed == ASSUME PledgeTimes PROVE Pledge!Spec => Pledge!WindowCloses
  <1> DEFINE e == PledgeFirst(Pledge!Settling(heard), heard)
             Late == LET o == Pledge!Last(heard')  settling == heard[Pledge!Earliest(heard)] IN
                     o.at > settling.at /\ o.at >= settling.window
             Heard == heard' # heard /\ Pledge!Settles(Pledge!Last(heard')) /\ Pledge!Settling(heard) # {}
  <1>1. ASSUME PledgeTimes, PledgeIInv, Pledge!Next, Heard, Late PROVE Pledge!status' = Pledge!status
    <2>1. PICK o \in Pledge!Outcome : Pledge!Hear(o) /\ Pledge!Last(heard') = o
      BY <1>1, PledgeHeardBy
    <2>2. Pledge!Earliest(heard) = e
      BY DEF Pledge!Earliest, PledgeFirst, PledgeBefore
    <2>3. /\ Pledge!Settles(o) /\ Pledge!Settling(heard) # {}
          /\ o.at > heard[e].at /\ o.at >= heard[e].window
      BY <1>1, <2>1, <2>2
    <2>4. /\ e \in DOMAIN heard /\ PledgeFirst(Pledge!Settling(heard)', heard') = e
          /\ heard'[e] = heard[e]
      BY <1>1, <2>1, <2>3, PledgeHearKeepsFirst
    <2>5. heard[e].window \in Int /\ o.at \in Nat
      BY <1>1, <2>1, <2>4, PledgeHeardIs, PledgeHearIs
    <2>6. Pledge!Settling(heard)' # {}
      BY <1>1, <2>1, <2>3, PledgeHearIs
    <2> HIDE DEF e
    <2>7. ~Pledge!Disputes(o, heard[e])
      BY <1>1, <2>3, <2>5 DEF Pledge!Disputes, Pledge!CounterClaims, Pledge!Settles, PledgeIInv
    <2>8. PledgeContested(heard', e) <=> PledgeContested(heard, e)
      BY <1>1, <2>1, <2>4, <2>7, PledgeHearIs DEF PledgeContested
    <2>9. Pledge!status' = IF abandoned THEN "broken"
                    ELSE IF PledgeContested(heard', e) THEN Pledge!Disputed ELSE heard[e].says
      BY <1>1, <2>1, <2>4, <2>6, PledgeHearStatus
    <2>10. Pledge!status = IF abandoned THEN "broken"
                    ELSE IF PledgeContested(heard, e) THEN Pledge!Disputed ELSE heard[e].says
      BY <2>3, PledgeStatusIs DEF PledgeClassified, e
    <2> QED
      BY <2>8, <2>9, <2>10
  <1> HIDE DEF Heard, Late
  <1>2. ASSUME PledgeIInv, [Pledge!Next]_(Pledge!vars) PROVE [Heard => (Late => Pledge!status' = Pledge!status)]_(Pledge!vars)
    BY <1>1, <1>2
  <1>3. Pledge!WindowCloses <=> [][Heard => (Late => Pledge!status' = Pledge!status)]_(Pledge!vars)
    BY DEF Pledge!WindowCloses, Heard, Late
  <1> QED
    BY <1>2, <1>3, PledgeInvariance, PTL DEF Pledge!Spec

-----------------------------------------------------------------------------
(* Once a pledge that its counterparty settles has expired, time alone     *)
(* does not change what it is (state.ts:35-43), whatever was heard.        *)
THEOREM PledgeExpiryFinal == ASSUME PledgeTimes PROVE Pledge!Spec => Pledge!ExpiryIsFinal
  <1> DEFINE e == PledgeFirst(Pledge!Settling(heard), heard)
  <1>1. ASSUME PledgeTimes, PledgeIInv, Pledge!Tick, now >= Expires, mechanism = "counterparty_signs"
        PROVE  Pledge!status' = Pledge!status
    <2>1. /\ now \in Nat /\ now' = now + 1 /\ Expires \in Int
          /\ UNCHANGED <<mechanism, disputes, atBlock, mined, heard, abandoned>>
      BY <1>1 DEF Pledge!Tick, Pledge!pledge, PledgeIInv, PledgeTimes
    <2>2. ASSUME NEW i \in DOMAIN heard, heard[i].by # "deterministic"
          PROVE  Pledge!InForce(heard[i])' <=> Pledge!InForce(heard[i])
      BY <1>1, <2>1, <2>2, PledgeHeardIs DEF Pledge!InForce
    <2>3. \A i \in DOMAIN heard : Pledge!Settles(heard[i])' = Pledge!Settles(heard[i])
      BY <2>1 DEF Pledge!Settles
    <2>4. \A i \in DOMAIN heard : Pledge!Settles(heard[i]) => heard[i].by # "deterministic"
      BY <1>1 DEF Pledge!Settles
    <2>5. Pledge!Settling(heard)' = Pledge!Settling(heard)
      BY <2>1, <2>2, <2>3, <2>4 DEF Pledge!Settling
    <2>6. PledgeFirst(Pledge!Settling(heard)', heard') = e
      BY <2>1, <2>5
    <2> HIDE DEF e
    <2>7. ASSUME NEW i \in DOMAIN heard
          PROVE  Pledge!Disputes(heard[i], heard[e]) => heard[i].by # "deterministic"
      BY <2>4 DEF Pledge!Disputes, Pledge!CounterClaims
    <2>8. PledgeContested(heard, PledgeFirst(Pledge!Settling(heard), heard))' <=> PledgeContested(heard, e)
      <3>1. \A i \in DOMAIN heard :
              /\ heard'[i].says # heard'[e].says
              /\ \/ mechanism' = "counterparty_signs" /\ heard'[i].by = "swearer"
                 \/ Pledge!Settles(heard[i])' /\ heard'[i].at < heard'[e].window
              <=> Pledge!Disputes(heard[i], heard[e])
        BY <2>1, <2>3 DEF Pledge!Disputes, Pledge!CounterClaims
      <3> QED
        BY <2>1, <2>2, <2>6, <2>7, <3>1 DEF PledgeContested, Pledge!Disputes, Pledge!CounterClaims
    <2>9. Pledge!Disputed' = Pledge!Disputed /\ Pledge!ByTime' = Pledge!ByTime
      BY <1>1, <2>1 DEF Pledge!Disputed, Pledge!ByTime
    <2> QED
      BY <2>1, <2>5, <2>6, <2>8, <2>9, PledgeStatusIs DEF PledgeClassified, e
  <1>2. ASSUME PledgeIInv, [Pledge!Next]_(Pledge!vars)
        PROVE  [Pledge!Tick /\ now >= Expires /\ mechanism = "counterparty_signs"
                  => Pledge!status' = Pledge!status]_(Pledge!vars)
    BY <1>1, <1>2
  <1> QED
    BY <1>2, PledgeInvariance, PTL DEF Pledge!Spec, Pledge!ExpiryIsFinal

LEMMA PledgeTypes == ASSUME PledgeTimes PROVE Pledge!Spec => []Pledge!TypeOK
  <1> DEFINE Types == /\ Len(heard) <= MaxHeard /\ now \in 0 .. LastTime
                      /\ mined \in BOOLEAN /\ abandoned \in BOOLEAN
  <1>1. Pledge!Init => Types
    <2> SUFFICES ASSUME Pledge!Init PROVE Types
      OBVIOUS
    <2>1. Len(heard) = 0 /\ MaxHeard \in Nat /\ LastTime \in Nat
      BY EmptySeq DEF Pledge!Init, PledgeTimes
    <2>2. now = 0 /\ mined \in BOOLEAN /\ abandoned \in BOOLEAN
      BY Zenon DEF Pledge!Init
    <2>3. Len(heard) <= MaxHeard /\ now \in 0 .. LastTime
      BY <2>1, <2>2
    <2> QED
      BY <2>2, <2>3
  <1>2. ASSUME PledgeIInv, Types, [Pledge!Next]_(Pledge!vars) PROVE Types'
    <2>0. now \in 0 .. LastTime /\ LastTime \in Nat /\ Len(heard) \in Nat
      BY <1>2, LenProperties DEF PledgeIInv, PledgeTimes
    <2>1. ASSUME NEW o \in Pledge!Outcome, Pledge!Hear(o) PROVE Types'
      <3>1. Len(heard') = Len(heard) + 1 /\ Len(heard) < MaxHeard
        BY <1>2, <2>1 DEF Pledge!Hear, PledgeIInv
      <3>2. Len(heard') <= MaxHeard
        BY <2>0, <3>1 DEF PledgeTimes
      <3> QED
        BY <1>2, <2>1, <3>2 DEF Pledge!Hear
    <2>2. CASE Pledge!Abandon \/ Pledge!Mine
      BY <1>2, <2>2 DEF Pledge!Abandon, Pledge!Mine
    <2>3. CASE Pledge!Tick
      BY <1>2, <2>0, <2>3 DEF Pledge!Tick
    <2>4. CASE UNCHANGED Pledge!vars
      BY <1>2, <2>4 DEF Pledge!vars
    <2> QED
      BY <1>2, <2>1, <2>2, <2>3, <2>4 DEF Pledge!Next
  <1>3. ASSUME PledgeIInv, Types PROVE Pledge!TypeOK
    <2>1. Pledge!status \in Pledge!Status
      <3>1. CASE Pledge!Settling(heard) = {} \/ abandoned
        BY <3>1, PledgeStatusIs DEF PledgeClassified, Pledge!ByTime, Pledge!Status
      <3>2. CASE Pledge!Settling(heard) # {} /\ ~abandoned
        <4> DEFINE e == PledgeFirst(Pledge!Settling(heard), heard)
        <4>1. e \in Pledge!Settling(heard)
          BY <1>3, <3>2, PledgeSettlingIs, PledgeFirstIs
        <4>2. heard[e].says \in {"kept", "broken"}
          BY <1>3, <4>1, PledgeSettlingIs, PledgeHeardIs
        <4> HIDE DEF e
        <4>3. Pledge!status = Pledge!Disputed \/ Pledge!status = heard[e].says
          BY <3>2, PledgeStatusIs DEF PledgeClassified, e
        <4> QED
          BY <4>2, <4>3 DEF Pledge!Disputed, Pledge!Status
      <3> QED
        BY <3>1, <3>2
    <2> QED
      BY <1>3, <2>1 DEF Pledge!TypeOK, PledgeIInv
  <1> HIDE DEF Types
  <1>4. Pledge!Spec => []Types
    BY <1>1, <1>2, PledgeInvariance, PTL DEF Pledge!Spec
  <1> QED
    BY <1>3, <1>4, PledgeInvariance, PTL

-----------------------------------------------------------------------------
(* VoteTally.                                                              *)

LEMMA VoteTop ==
  ASSUME NEW ACTION x, NEW ACTION y, x \in Nat, y \in Nat
  PROVE  /\ Vote!Max({x, y}) \in {x, y}
         /\ x <= Vote!Max({x, y}) /\ y <= Vote!Max({x, y})
  <1> DEFINE S == {x, y}
             top == IF x >= y THEN x ELSE y
  <1>1. top \in S /\ \A z \in S : top >= z
    OBVIOUS
  <1>2. \E u \in S : \A z \in S : u >= z
    BY <1>1
  <1>3. Vote!Max(S) = CHOOSE u \in S : \A z \in S : u >= z
    BY DEF Vote!Max
  <1> HIDE DEF S
  <1>4. Vote!Max(S) \in S /\ \A z \in S : Vote!Max(S) >= z
    BY <1>2, <1>3
  <1>5. x \in S /\ y \in S
    BY DEF S
  <1> QED
    BY <1>4, <1>5 DEF S

LEMMA VoteStep ==
  ASSUME VoteBounds, Vote!TypeOK, Vote!Next \/ UNCHANGED voteVars
  PROVE  Vote!TypeOK'
  <1>0. /\ MaxTip \in Nat /\ tipHeight \in Nat /\ 1 <= tipHeight /\ tipHeight <= peak
        /\ peak \in Nat /\ peak <= MaxTip /\ closeHeight \in Nat /\ closeHeight <= tipHeight
        /\ anchor \in [Ballot -> 0 .. tipHeight]
        /\ \A t \in announced : t.state = "tallied"
    BY DEF VoteBounds, Vote!TypeOK
  <1>1. ASSUME NEW b \in Ballot, Vote!Cast(b) PROVE Vote!TypeOK'
    BY <1>1 DEF Vote!Cast, Vote!TypeOK, Vote!chain
  <1>2. CASE Vote!Mine
    <2>1. PICK S : anchor' = [b \in Ballot |-> IF b \in S THEN tipHeight' ELSE anchor[b]]
      BY <1>2 DEF Vote!Mine
    <2>2. /\ tipHeight' = tipHeight + 1 /\ tipHeight < MaxTip /\ announced' = announced
          /\ peak' = Vote!Max({peak, tipHeight'})
          /\ closeHeight' = closeHeight \/ closeHeight' = tipHeight'
      BY <1>2 DEF Vote!Mine
    <2>3. /\ peak' \in {peak, tipHeight + 1} /\ tipHeight + 1 <= peak'
      <3>1. tipHeight + 1 \in Nat /\ peak' = Vote!Max({peak, tipHeight + 1})
        BY <1>0, <2>2
      <3> QED
        BY <1>0, <3>1, VoteTop
    <2>4. tipHeight' \in 1 .. MaxTip /\ peak' \in tipHeight' .. MaxTip
          /\ closeHeight' \in 0 .. tipHeight'
      BY <1>0, <2>2, <2>3
    <2>5. anchor' \in [Ballot -> 0 .. tipHeight']
      BY <1>0, <2>1, <2>2
    <2> QED
      BY <1>0, <2>2, <2>4, <2>5 DEF Vote!TypeOK
  <1>3. CASE Vote!Reorg
    <2>1. PICK h \in 1 .. tipHeight - 1 : tipHeight' = h
      BY <1>3 DEF Vote!Reorg
    <2>2. /\ anchor' = [b \in Ballot |-> IF anchor[b] > tipHeight' THEN 0 ELSE anchor[b]]
          /\ closeHeight' = IF closeHeight > tipHeight' THEN 0 ELSE closeHeight
          /\ peak' = peak /\ announced' = announced
      BY <1>3 DEF Vote!Reorg, Vote!Unknown
    <2>3. tipHeight' \in 1 .. MaxTip /\ peak' \in tipHeight' .. MaxTip
          /\ closeHeight' \in 0 .. tipHeight'
      BY <1>0, <2>1, <2>2
    <2>4. anchor' \in [Ballot -> 0 .. tipHeight']
      BY <1>0, <2>1, <2>2
    <2> QED
      BY <1>0, <2>2, <2>3, <2>4 DEF Vote!TypeOK
  <1>4. CASE Vote!Announce
    BY <1>0, <1>4 DEF Vote!Announce, Vote!TypeOK, Vote!chain
  <1>5. CASE UNCHANGED voteVars
    BY <1>5 DEF voteVars, Vote!TypeOK
  <1> QED
    BY <1>1, <1>2, <1>3, <1>4, <1>5 DEF Vote!Next

(* The better of two ballots, by the poll's tiebreak.                      *)
VoteBetter(a, b) == IF tiebreak = "latest" THEN Vote!After(a, b) ELSE Vote!After(b, a)

VoteBest(S) == {b \in S : \A a \in S : a # b => VoteBetter(a, b)}

VoteOne(S) == S # {} => \E a : VoteBest(S) = {a}

VoteOwn(S, v) == {b \in S : Of[b].voter = v /\ Vote!Filtered(b)}

(* It is a total order, since no two ballots have one id.                  *)
LEMMA VoteOrder ==
  ASSUME VoteBounds, Vote!TypeOK, NEW ACTION a, NEW ACTION b, NEW ACTION c,
         a \in Ballot, b \in Ballot, c \in Ballot
  PROVE  /\ a # b => VoteBetter(a, b) \/ VoteBetter(b, a)
         /\ ~(VoteBetter(a, b) /\ VoteBetter(b, a))
         /\ VoteBetter(a, b) /\ VoteBetter(b, c) => VoteBetter(a, c)
  <1> DEFINE h(x) == Vote!Sorted(x)
             d(x) == Of[x].created_at
             n(x) == BallotId[x]
             Less(x, y) == \/ h(y) > h(x)
                           \/ h(y) = h(x) /\ d(y) > d(x)
                           \/ h(y) = h(x) /\ d(y) = d(x) /\ n(y) > n(x)
  <1>1. \A x \in Ballot : h(x) \in Int /\ d(x) \in Int /\ n(x) \in Int
    BY DEF VoteBounds, Vote!TypeOK, Vote!Sorted, Vote!Infinity
  <1>2. n(a) = n(b) => a = b
    BY DEF VoteBounds
  <1>3. \A x, y : Vote!After(x, y) <=> Less(x, y)
    BY DEF Vote!After
  <1> HIDE DEF h, d, n
  <1>4. /\ a # b => Less(a, b) \/ Less(b, a)
        /\ ~(Less(a, b) /\ Less(b, a))
        /\ Less(a, b) /\ Less(b, c) => Less(a, c)
        /\ Less(c, b) /\ Less(b, a) => Less(c, a)
    BY <1>1, <1>2
  <1> QED
    BY <1>3, <1>4 DEF VoteBetter

LEMMA VoteChoice ==
  ASSUME VoteBounds, Vote!TypeOK, NEW ACTION S, NEW ACTION a, NEW ACTION b,
         S \subseteq Ballot, b \in Ballot, VoteBest(S) = {a}
  PROVE  VoteBest(S \union {b}) = {Vote!chooseByTiebreak(a, b)}
  <1>1. a \in S /\ a \in Ballot /\ \A x \in S : x # a => VoteBetter(x, a)
    BY DEF VoteBest
  <1>2. \A x \in S : x \in Ballot
    OBVIOUS
  <1>3. Vote!chooseByTiebreak(a, b) = IF VoteBetter(a, b) THEN b ELSE a
    BY DEF Vote!chooseByTiebreak, VoteBetter
  <1>4. CASE VoteBetter(a, b)
    <2>1. \A x \in S \union {b} : x # b => VoteBetter(x, b)
      BY <1>1, <1>2, <1>4, VoteOrder
    <2>2. \A x \in S \union {b} : x # b => ~VoteBetter(b, x)
      BY <1>1, <1>2, <2>1, VoteOrder
    <2>3. VoteBest(S \union {b}) = {b}
      BY <2>1, <2>2 DEF VoteBest
    <2> QED
      BY <1>3, <1>4, <2>3
  <1>5. CASE ~VoteBetter(a, b)
    <2>1. \A x \in S \union {b} : x # a => VoteBetter(x, a)
      BY <1>1, <1>2, <1>5, VoteOrder
    <2>2. \A x \in S \union {b} : x # a => ~VoteBetter(a, x)
      BY <1>1, <1>2, <2>1, VoteOrder
    <2>3. VoteBest(S \union {b}) = {a}
      BY <1>1, <2>1, <2>2 DEF VoteBest
    <2> QED
      BY <1>3, <1>5, <2>3
  <1> QED
    BY <1>4, <1>5

(* One turn of the loop: what is kept of the ballots is the best of them.  *)
LEMMA VoteTurn ==
  ASSUME VoteBounds, Vote!TypeOK, NEW ACTION S, NEW ACTION b, NEW ACTION v,
         S \subseteq Ballot, b \in Ballot,
         VoteOne(VoteOwn(S, v))
  PROVE  /\ VoteBest(VoteOwn(S \union {b}, v)) = Vote!Keep(VoteBest(VoteOwn(S, v)), b, v)
         /\ VoteOne(VoteOwn(S \union {b}, v))
  <1> DEFINE O == VoteOwn(S, v)
             K == Vote!Keep(VoteBest(O), b, v)
  <1>1. O \subseteq Ballot
    BY DEF VoteOwn
  <1>2. CASE Of[b].voter # v \/ ~Vote!Filtered(b)
    <2>1. VoteOwn(S \union {b}, v) = O
      BY <1>2 DEF VoteOwn
    <2> QED
      BY <1>2, <2>1 DEF Vote!Keep
  <1>3. CASE Of[b].voter = v /\ Vote!Filtered(b)
    <2>1. VoteOwn(S \union {b}, v) = O \union {b}
      BY <1>3 DEF VoteOwn
    <2>2. CASE O = {}
      <3>1. VoteBest(O) = {} /\ VoteBest(O \union {b}) = {b}
        BY <2>2 DEF VoteBest
      <3> QED
        BY <1>3, <2>1, <3>1 DEF Vote!Keep, VoteOne
    <2>3. CASE O # {}
      <3>1. PICK a : VoteBest(O) = {a}
        BY <2>3 DEF VoteOne
      <3> HIDE DEF O
      <3>2. VoteBest(O \union {b}) = {Vote!chooseByTiebreak(a, b)}
        BY <1>1, <3>1, VoteChoice
      <3>3. K = {Vote!chooseByTiebreak(a, b)}
        BY <1>3, <3>1 DEF Vote!Keep
      <3> QED
        BY <2>1, <3>2, <3>3 DEF O, VoteOne
    <2> QED
      BY <2>2, <2>3
  <1> QED
    BY <1>2, <1>3

(* What stands of a voter's ballots is the best of them, in whatever order *)
(* a tally is passed them.                                                 *)
LEMMA VoteStandingIs ==
  ASSUME VoteBounds, Vote!TypeOK, NEW ACTION s, NEW ACTION v, s \in Seq(Ballot)
  PROVE  Vote!Standing(s, v) = VoteBest(VoteOwn({s[i] : i \in DOMAIN s}, v))
  <1> DEFINE n == Len(s)
             Upto(k) == {s[i] : i \in 1 .. k}
             Best(k) == VoteBest(VoteOwn(Upto(k), v))
             One(k) == VoteOne(VoteOwn(Upto(k), v))
             Is(f) == f = [i \in 0 .. n |-> IF i = 0 THEN {} ELSE Vote!Keep(f[i - 1], s[i], v)]
             g == [i \in 0 .. n |-> Best(i)]
  <1>1. n \in Nat /\ DOMAIN s = 1 .. n /\ \A i \in 1 .. n : s[i] \in Ballot
    BY LenProperties, ElementOfSeq
  <1> HIDE DEF n
  <1>2. Upto(0) = {} /\ Best(0) = {} /\ One(0)
    BY DEF VoteOwn, VoteBest, VoteOne
  <1>3. ASSUME NEW k \in 1 .. n
        PROVE  /\ k - 1 \in 0 .. n /\ Upto(k) = Upto(k - 1) \union {s[k]}
               /\ Upto(k - 1) \subseteq Ballot
    <2>1. k \in Nat /\ k - 1 \in 0 .. n /\ 1 .. k = 1 .. (k - 1) \union {k}
          /\ 1 .. (k - 1) \subseteq 1 .. n
      BY <1>1
    <2> QED
      BY <1>1, <2>1
  <1>4. ASSUME NEW k \in 1 .. n, One(k - 1)
        PROVE  Best(k) = Vote!Keep(Best(k - 1), s[k], v) /\ One(k)
    <2> DEFINE T == Upto(k - 1)
    <2>1. T \subseteq Ballot /\ s[k] \in Ballot /\ Upto(k) = T \union {s[k]}
          /\ VoteOne(VoteOwn(T, v))
      BY <1>1, <1>3, <1>4
    <2> HIDE DEF T
    <2>2. /\ VoteBest(VoteOwn(T \union {s[k]}, v)) = Vote!Keep(VoteBest(VoteOwn(T, v)), s[k], v)
          /\ VoteOne(VoteOwn(T \union {s[k]}, v))
      BY <2>1, VoteTurn
    <2> HIDE DEF Upto
    <2> QED
      BY <2>1, <2>2 DEF T
  <1> HIDE DEF Upto, Best, One
  <1>5. \A k \in 0 .. n : One(k)
    <2> DEFINE Bad == {k \in 0 .. n : ~One(k)}
    <2>1. SUFFICES ASSUME Bad # {} PROVE FALSE
      OBVIOUS
    <2>2. Bad \subseteq Nat
      BY <1>1
    <2> HIDE DEF Bad
    <2>3. PICK k \in Bad : \A j \in Bad : k <= j
      BY <2>1, <2>2, LeastNat
    <2>4. k \in 0 .. n /\ ~One(k)
      BY <2>3 DEF Bad
    <2>5. k # 0
      BY <1>2, <2>4
    <2>6. k \in 1 .. n /\ k - 1 \in 0 .. n /\ ~(k <= k - 1)
      BY <1>1, <2>4, <2>5
    <2>7. One(k - 1)
      BY <2>3, <2>6 DEF Bad
    <2> QED
      BY <1>4, <2>4, <2>6, <2>7
  <1>6. Is(g)
    <2>1. ASSUME NEW i \in 0 .. n
          PROVE  g[i] = IF i = 0 THEN {} ELSE Vote!Keep(g[i - 1], s[i], v)
      <3>1. CASE i = 0
        BY <1>2, <3>1
      <3>2. CASE i # 0
        <4>1. i \in 1 .. n /\ i - 1 \in 0 .. n
          BY <1>1, <3>2
        <4>2. Best(i) = Vote!Keep(Best(i - 1), s[i], v)
          BY <1>4, <1>5, <4>1
        <4>3. g[i] = Best(i) /\ g[i - 1] = Best(i - 1)
          BY <4>1
        <4> HIDE DEF g
        <4> QED
          BY <3>2, <4>2, <4>3
      <3> QED
        BY <3>1, <3>2
    <2> DEFINE r == [i \in 0 .. n |-> IF i = 0 THEN {} ELSE Vote!Keep(g[i - 1], s[i], v)]
    <2>2. \A i \in 0 .. n : g[i] = r[i]
      BY <2>1
    <2> QED
      BY <2>2
  <1>7. ASSUME NEW ACTION f, Is(f) PROVE f[n] = Best(n)
    <2>0. \A i \in 0 .. n : f[i] = IF i = 0 THEN {} ELSE Vote!Keep(f[i - 1], s[i], v)
      BY <1>7, Zenon
    <2>1. /\ f[0] = {}
          /\ \A i \in 1 .. n : f[i] = Vote!Keep(f[i - 1], s[i], v)
      <3> HIDE DEF Is
      <3> QED
        BY <1>1, <2>0
    <2> DEFINE Bad == {k \in 0 .. n : f[k] # Best(k)}
    <2>2. SUFFICES ASSUME Bad # {} PROVE FALSE
      BY <1>1
    <2>3. Bad \subseteq Nat
      BY <1>1
    <2> HIDE DEF Bad
    <2>4. PICK k \in Bad : \A j \in Bad : k <= j
      BY <2>2, <2>3, LeastNat
    <2>5. k \in 0 .. n /\ f[k] # Best(k)
      BY <2>4 DEF Bad
    <2>6. k # 0
      BY <1>2, <2>1, <2>5
    <2>7. k \in 1 .. n /\ k - 1 \in 0 .. n /\ ~(k <= k - 1)
      BY <1>1, <2>5, <2>6
    <2>8. f[k - 1] = Best(k - 1)
      BY <2>4, <2>7 DEF Bad
    <2>9. Best(k) = Vote!Keep(Best(k - 1), s[k], v)
      BY <1>4, <1>5, <2>7
    <2> QED
      BY <2>1, <2>5, <2>7, <2>8, <2>9
  <1> DEFINE h == CHOOSE f : Is(f)
  <1>8. Is(h)
    <2> HIDE DEF Is, g
    <2> QED
      BY <1>6
  <1>9. Vote!Standing(s, v) = h[n]
    BY DEF Vote!Standing, n
  <1> HIDE DEF Is, h
  <1>10. h[n] = Best(n)
    BY <1>7, <1>8
  <1>11. Best(n) = VoteBest(VoteOwn({s[i] : i \in DOMAIN s}, v))
    BY <1>1 DEF Best, Upto
  <1> QED
    BY <1>9, <1>10, <1>11

(* What every final tally gives: of each voter's ballots in time, the best *)
(* one.                                                                    *)
VoteInTime == {b \in {cast[i] : i \in DOMAIN cast} : Vote!inTime(b)}

VoteStands == UNION {VoteBest({b \in VoteInTime : Of[b].voter = v}) : v \in Voter}

VoteResult(state, standing) ==
    LET counted == {b \in standing : secret => Of[b].opens}
        weighed == {b \in counted : Of[b].option # "withdraw"}
    IN  [state |-> state, close |-> closeHeight, counted |-> counted,
         tallies |-> [o \in Option |-> Vote!Total({b \in weighed : Of[b].option = o})]]

(* The inductive invariant: only a ballot that was cast has an anchor, the *)
(* chain is at most Confirmations below its peak, and once a tally was     *)
(* announced the blocks it counts by are that far below the peak.          *)
VoteIInv ==
    /\ Vote!TypeOK /\ cast \in Seq(Ballot)
    /\ \A b \in Ballot : anchor[b] # 0 => b \in {cast[i] : i \in DOMAIN cast}
    /\ tipHeight >= peak - Confirmations
    /\ announced # {} => closeHeight # 0 /\ peak >= Vote!lastAnchorHeight + Confirmations
    /\ \A t \in announced : t = VoteResult("tallied", VoteStands)

(* A count that is final is of the ballots in time.                        *)
LEMMA VoteFinalIs ==
  ASSUME VoteBounds, VoteIInv, NEW ACTION unread,
         Vote!tally(cast, unread).state = "tallied"
  PROVE  /\ Vote!anchoredTallyIsFinal
         /\ Vote!tally(cast, unread) = VoteResult("tallied", VoteStands)
  <1> DEFINE standing == UNION {Vote!Standing(cast, v) : v \in Voter}
  <1>1. Vote!tally(cast, unread) = Vote!Count(cast, unread)
    BY DEF Vote!tally
  <1>2. Vote!anchoredTallyIsFinal
        /\ Vote!Count(cast, unread) = VoteResult("tallied", standing)
    <2>1. \/ Vote!Count(cast, unread) = [state |-> "unread"]
          \/ Vote!Count(cast, unread)
               = VoteResult(IF Vote!anchoredTallyIsFinal THEN "tallied" ELSE "provisional",
                            standing)
      BY DEF Vote!Count, VoteResult
    <2> HIDE DEF standing
    <2>2. VoteResult("provisional", standing).state = "provisional"
      BY DEF VoteResult
    <2> QED
      BY <1>1, <2>1, <2>2
  <1>3. ASSUME NEW v \in Voter
        PROVE  Vote!Standing(cast, v) = VoteBest({b \in VoteInTime : Of[b].voter = v})
    <2>1. Vote!Standing(cast, v) = VoteBest(VoteOwn({cast[i] : i \in DOMAIN cast}, v))
      BY VoteStandingIs DEF VoteIInv
    <2>2. VoteOwn({cast[i] : i \in DOMAIN cast}, v) = {b \in VoteInTime : Of[b].voter = v}
      BY <1>2 DEF VoteOwn, VoteInTime, Vote!Filtered
    <2> QED
      BY <2>1, <2>2
  <1>4. standing = VoteStands
    BY <1>3 DEF VoteStands
  <1> QED
    BY <1>1, <1>2, <1>4

(* What stands does not change while the ballots in time and their anchors *)
(* do not.                                                                 *)
LEMMA VoteStandsStill ==
  ASSUME VoteInTime' = VoteInTime, \A b \in VoteInTime : anchor'[b] = anchor[b],
         UNCHANGED <<secret, tiebreak, closeHeight>>
  PROVE  (VoteResult("tallied", VoteStands))' = VoteResult("tallied", VoteStands)
  <1>1. ASSUME NEW a \in VoteInTime, NEW b \in VoteInTime
        PROVE  VoteBetter(a, b)' <=> VoteBetter(a, b)
    BY <1>1 DEF VoteBetter, Vote!After, Vote!Sorted, Vote!Unknown
  <1>2. ASSUME NEW v \in Voter
        PROVE  VoteBest({b \in VoteInTime : Of[b].voter = v})'
                 = VoteBest({b \in VoteInTime : Of[b].voter = v})
    BY <1>1 DEF VoteBest
  <1>3. VoteStands' = VoteStands
    BY <1>2 DEF VoteStands
  <1> QED
    BY <1>3 DEF VoteResult

LEMMA VoteInit == ASSUME VoteBounds, Vote!Init \/ NoVote PROVE VoteIInv
  <1>1. Vote!TypeOK
    BY DEF Vote!Init, NoVote, Vote!TypeOK, Vote!Unknown, VoteBounds
  <1>2. /\ cast = <<>> /\ announced = {} /\ tipHeight = 1 /\ peak = 1
        /\ \A b \in Ballot : anchor[b] = 0
    BY DEF Vote!Init, NoVote, Vote!Unknown
  <1>3. tipHeight >= peak - Confirmations
    BY <1>2 DEF VoteBounds
  <1>4. cast \in Seq(Ballot)
    BY <1>2
  <1> QED
    BY <1>1, <1>2, <1>3, <1>4 DEF VoteIInv

(* Blocks at or below the last one that counts stay.                       *)
LEMMA VoteFrozen ==
  ASSUME VoteBounds, VoteIInv, announced # {}
  PROVE  /\ closeHeight # 0 /\ closeHeight <= Vote!lastAnchorHeight
         /\ Vote!lastAnchorHeight \in Nat /\ Vote!lastAnchorHeight + Confirmations <= peak
         /\ Vote!lastAnchorHeight <= tipHeight
         /\ \A b \in Ballot : Vote!inTime(b) <=> anchor[b] # 0 /\ anchor[b] <= Vote!lastAnchorHeight
  <1>1. /\ closeHeight \in Nat /\ closeHeight # 0 /\ Grace \in Nat /\ Confirmations \in Nat
        /\ tipHeight \in Nat /\ peak \in Nat /\ tipHeight >= peak - Confirmations
        /\ peak >= closeHeight + Grace + Confirmations
    BY DEF VoteBounds, VoteIInv, Vote!TypeOK, Vote!lastAnchorHeight
  <1> QED
    BY <1>1 DEF Vote!lastAnchorHeight, Vote!inTime, Vote!Unknown

LEMMA VoteStepIInv ==
  ASSUME VoteBounds, VoteIInv, Vote!Next \/ UNCHANGED voteVars
  PROVE  VoteIInv'
  <1> DEFINE Cast0 == {cast[i] : i \in DOMAIN cast}
  <1>0. /\ tipHeight \in Nat /\ peak \in Nat /\ closeHeight \in Nat /\ closeHeight <= tipHeight
        /\ tipHeight <= peak /\ anchor \in [Ballot -> Nat] /\ Confirmations \in Nat /\ Grace \in Nat
        /\ tipHeight >= peak - Confirmations
        /\ \A b \in Ballot : anchor[b] <= tipHeight
        /\ cast \in Seq(Ballot) /\ \A b \in Cast0 : b \in Ballot
    <2>1. \A b \in Ballot : anchor[b] \in 0 .. tipHeight
      BY DEF VoteIInv, Vote!TypeOK
    <2>2. \A b \in Cast0 : b \in Ballot
      BY ElementOfSeq DEF VoteIInv
    <2> HIDE DEF Cast0
    <2> QED
      BY <2>1, <2>2 DEF VoteBounds, VoteIInv, Vote!TypeOK
  <1>1. Vote!TypeOK'
    BY VoteStep DEF VoteIInv
  <1>2. ASSUME announced # {}, VoteInTime' = VoteInTime, announced' = announced,
               \A b \in VoteInTime : anchor'[b] = anchor[b],
               UNCHANGED <<secret, tiebreak, closeHeight>>, peak' >= peak
        PROVE  /\ (closeHeight # 0 /\ peak >= Vote!lastAnchorHeight + Confirmations)'
               /\ (\A t \in announced : t = VoteResult("tallied", VoteStands))'
    <2>1. (VoteResult("tallied", VoteStands))' = VoteResult("tallied", VoteStands)
      BY <1>2, VoteStandsStill
    <2>2. peak' \in Nat
      BY <1>1 DEF Vote!TypeOK
    <2> QED
      BY <1>0, <1>2, <2>1, <2>2, VoteFrozen DEF VoteIInv, Vote!lastAnchorHeight
  <1>3. ASSUME NEW b \in Ballot, Vote!Cast(b) PROVE VoteIInv'
    <2>1. /\ cast' = Append(cast, b) /\ b \notin Cast0
          /\ UNCHANGED <<secret, tiebreak, tipHeight, peak, closeHeight, anchor, announced>>
      BY <1>0, <1>3, LenProperties DEF Vote!Cast, Vote!Contains, Vote!poll, Vote!chain
    <2>2. cast' \in Seq(Ballot) /\ Cast0' = Cast0 \union {b}
      <3>1. /\ Len(cast) \in Nat /\ DOMAIN cast = 1 .. Len(cast)
            /\ cast' \in Seq(Ballot) /\ DOMAIN cast' = 1 .. Len(cast) + 1
            /\ cast'[Len(cast) + 1] = b /\ \A i \in 1 .. Len(cast) : cast'[i] = cast[i]
        BY <1>0, <2>1, AppendProperties, LenProperties
      <3>2. 1 .. Len(cast) + 1 = 1 .. Len(cast) \union {Len(cast) + 1}
        BY <3>1
      <3> QED
        BY <3>1, <3>2
    <2>3. anchor[b] = 0
      BY <2>1 DEF VoteIInv
    <2>4. VoteInTime' = VoteInTime
      BY <2>1, <2>2, <2>3 DEF VoteInTime, Vote!inTime, Vote!Unknown, Vote!lastAnchorHeight
    <2>5. \A c \in Ballot : anchor'[c] # 0 => c \in Cast0'
      BY <2>1, <2>2 DEF VoteIInv
    <2>6. CASE announced = {}
      BY <1>0, <1>1, <2>1, <2>2, <2>5, <2>6 DEF VoteIInv
    <2>7. CASE announced # {}
      <3>1. /\ (closeHeight # 0 /\ peak >= Vote!lastAnchorHeight + Confirmations)'
            /\ (\A t \in announced : t = VoteResult("tallied", VoteStands))'
        BY <1>0, <1>2, <2>1, <2>4, <2>7
      <3> QED
        BY <1>0, <1>1, <2>1, <2>2, <2>5, <3>1 DEF VoteIInv
    <2> QED
      BY <2>6, <2>7
  <1>4. CASE Vote!Mine
    <2>1. PICK S \in SUBSET {b \in Cast0 : anchor[b] = 0} :
             anchor' = [b \in Ballot |-> IF b \in S THEN tipHeight' ELSE anchor[b]]
      BY <1>4 DEF Vote!Mine, Vote!ToSet, Vote!Unknown
    <2>2. /\ tipHeight' = tipHeight + 1 /\ cast' = cast /\ announced' = announced
          /\ UNCHANGED <<secret, tiebreak>>
          /\ closeHeight' = closeHeight \/ closeHeight = 0
          /\ peak' = Vote!Max({peak, tipHeight'})
      BY <1>4 DEF Vote!Mine, Vote!Unknown, Vote!poll
    <2>3. peak' \in {peak, tipHeight + 1} /\ peak <= peak' /\ tipHeight' >= peak' - Confirmations
      <3>1. tipHeight + 1 \in Nat /\ peak' = Vote!Max({peak, tipHeight + 1})
        BY <1>0, <2>2
      <3>2. peak' \in {peak, tipHeight + 1} /\ peak <= peak'
        BY <1>0, <3>1, VoteTop
      <3> QED
        BY <1>0, <2>2, <3>2
    <2>4. \A b \in Ballot : anchor'[b] # 0 => b \in Cast0'
      BY <1>0, <2>1, <2>2 DEF VoteIInv
    <2>5. CASE announced = {}
      BY <1>0, <1>1, <2>2, <2>3, <2>4, <2>5 DEF VoteIInv
    <2>6. CASE announced # {}
      <3>1. closeHeight' = closeHeight /\ Vote!lastAnchorHeight' = Vote!lastAnchorHeight
        BY <2>2, <2>6, VoteFrozen DEF Vote!lastAnchorHeight
      <3>2. ASSUME NEW b \in Ballot
            PROVE  /\ Vote!inTime(b)' <=> Vote!inTime(b)
                   /\ Vote!inTime(b) => anchor'[b] = anchor[b]
        <4>1. /\ Vote!inTime(b) <=> anchor[b] # 0 /\ anchor[b] <= Vote!lastAnchorHeight
              /\ Vote!inTime(b)' <=> anchor'[b] # 0 /\ anchor'[b] <= Vote!lastAnchorHeight
          BY <2>6, <3>1, VoteFrozen DEF Vote!inTime, Vote!Unknown
        <4>2. anchor'[b] = IF b \in S THEN tipHeight + 1 ELSE anchor[b]
          BY <2>1, <2>2
        <4>3. b \in S => anchor[b] = 0
          BY <2>1
        <4>4. ~(tipHeight + 1 <= Vote!lastAnchorHeight)
          BY <1>0, <2>6, VoteFrozen
        <4> QED
          BY <4>1, <4>2, <4>3, <4>4
      <3>3. VoteInTime' = VoteInTime /\ \A b \in VoteInTime : anchor'[b] = anchor[b]
        BY <1>0, <2>2, <3>2 DEF VoteInTime
      <3>4. /\ (closeHeight # 0 /\ peak >= Vote!lastAnchorHeight + Confirmations)'
            /\ (\A t \in announced : t = VoteResult("tallied", VoteStands))'
        BY <1>2, <2>2, <2>3, <2>6, <3>1, <3>3
      <3> QED
        BY <1>0, <1>1, <2>2, <2>3, <2>4, <3>4 DEF VoteIInv
    <2> QED
      BY <2>5, <2>6
  <1>5. CASE Vote!Reorg
    <2>1. PICK h \in 1 .. tipHeight - 1 : h >= peak - Confirmations /\ tipHeight' = h
      BY <1>5 DEF Vote!Reorg
    <2>2. /\ anchor' = [b \in Ballot |-> IF anchor[b] > tipHeight' THEN 0 ELSE anchor[b]]
          /\ closeHeight' = IF closeHeight > tipHeight' THEN 0 ELSE closeHeight
          /\ UNCHANGED <<secret, tiebreak, peak, cast, announced>>
      BY <1>5 DEF Vote!Reorg, Vote!Unknown, Vote!poll
    <2>3. h \in Nat /\ tipHeight' = h /\ tipHeight' >= peak' - Confirmations
      BY <1>0, <2>1, <2>2
    <2>4. \A b \in Ballot : anchor'[b] # 0 => b \in Cast0'
      BY <1>0, <2>2 DEF VoteIInv
    <2>5. CASE announced = {}
      BY <1>0, <1>1, <2>2, <2>3, <2>4, <2>5 DEF VoteIInv
    <2>6. CASE announced # {}
      <3>1. Vote!lastAnchorHeight <= h
        BY <1>0, <2>1, <2>6, VoteFrozen
      <3>2. closeHeight' = closeHeight /\ Vote!lastAnchorHeight' = Vote!lastAnchorHeight
        BY <1>0, <2>2, <2>3, <2>6, <3>1, VoteFrozen DEF Vote!lastAnchorHeight
      <3>3. ASSUME NEW b \in Ballot
            PROVE  /\ Vote!inTime(b)' <=> Vote!inTime(b)
                   /\ Vote!inTime(b) => anchor'[b] = anchor[b]
        <4>1. /\ Vote!inTime(b) <=> anchor[b] # 0 /\ anchor[b] <= Vote!lastAnchorHeight
              /\ Vote!inTime(b)' <=> anchor'[b] # 0 /\ anchor'[b] <= Vote!lastAnchorHeight
          BY <2>6, <3>2, VoteFrozen DEF Vote!inTime, Vote!Unknown
        <4>2. anchor'[b] = IF anchor[b] > h THEN 0 ELSE anchor[b]
          BY <2>2, <2>3
        <4>3. anchor[b] \in Nat /\ Vote!lastAnchorHeight \in Nat
          BY <1>0, <2>6, VoteFrozen
        <4> QED
          BY <2>3, <3>1, <4>1, <4>2, <4>3
      <3>4. VoteInTime' = VoteInTime /\ \A b \in VoteInTime : anchor'[b] = anchor[b]
        BY <1>0, <2>2, <3>3 DEF VoteInTime
      <3>5. /\ (closeHeight # 0 /\ peak >= Vote!lastAnchorHeight + Confirmations)'
            /\ (\A t \in announced : t = VoteResult("tallied", VoteStands))'
        BY <1>0, <1>2, <2>2, <2>6, <3>2, <3>4
      <3> QED
        BY <1>0, <1>1, <2>2, <2>3, <2>4, <3>5 DEF VoteIInv
    <2> QED
      BY <2>5, <2>6
  <1>6. CASE Vote!Announce
    <2>1. PICK unread : /\ Vote!tally(cast, unread).state = "tallied"
                        /\ announced' = announced \union {Vote!tally(cast, unread)}
      BY <1>6 DEF Vote!Announce
    <2>2. UNCHANGED <<secret, tiebreak, tipHeight, peak, closeHeight, anchor, cast>>
      BY <1>6 DEF Vote!Announce, Vote!poll, Vote!chain
    <2>3. Vote!anchoredTallyIsFinal /\ Vote!tally(cast, unread) = VoteResult("tallied", VoteStands)
      BY <2>1, VoteFinalIs
    <2>4. (VoteResult("tallied", VoteStands))' = VoteResult("tallied", VoteStands)
      <3>1. VoteInTime' = VoteInTime
        BY <2>2 DEF VoteInTime, Vote!inTime, Vote!lastAnchorHeight
      <3> QED
        BY <2>2, <3>1, VoteStandsStill
    <2>5. (\A t \in announced : t = VoteResult("tallied", VoteStands))'
      BY <2>1, <2>3, <2>4 DEF VoteIInv
    <2>6. (closeHeight # 0 /\ peak >= Vote!lastAnchorHeight + Confirmations)'
      <3>1. closeHeight # 0 /\ tipHeight >= closeHeight + Grace + Confirmations
        BY <2>3 DEF Vote!anchoredTallyIsFinal, Vote!Unknown, Vote!lastAnchorHeight
      <3> QED
        BY <1>0, <2>2, <3>1 DEF Vote!lastAnchorHeight
    <2> QED
      BY <1>0, <1>1, <2>2, <2>5, <2>6 DEF VoteIInv
  <1>7. CASE UNCHANGED voteVars
    <2>1. UNCHANGED <<secret, tiebreak, tipHeight, peak, closeHeight, anchor, cast, announced>>
      BY <1>7 DEF voteVars
    <2>2. VoteInTime' = VoteInTime
      BY <2>1 DEF VoteInTime, Vote!inTime, Vote!lastAnchorHeight
    <2>3. (VoteResult("tallied", VoteStands))' = VoteResult("tallied", VoteStands)
      BY <2>1, <2>2, VoteStandsStill
    <2> QED
      BY <1>1, <2>1, <2>3 DEF VoteIInv, Vote!lastAnchorHeight
  <1> QED
    BY <1>3, <1>4, <1>5, <1>6, <1>7 DEF Vote!Next

LEMMA VoteSameCount == ASSUME NEW ACTION S PROVE Vote!Cardinality(S) = Cardinality(S)
  BY DEF Vote!Cardinality, Cardinality

LEMMA VoteOneResult == ASSUME VoteIInv PROVE Vote!FinalTallyStands
  <1> DEFINE x == VoteResult("tallied", VoteStands)
  <1>1. announced \in SUBSET {x}
    BY DEF VoteIInv
  <1> HIDE DEF x
  <1>2. IsFiniteSet({x}) /\ Cardinality({x}) = 1
    BY FS_Singleton
  <1>3. IsFiniteSet(announced) /\ Cardinality(announced) <= Cardinality({x})
    BY <1>1, <1>2, FS_Subset
  <1>4. Cardinality(announced) \in Nat
    BY <1>3, FS_CardinalityType
  <1> QED
    BY <1>2, <1>3, <1>4, VoteSameCount DEF Vote!FinalTallyStands

(* What a tally says depends on the set of ballots it is passed alone.     *)
LEMMA VoteOfTheBallots == ASSUME VoteBounds, VoteIInv PROVE Vote!TallyIsOrderFree
  <1> DEFINE T == {cast[i] : i \in DOMAIN cast}
             n == Len(cast)
  <1>1. cast \in Seq(Ballot) /\ n \in Nat /\ DOMAIN cast = 1 .. n /\ T \subseteq Ballot
    BY LenProperties, ElementOfSeq DEF VoteIInv
  <1>2. IsFiniteSet(T)
    <2>1. IsFiniteSet(1 .. n)
      BY <1>1, FS_Interval
    <2>2. cast \in Surjection(1 .. n, T)
      BY <1>1 DEF Surjection
    <2> QED
      BY <2>1, <2>2, FS_Surjection
  <1> DEFINE m == Cardinality(T)
  <1>3. m \in Nat
    BY <1>2, FS_CardinalityType
  <1>4. Vote!SetToSeqs(Vote!ToSet(cast))
          = {f \in [1 .. m -> T] : \A i, j \in 1 .. m : i # j => f[i] # f[j]}
    BY VoteSameCount DEF Vote!SetToSeqs, Vote!ToSet
  <1> HIDE DEF m, T
  <1>5. ASSUME NEW s \in [1 .. m -> T], \A i, j \in 1 .. m : i # j => s[i] # s[j]
        PROVE  Vote!tally(s, {}) = Vote!tally(cast, {})
    <2>1. s \in Seq(Ballot) /\ DOMAIN s = 1 .. m
      BY <1>1, <1>3
    <2>2. IsFiniteSet(1 .. m) /\ Cardinality(1 .. m) = m
      BY <1>3, FS_Interval
    <2>3. s \in Injection(1 .. m, T)
      BY <1>5 DEF Injection, IsInjective
    <2>4. s \in Surjection(1 .. m, T)
      BY <1>2, <2>2, <2>3, FS_Injection DEF m
    <2>5. {s[i] : i \in DOMAIN s} = T
      BY <2>1, <2>4 DEF Surjection
    <2>6. ASSUME NEW v \in Voter PROVE Vote!Standing(s, v) = Vote!Standing(cast, v)
      <3>1. Vote!Standing(s, v) = VoteBest(VoteOwn({s[i] : i \in DOMAIN s}, v))
        BY <2>1, VoteStandingIs DEF VoteIInv
      <3>2. Vote!Standing(cast, v) = VoteBest(VoteOwn({cast[i] : i \in DOMAIN cast}, v))
        BY <1>1, VoteStandingIs DEF VoteIInv
      <3> QED
        BY <2>5, <3>1, <3>2 DEF T
    <2>7. UNION {Vote!Standing(s, v) : v \in Voter} = UNION {Vote!Standing(cast, v) : v \in Voter}
      BY <2>6
    <2>8. Vote!Count(s, {}) = Vote!Count(cast, {})
      BY <2>7 DEF Vote!Count
    <2> QED
      BY <2>8 DEF Vote!tally
  <1> QED
    BY <1>4, <1>5 DEF Vote!TallyIsOrderFree

-----------------------------------------------------------------------------
(* DelegatedActions.                                                       *)

(* isSubScope means what it says: what the narrower scope allows, the      *)
(* wider one does.                                                         *)
LEMMA ActsSubScope ==
  ASSUME ActsBounds, NEW c \in ActsScope, NEW g \in ActsScope, Acts!isSubScope(c, g)
  PROVE  Acts!Allowed(c) \subseteq Acts!Allowed(g)
  <1> SUFFICES ASSUME NEW n \in Acts!Allowed(c) PROVE n \in Acts!Allowed(g)
    OBVIOUS
  <1>1. n \in Length /\ n \in Int /\ c.n \in Int /\ g.n \in Int
    <2>1. n \in Length /\ c.n \in ActsNumber /\ g.n \in ActsNumber
      BY DEF ActsScope, Acts!Allowed
    <2> QED
      BY <2>1 DEF ActsBounds, ActsNumber
  <1>2. /\ c.op \in {"none", "*", "=", "!=", "<", "<=", ">", ">="}
        /\ g.op \in {"none", "*", "=", "!=", "<", "<=", ">", ">="}
        /\ -1000 < c.n /\ c.n < 1000 /\ -1000 < g.n /\ g.n < 1000
    BY DEF ActsScope, ActsNumber, Acts!Infinity
  <1>3. CASE g.op \in {"none", "*"}
    BY <1>1, <1>3 DEF Acts!Allowed
  <1>4. CASE g.op = "=" /\ c = g
    BY <1>4
  <1>5. CASE g.op = "!=" /\ ((c.op = "=" /\ c.n # g.n) \/ c = g)
    BY <1>1, <1>5 DEF Acts!Allowed
  <1>6. CASE g.op \in Acts!Ordered /\ Acts!rangeSubset(c, g)
    <2>1. /\ c.op \in {"<", "<=", ">", ">=", "="} /\ g.op \in {"<", "<=", ">", ">="}
          /\ Acts!Lowest(g) <= Acts!Lowest(c) /\ Acts!Highest(c) <= Acts!Highest(g)
      BY <1>6 DEF Acts!rangeSubset, Acts!Ordered
    <2>2. /\ c.op = "=" => n = c.n
          /\ c.op = "<" => n < c.n
          /\ c.op = "<=" => n <= c.n
          /\ c.op = ">" => n > c.n
          /\ c.op = ">=" => n >= c.n
      BY DEF Acts!Allowed
    <2>3. Acts!Lowest(c) <= n \/ c.op \in {"<", "<="}
      BY <1>1, <2>1, <2>2 DEF Acts!Lowest
    <2>4. n <= Acts!Highest(c) \/ c.op \in {">", ">="}
      BY <1>1, <2>1, <2>2 DEF Acts!Highest
    <2>5. CASE g.op = "<"
      <3>1. n < g.n
        BY <1>1, <1>2, <2>1, <2>2, <2>5 DEF Acts!Highest, Acts!Infinity
      <3> QED
        BY <1>1, <2>5, <3>1 DEF Acts!Allowed
    <2>6. CASE g.op = "<="
      <3>1. n <= g.n
        BY <1>1, <1>2, <2>1, <2>2, <2>6 DEF Acts!Highest, Acts!Infinity
      <3> QED
        BY <1>1, <2>6, <3>1 DEF Acts!Allowed
    <2>7. CASE g.op = ">"
      <3>1. n > g.n
        BY <1>1, <1>2, <2>1, <2>2, <2>7 DEF Acts!Lowest, Acts!Infinity
      <3> QED
        BY <1>1, <2>7, <3>1 DEF Acts!Allowed
    <2>8. CASE g.op = ">="
      <3>1. n >= g.n
        BY <1>1, <1>2, <2>1, <2>2, <2>8 DEF Acts!Lowest, Acts!Infinity
      <3> QED
        BY <1>1, <2>8, <3>1 DEF Acts!Allowed
    <2> QED
      BY <2>1, <2>5, <2>6, <2>7, <2>8
  <1> QED
    BY <1>3, <1>4, <1>5, <1>6 DEF Acts!isSubScope

(* The content's own length is within a scope that holds it.               *)
LEMMA ActsContent ==
  ASSUME ActsBounds, action.length \in Length, NEW g \in ActsScope,
         Acts!isSubScope(Acts!contentBoundScope, g)
  PROVE  action.length \in Acts!Allowed(g)
  <1> DEFINE c == Acts!contentBoundScope
             n == action.length
  <1>1. c.op = "=" /\ c.n = n /\ n \in Length /\ n \in Int /\ g.n \in Int
    BY DEF Acts!contentBoundScope, ActsBounds, ActsScope, ActsNumber
  <1>2. /\ g.op \in {"none", "*", "=", "!=", "<", "<=", ">", ">="}
        /\ g.op \in Acts!Ordered => Acts!Lowest(g) <= Acts!Lowest(c)
                                    /\ Acts!Highest(c) <= Acts!Highest(g)
        /\ g.op = "=" => g.n = n
        /\ g.op = "!=" => g.n # n
    BY <1>1 DEF Acts!isSubScope, Acts!rangeSubset, ActsScope, Acts!Ordered
  <1>3. Acts!Lowest(c) = n /\ Acts!Highest(c) = n
    BY <1>1 DEF Acts!Lowest, Acts!Highest
  <1> HIDE DEF c
  <1> QED
    BY <1>1, <1>2, <1>3 DEF Acts!Allowed, Acts!Lowest, Acts!Highest, Acts!Ordered

(* What holds of the last link of a chain, and passes from each link to    *)
(* the one above it, holds of all of them.                                 *)
LEMMA ActsUpTheChain ==
  ASSUME NEW len \in Nat \ {0}, NEW Holds, len \in Holds,
         \A i \in 2 .. len : i \in Holds => i - 1 \in Holds
  PROVE  \A i \in 1 .. len : i \in Holds
  <1> DEFINE Fails == {k \in Nat : k < len /\ len - k \notin Holds}
  <1>1. ASSUME Fails # {} PROVE FALSE
    <2>1. PICK k \in Fails : \A j \in Fails : k <= j
      BY <1>1, LeastNat
    <2>2. k \in Nat /\ k < len /\ len - k \notin Holds /\ k # 0
      BY <2>1
    <2>3. k - 1 \in Nat /\ k - 1 < len /\ k - 1 \notin Fails
      BY <2>1, <2>2
    <2>4. len - (k - 1) \in Holds
      BY <2>3
    <2>5. len - (k - 1) \in 2 .. len /\ len - (k - 1) - 1 = len - k
      BY <2>2
    <2> QED
      BY <2>2, <2>4, <2>5
  <1>2. ASSUME NEW i \in 1 .. len PROVE i \in Holds
    <2>1. len - i \in Nat /\ len - i < len /\ len - (len - i) = i
      BY <1>2
    <2> QED
      BY <1>1, <2>1
  <1> QED
    BY <1>2

-----------------------------------------------------------------------------
(* The chain, its links and the action.                                    *)
LEMMA ActsChain ==
  ASSUME ActsBounds, links \in Chains, action \in Actions
  PROVE  /\ Len(links) \in Nat \ {0} /\ Acts!LinkIds = 1 .. Len(links)
         /\ \A i \in Acts!LinkIds :
              /\ links[i].issued \in Int /\ links[i].expires \in Int
              /\ links[i].scopes \subseteq ActsScope
         /\ action.signed_at \in Int /\ action.claim \in ActsScope
         /\ action.length \in Length /\ action.length \in Int
  <1>1. links \in Seq(ActsLink) /\ links # <<>>
    BY DEF ActsBounds
  <1>2. Len(links) \in Nat \ {0} /\ Acts!LinkIds = 1 .. Len(links)
    BY <1>1, EmptySeq, LenProperties DEF Acts!LinkIds
  <1>3. \A i \in Acts!LinkIds : links[i] \in ActsLink
    BY <1>1, <1>2
  <1>4. /\ action.signed_at \in Int /\ action.claim \in ActsScope
        /\ action.length \in Length /\ action.length \in Int
    BY DEF ActsBounds
  <1> QED
    BY <1>2, <1>3, <1>4 DEF ActsLink

(* What a chain grants at its end it grants at its root: in time and in    *)
(* scope, however many links narrow it.                                    *)
LEMMA ActsGrantedByAll ==
  ASSUME ActsBounds, links \in Chains, action \in Actions, Acts!Granted
  PROVE  /\ \A i \in Acts!LinkIds : Acts!In(action.signed_at, links[i])
         /\ \E g \in links[1].scopes :
              Acts!Allowed(action.claim) \union {action.length} \subseteq Acts!Allowed(g)
  <1> DEFINE len == Len(links)
             Inside(i) == \E g \in links[i].scopes :
                Acts!Allowed(action.claim) \union {action.length} \subseteq Acts!Allowed(g)
  <1>1. len \in Nat \ {0} /\ Acts!LinkIds = 1 .. len
    BY ActsChain
  <1>2. ASSUME NEW i \in 2 .. len
        PROVE  /\ links[i - 1].issued <= links[i].issued
               /\ links[i].expires <= links[i - 1].expires
               /\ \A c \in links[i].scopes : \E p \in links[i - 1].scopes : Acts!isSubScope(c, p)
    BY <1>1 DEF Acts!Granted, Acts!verifyChainLink
  <1>3. \A i \in 2 .. len : i \in 1 .. len /\ i - 1 \in 1 .. len
    BY <1>1
  <1>4. \A i \in 1 .. len : i \in {k \in 1 .. len : Acts!In(action.signed_at, links[k])}
    <2> DEFINE Holds == {k \in 1 .. len : Acts!In(action.signed_at, links[k])}
    <2>1. len \in Holds
      BY <1>1 DEF Acts!Granted, Acts!Leaf
    <2>2. ASSUME NEW i \in 2 .. len, i \in Holds PROVE i - 1 \in Holds
      <3>1. Acts!In(action.signed_at, links[i])
        BY <2>2
      <3>2. /\ links[i].issued \in Int /\ links[i].expires \in Int
            /\ links[i - 1].issued \in Int /\ links[i - 1].expires \in Int
            /\ action.signed_at \in Int
        BY <1>1, <1>3, ActsChain
      <3>3. Acts!In(action.signed_at, links[i - 1])
        BY <1>2, <3>1, <3>2 DEF Acts!In
      <3> QED
        BY <1>3, <3>3
    <2> HIDE DEF Holds
    <2>3. \A i \in 1 .. len : i \in Holds
      BY <1>1, <2>1, <2>2, ActsUpTheChain
    <2> QED
      BY <2>3 DEF Holds
  <1>5. \A i \in 1 .. len : i \in {k \in 1 .. len : Inside(k)}
    <2> DEFINE Holds == {k \in 1 .. len : Inside(k)}
    <2>1. len \in Holds
      <3>1. PICK g \in links[len].scopes :
               Acts!isSubScope(action.claim, g) /\ Acts!isSubScope(Acts!contentBoundScope, g)
        BY DEF Acts!Granted, Acts!Contained, Acts!Leaf
      <3>2. g \in ActsScope /\ action.claim \in ActsScope /\ len \in 1 .. len
        BY <1>1, ActsChain
      <3>3. Acts!Allowed(action.claim) \subseteq Acts!Allowed(g)
        BY <3>1, <3>2, ActsSubScope
      <3>4. action.length \in Acts!Allowed(g)
        BY <3>1, <3>2, ActsChain, ActsContent
      <3> QED
        BY <3>2, <3>3, <3>4
    <2>2. ASSUME NEW i \in 2 .. len, i \in Holds PROVE i - 1 \in Holds
      <3>1. PICK c \in links[i].scopes :
               Acts!Allowed(action.claim) \union {action.length} \subseteq Acts!Allowed(c)
        BY <2>2
      <3>2. PICK p \in links[i - 1].scopes : Acts!isSubScope(c, p)
        BY <1>2
      <3>3. c \in ActsScope /\ p \in ActsScope
        BY <1>1, <1>3, ActsChain
      <3>4. Acts!Allowed(c) \subseteq Acts!Allowed(p)
        BY <3>2, <3>3, ActsSubScope
      <3> QED
        BY <1>3, <3>1, <3>4
    <2> HIDE DEF Holds
    <2>3. \A i \in 1 .. len : i \in Holds
      BY <1>1, <2>1, <2>2, ActsUpTheChain
    <2> QED
      BY <2>3 DEF Holds
  <1> QED
    BY <1>1, <1>4, <1>5

-----------------------------------------------------------------------------
(* The inductive invariant: a request that has passed was checked against  *)
(* what it had read, and the answer it got still stands, however the       *)
(* action is anchored since; the guard remembers what was run.             *)

ActsDelivery ==
    [step : {"idle", "refused", "used"}]
    \union [step : {"fetched"}, read : SUBSET Acts!Revocation]
    \union [step : {"passed"}, read : SUBSET Acts!Revocation, asOf : Int]
    \union [step : {"run"}, read : SUBSET Acts!Revocation, asOf : Int, at : Int]

ActsTypes ==
    /\ date \in 0 .. LastDate
    /\ links \in Chains /\ action \in Actions /\ anchored \in Block \union {0}
    /\ revocations \subseteq Acts!Revocation
    /\ keepUntil \in {Acts!Unknown} \union Int
    /\ request \in [Request -> ActsDelivery]

ActsPassed(r) ==
    /\ Acts!verifyActionAsOfSignedAt(r.read)
    /\ \A i \in Acts!LinkIds : Acts!In(r.asOf, links[i])
    /\ \A v \in Acts!Cites(r.read) : ~Acts!InEffect(v, r.asOf)

ActsChecked(q) == request[q].step \in {"passed", "run"} => ActsPassed(request[q])

ActsIInv ==
    /\ ActsTypes
    /\ \A q \in Request : ActsChecked(q)
    /\ Acts!Run # {} => keepUntil = action.signed_at + GuardSkew
    /\ Acts!RepeatIsLate

LEMMA ActsInit == ASSUME ActsBounds, Acts!Init PROVE ActsIInv
  <1>1. request = [q \in Request |-> [step |-> "idle"]]
    BY DEF Acts!Init, Acts!Idle
  <1>2. ActsTypes
    BY <1>1 DEF Acts!Init, ActsTypes, ActsDelivery, ActsBounds
  <1>3. Acts!Run = {}
    BY <1>1 DEF Acts!Run
  <1> QED
    BY <1>1, <1>2, <1>3 DEF ActsIInv, ActsChecked, Acts!RepeatIsLate

(* What was not revoked as read stays so when the action is anchored.      *)
LEMMA ActsPassedStays ==
  ASSUME UNCHANGED <<links, action>>, anchored' = anchored \/ anchored = 0,
         NEW r, r.read \subseteq Acts!Revocation, ActsPassed(r)
  PROVE  ActsPassed(r)'
  <1>1. ASSUME NEW v \in Acts!Cites(r.read)
        PROVE  v.height = 0 /\ ~Acts!revocationPrecedes(v)
    BY <1>1 DEF ActsPassed, Acts!InEffect, Acts!verifyActionAsOfSignedAt
  <1>2. \A v \in Acts!Cites(r.read) : ~Acts!revocationPrecedes(v)'
    BY <1>1 DEF Acts!revocationPrecedes
  <1>3. Acts!Granted' = Acts!Granted /\ Acts!LinkIds' = Acts!LinkIds
    BY DEF Acts!Granted, Acts!LinkIds, Acts!Leaf, Acts!Contained, Acts!contentBoundScope
  <1>4. Acts!Cites(r.read)' = Acts!Cites(r.read)
    BY <1>3 DEF Acts!Cites
  <1> QED
    BY <1>1, <1>2, <1>3, <1>4 DEF ActsPassed, Acts!verifyActionAsOfSignedAt, Acts!Cites,
                                  Acts!LinkIds

(* A step that leaves the requests and the guard as they were.             *)
LEMMA ActsOutside ==
  ASSUME ActsIInv, UNCHANGED <<links, action, request, keepUntil>>,
         anchored' = anchored \/ (anchored = 0 /\ anchored' \in Block),
         date' \in 0 .. LastDate, revocations' \subseteq Acts!Revocation
  PROVE  ActsIInv'
  <1>1. ActsTypes'
    BY DEF ActsIInv, ActsTypes
  <1>2. ASSUME NEW q \in Request, request[q].step \in {"passed", "run"}
        PROVE  ActsPassed(request[q])'
    <2>1. request[q].read \subseteq Acts!Revocation
      BY <1>2 DEF ActsIInv, ActsTypes, ActsDelivery
    <2>2. ActsPassed(request[q])
      BY <1>2 DEF ActsIInv, ActsChecked
    <2> QED
      BY <2>1, <2>2, ActsPassedStays
  <1>3. Acts!Run' = Acts!Run
    BY DEF Acts!Run
  <1> QED
    BY <1>1, <1>2, <1>3 DEF ActsIInv, ActsChecked, Acts!RepeatIsLate

(* A step of one request to one that has not run.                          *)
LEMMA ActsBecomes ==
  ASSUME ActsIInv, NEW q \in Request, NEW r \in ActsDelivery, Acts!Becomes(q, r),
         UNCHANGED <<date, links, action, anchored, revocations, keepUntil>>,
         request[q].step # "run", r.step # "run",
         r.step = "passed" => ActsPassed(r)
  PROVE  ActsIInv'
  <1>1. /\ request'[q] = r /\ request' \in [Request -> ActsDelivery]
        /\ \A p \in Request \ {q} : request'[p] = request[p]
    BY DEF ActsIInv, ActsTypes, Acts!Becomes
  <1>2. ActsTypes'
    BY <1>1 DEF ActsIInv, ActsTypes
  <1>3. ASSUME NEW x, ActsPassed(x) PROVE ActsPassed(x)'
    BY <1>3 DEF ActsPassed, Acts!verifyActionAsOfSignedAt, Acts!Cites, Acts!LinkIds, Acts!Granted,
           Acts!Leaf, Acts!Contained, Acts!contentBoundScope, Acts!revocationPrecedes
  <1>4. ASSUME NEW p \in Request PROVE ActsChecked(p)'
    <2>1. CASE p = q
      <3>1. r.step = "passed" => ActsPassed(r)'
        BY <1>3
      <3> QED
        BY <1>1, <2>1, <3>1 DEF ActsChecked
    <2>2. CASE p # q
      <3>1. ActsChecked(p) /\ request'[p] = request[p]
        BY <1>1, <2>2 DEF ActsIInv
      <3>2. ActsPassed(request[p]) => ActsPassed(request[p])'
        BY <1>3, <3>1
      <3> QED
        BY <3>1, <3>2 DEF ActsChecked
    <2> QED
      BY <2>1, <2>2
  <1>5. Acts!Run' = Acts!Run /\ \A p \in Acts!Run : request'[p] = request[p]
    BY <1>1 DEF Acts!Run
  <1> QED
    BY <1>2, <1>4, <1>5 DEF ActsIInv, Acts!RepeatIsLate

(* A request that is run is remembered, and is not the first only if the   *)
(* guard's time is over.                                                   *)
LEMMA ActsFirstUse ==
  ASSUME ActsBounds, ActsIInv, NEW q \in Request, Acts!firstUse(q)
  PROVE  ActsIInv'
  <1> DEFINE used == [step |-> "used"]
             run  == [step |-> "run", read |-> request[q].read, asOf |-> request[q].asOf,
                      at |-> date]
  <1>0. /\ request[q].step = "passed" /\ date \in Int
        /\ request[q].read \in SUBSET Acts!Revocation /\ request[q].asOf \in Int
        /\ UNCHANGED <<date, links, action, anchored, revocations>>
    BY DEF Acts!firstUse, ActsIInv, ActsTypes, ActsDelivery, ActsBounds, Acts!signed
  <1>1. CASE Acts!Remembered
    <2>1. Acts!Becomes(q, used) /\ UNCHANGED keepUntil
      BY <1>1 DEF Acts!firstUse
    <2>2. used \in ActsDelivery /\ used.step = "used"
      BY DEF ActsDelivery
    <2> QED
      BY <1>0, <2>1, <2>2, ActsBecomes
  <1>2. CASE ~Acts!Remembered
    <2>1. /\ request' = [request EXCEPT ![q] = run]
          /\ keepUntil' = action.signed_at + GuardSkew
      BY <1>2 DEF Acts!firstUse, Acts!Runs, Acts!Becomes
    <2>2. run \in ActsDelivery /\ action.signed_at + GuardSkew \in Int
      BY <1>0, ActsChain DEF ActsDelivery, ActsIInv, ActsTypes, ActsBounds
    <2>3. /\ request'[q] = run /\ request' \in [Request -> ActsDelivery]
          /\ \A p \in Request \ {q} : request'[p] = request[p]
      BY <2>1, <2>2 DEF ActsIInv, ActsTypes
    <2>4. ActsTypes'
      BY <1>0, <2>1, <2>2, <2>3 DEF ActsIInv, ActsTypes
    <2>5. ASSUME NEW x, ActsPassed(x) PROVE ActsPassed(x)'
      BY <1>0, <2>5 DEF ActsPassed, Acts!verifyActionAsOfSignedAt, Acts!Cites, Acts!LinkIds,
             Acts!Granted, Acts!Leaf, Acts!Contained, Acts!contentBoundScope,
             Acts!revocationPrecedes
    <2>6. ActsPassed(request[q]) => ActsPassed(run)
      BY DEF ActsPassed
    <2>7. ASSUME NEW p \in Request PROVE ActsChecked(p)'
      <3>1. ActsChecked(p) /\ ActsChecked(q)
        BY DEF ActsIInv
      <3>2. CASE p = q
        <4>1. ActsPassed(run)
          BY <1>0, <2>6, <3>1 DEF ActsChecked
        <4> HIDE DEF run
        <4> QED
          BY <2>3, <2>5, <3>2, <4>1 DEF ActsChecked
      <3>3. CASE p # q
        <4>1. request'[p] = request[p]
          BY <2>3, <3>3
        <4>2. ActsPassed(request[p]) => ActsPassed(request[p])'
          BY <2>5, <4>1
        <4> QED
          BY <3>1, <4>1, <4>2 DEF ActsChecked
      <3> QED
        BY <3>2, <3>3
    <2>8. /\ Acts!Run' = Acts!Run \union {q} /\ q \notin Acts!Run
          /\ \A p \in Acts!Run : request'[p] = request[p]
      BY <1>0, <2>3 DEF Acts!Run
    <2>9. Acts!Run # {} => request'[q].at >= action.signed_at + GuardSkew
      <3>1. Acts!Run # {} => ~(action.signed_at + GuardSkew > date)
        BY <1>2 DEF ActsIInv, Acts!Remembered
      <3> QED
        BY <1>0, <2>2, <2>3, <3>1
    <2>10. Acts!RepeatIsLate'
      <3>1. ASSUME NEW p \in Acts!Run', NEW u \in Acts!Run', p # u
            PROVE  \E r \in {p, u} : request'[r].at >= action.signed_at + GuardSkew
        BY <2>8, <2>9, <3>1 DEF ActsIInv, Acts!RepeatIsLate
      <3> QED
        BY <1>0, <3>1 DEF Acts!RepeatIsLate
    <2> QED
      BY <1>0, <2>1, <2>4, <2>7, <2>10 DEF ActsIInv
  <1> QED
    BY <1>1, <1>2

(* The invariant is preserved.                                             *)
LEMMA ActsStep ==
  ASSUME ActsBounds, ActsIInv, Acts!Next \/ UNCHANGED actVars
  PROVE  ActsIInv'
  <1>0. date \in 0 .. LastDate /\ LastDate \in Nat /\ revocations \subseteq Acts!Revocation
    BY DEF ActsIInv, ActsTypes, ActsBounds
  <1>1. ASSUME NEW r \in Acts!Revocation, Acts!Revoke(r) PROVE ActsIInv'
    BY <1>0, <1>1, ActsOutside DEF Acts!Revoke, Acts!signed
  <1>2. ASSUME NEW h \in Block, Acts!Anchor(h) PROVE ActsIInv'
    BY <1>0, <1>2, ActsOutside DEF Acts!Anchor, Acts!signed
  <1>3. ASSUME Acts!Tick PROVE ActsIInv'
    <2>1. date' \in 0 .. LastDate
      BY <1>0, <1>3 DEF Acts!Tick
    <2> QED
      BY <1>0, <1>3, <2>1, ActsOutside DEF Acts!Tick, Acts!signed
  <1>4. ASSUME NEW q \in Request, Acts!Fetch(q) PROVE ActsIInv'
    <2> DEFINE r == [step |-> "fetched", read |-> revocations]
    <2>1. r \in ActsDelivery /\ r.step = "fetched"
      BY <1>0 DEF ActsDelivery
    <2> QED
      BY <1>4, <2>1, ActsBecomes DEF Acts!Fetch, Acts!signed
  <1>5. ASSUME NEW q \in Request, Acts!Verify(q) PROVE ActsIInv'
    <2> DEFINE read == request[q].read
               passed == [step |-> "passed", read |-> read, asOf |-> date]
               refused == [step |-> "refused"]
    <2>1. request[q].step = "fetched" /\ read \in SUBSET Acts!Revocation
      BY <1>5 DEF Acts!Verify, ActsIInv, ActsTypes, ActsDelivery
    <2>2. UNCHANGED <<date, links, action, anchored, revocations, keepUntil>>
      BY <1>5 DEF Acts!Verify, Acts!signed
    <2>3. CASE Acts!verifyAction(read, date)
      <3>1. Acts!Becomes(q, passed)
        BY <1>5, <2>3 DEF Acts!Verify
      <3>2. passed \in ActsDelivery /\ passed.step = "passed"
        BY <1>0, <2>1 DEF ActsDelivery
      <3>3. ActsPassed(passed)
        BY <2>3 DEF ActsPassed, Acts!verifyAction
      <3> HIDE DEF passed
      <3> QED
        BY <2>1, <2>2, <3>1, <3>2, <3>3, ActsBecomes
    <2>4. CASE ~Acts!verifyAction(read, date)
      <3>1. Acts!Becomes(q, refused)
        BY <1>5, <2>4 DEF Acts!Verify
      <3>2. refused \in ActsDelivery /\ refused.step = "refused"
        BY DEF ActsDelivery
      <3> QED
        BY <2>1, <2>2, <3>1, <3>2, ActsBecomes
    <2> QED
      BY <2>3, <2>4
  <1>6. CASE UNCHANGED actVars
    BY <1>0, <1>6, ActsOutside DEF actVars
  <1> QED
    BY <1>1, <1>2, <1>3, <1>4, <1>5, <1>6, ActsFirstUse DEF Acts!Next

-----------------------------------------------------------------------------
(* What follows from it.                                                   *)

LEMMA ActsAllGranted == ASSUME ActsBounds, ActsIInv PROVE Acts!ActsAreGranted
  <1> SUFFICES ASSUME NEW q \in Acts!Run
               PROVE  /\ \E g \in links[1].scopes :
                           Acts!Allowed(action.claim) \union {action.length}
                             \subseteq Acts!Allowed(g)
                      /\ \A i \in Acts!LinkIds : /\ Acts!In(action.signed_at, links[i])
                                                 /\ Acts!In(request[q].asOf, links[i])
                      /\ \A r \in request[q].read :
                           r.link \in Acts!LinkIds => request[q].asOf < r.signed_at
    BY DEF Acts!ActsAreGranted
  <1>1. /\ ActsPassed(request[q]) /\ request[q].read \subseteq Acts!Revocation
        /\ request[q].asOf \in Int
    BY DEF Acts!Run, ActsIInv, ActsChecked, ActsTypes, ActsDelivery
  <1>2. Acts!Granted
    BY <1>1 DEF ActsPassed, Acts!verifyActionAsOfSignedAt
  <1>3. ASSUME NEW r \in request[q].read, r.link \in Acts!LinkIds
        PROVE  request[q].asOf < r.signed_at
    <2>1. ~(r.signed_at <= request[q].asOf)
      BY <1>1, <1>3 DEF ActsPassed, Acts!Cites, Acts!InEffect
    <2>2. r.signed_at \in Int
      BY <1>1, <1>3 DEF Acts!Revocation
    <2> QED
      BY <1>1, <2>1, <2>2
  <1> QED
    BY <1>1, <1>2, <1>3, ActsGrantedByAll DEF ActsPassed, ActsIInv, ActsTypes

LEMMA ActsUpheld == ASSUME ActsBounds, ActsIInv PROVE Acts!AuditUpholdsActs
  <1> SUFFICES ASSUME NEW q \in Acts!Run,
                      \A r \in Acts!Cites(revocations) \ request[q].read :
                        ~(r.confirmed \/ r.signed_at <= action.signed_at)
               PROVE  Acts!verifyActionAsOfSignedAt(revocations)
    BY DEF Acts!AuditUpholdsActs
  <1>1. ActsPassed(request[q]) /\ revocations \subseteq Acts!Revocation
    BY DEF Acts!Run, ActsIInv, ActsChecked, ActsTypes
  <1>2. ASSUME NEW r \in Acts!Cites(revocations) PROVE ~Acts!revocationPrecedes(r)
    <2>1. CASE r \in request[q].read
      BY <1>1, <2>1 DEF ActsPassed, Acts!Cites, Acts!verifyActionAsOfSignedAt
    <2>2. CASE r \notin request[q].read
      BY <1>1, <2>2 DEF Acts!Cites, Acts!Revocation, Acts!revocationPrecedes
    <2> QED
      BY <2>1, <2>2
  <1> QED
    BY <1>1, <1>2 DEF ActsPassed, Acts!verifyActionAsOfSignedAt

-----------------------------------------------------------------------------
(* ChannelGovernance: versions, each on an earlier one, are a forest.      *)

ChannelVersion ==
    [supersedes : Nat, before : SUBSET Nat, inbox : Key, admins : SUBSET Admin,
     closed : BOOLEAN, signers : SUBSET Key]

ChannelTree(V) ==
    /\ V \in Seq(ChannelVersion)
    /\ \A i \in DOMAIN V :
         /\ V[i].supersedes \in 0 .. i - 1
         /\ V[i].before = IF V[i].supersedes = 0 THEN {}
                          ELSE Channel!Chain(V, V[i].supersedes)

LEMMA ChannelIds ==
  ASSUME NEW V, ChannelTree(V)
  PROVE  /\ Len(V) \in Nat /\ DOMAIN V = 1 .. Len(V)
         /\ \A i \in DOMAIN V :
              /\ i \in Nat /\ V[i] \in ChannelVersion
              /\ V[i].supersedes \in Nat /\ V[i].supersedes < i
              /\ V[i].supersedes # 0 => V[i].supersedes \in DOMAIN V
              /\ V[i].before = IF V[i].supersedes = 0 THEN {}
                               ELSE Channel!Chain(V, V[i].supersedes)
              /\ i \in Channel!Chain(V, i)
              /\ V[i].supersedes = 0 => Channel!Chain(V, i) = {i}
              /\ V[i].supersedes # 0 =>
                   Channel!Chain(V, i) = {i} \union Channel!Chain(V, V[i].supersedes)
  <1>1. Len(V) \in Nat /\ DOMAIN V = 1 .. Len(V)
    BY LenProperties DEF ChannelTree
  <1>2. ASSUME NEW i \in DOMAIN V
        PROVE  /\ i \in Nat /\ V[i] \in ChannelVersion
               /\ V[i].supersedes \in Nat /\ V[i].supersedes < i
               /\ V[i].supersedes # 0 => V[i].supersedes \in DOMAIN V
    <2>1. V[i].supersedes \in 0 .. i - 1 /\ i \in 1 .. Len(V)
      BY <1>1 DEF ChannelTree
    <2> QED
      BY <1>1, <2>1 DEF ChannelTree
  <1> QED
    BY <1>1, <1>2 DEF ChannelTree, Channel!Chain

(* What holds of a version whenever it holds of the one it supersedes      *)
(* holds of every version.                                                 *)
LEMMA ChannelInduction ==
  ASSUME NEW V, ChannelTree(V), NEW Holds,
         \A i \in DOMAIN V :
            (V[i].supersedes # 0 => V[i].supersedes \in Holds) => i \in Holds
  PROVE  DOMAIN V \subseteq Holds
  <1> DEFINE Fails == DOMAIN V \ Holds
  <1> SUFFICES ASSUME Fails # {} PROVE FALSE
    OBVIOUS
  <1>1. Fails \subseteq Nat
    BY ChannelIds
  <1>2. PICK i \in Fails : \A j \in Fails : i <= j
    BY <1>1, LeastNat
  <1>3. V[i].supersedes # 0 /\ V[i].supersedes \notin Holds
    BY <1>2
  <1>4. /\ V[i].supersedes \in DOMAIN V /\ V[i].supersedes < i
        /\ V[i].supersedes \in Nat /\ i \in Nat
    BY <1>2, <1>3, ChannelIds
  <1>5. V[i].supersedes \in Fails
    BY <1>3, <1>4
  <1> QED
    BY <1>2, <1>4, <1>5

(* A chain ends at its version, and holds the chains of what it holds.     *)
LEMMA ChannelChain ==
  ASSUME NEW V, ChannelTree(V), NEW i \in DOMAIN V
  PROVE  \A a \in Channel!Chain(V, i) :
            /\ a \in DOMAIN V /\ a <= i /\ a \in Nat
            /\ Channel!Chain(V, a) \subseteq Channel!Chain(V, i)
            /\ V[a].supersedes # 0 => V[a].supersedes \in Channel!Chain(V, i)
  <1> DEFINE Good(j) == \A a \in Channel!Chain(V, j) :
                 a \in DOMAIN V /\ a <= j /\ Channel!Chain(V, a) \subseteq Channel!Chain(V, j)
             Holds == {j \in DOMAIN V : Good(j)}
  <1>1. ASSUME NEW j \in DOMAIN V, V[j].supersedes # 0 => V[j].supersedes \in Holds
        PROVE  j \in Holds
    <2>1. CASE V[j].supersedes = 0
      <3>1. Channel!Chain(V, j) = {j} /\ j \in Nat
        BY <2>1, ChannelIds
      <3> QED
        BY <3>1
    <2>2. CASE V[j].supersedes # 0
      <3> DEFINE p == V[j].supersedes
      <3>1. p \in DOMAIN V /\ p < j /\ Good(p) /\ p \in Nat /\ j \in Nat
        BY <1>1, <2>2, ChannelIds
      <3>2. Channel!Chain(V, j) = {j} \union Channel!Chain(V, p)
        BY <2>2, ChannelIds
      <3>3. ASSUME NEW a \in Channel!Chain(V, p)
            PROVE  a \in DOMAIN V /\ a <= j /\ Channel!Chain(V, a) \subseteq Channel!Chain(V, j)
        <4>1. a \in DOMAIN V /\ a <= p
          BY <3>1
        <4>2. a \in Nat
          BY <4>1, ChannelIds
        <4> QED
          BY <3>1, <3>2, <4>1, <4>2
      <3> QED
        BY <3>1, <3>2, <3>3
    <2> QED
      BY <2>1, <2>2
  <1>2. \A j \in DOMAIN V : (V[j].supersedes # 0 => V[j].supersedes \in Holds) => j \in Holds
    BY <1>1
  <1> HIDE DEF Holds
  <1>3. DOMAIN V \subseteq Holds
    BY <1>2, ChannelInduction
  <1>4. Good(i)
    BY <1>3 DEF Holds
  <1>5. ASSUME NEW a \in Channel!Chain(V, i)
        PROVE  /\ a \in Nat
               /\ V[a].supersedes # 0 => V[a].supersedes \in Channel!Chain(V, i)
    <2>1. a \in DOMAIN V /\ Channel!Chain(V, a) \subseteq Channel!Chain(V, i)
      BY <1>4
    <2>2. V[a].supersedes # 0 => V[a].supersedes \in DOMAIN V
                                 /\ V[a].supersedes \in Channel!Chain(V, a)
      BY <2>1, ChannelIds
    <2> QED
      BY <2>1, <2>2, ChannelIds
  <1> QED
    BY <1>4, <1>5

(* One version of a chain supersedes another of its versions, and one only.*)
LEMMA ChannelSuccessor ==
  ASSUME NEW V, ChannelTree(V), NEW i \in DOMAIN V
  PROVE  /\ \A a \in Channel!Chain(V, i) \ {i} :
              \E c \in Channel!Chain(V, i) : V[c].supersedes = a
         /\ \A a, b \in Channel!Chain(V, i) : V[a].supersedes = V[b].supersedes => a = b
         /\ \E g \in Channel!Chain(V, i) : V[g].supersedes = 0
  <1> DEFINE Good(j) ==
               /\ \A a \in Channel!Chain(V, j) \ {j} :
                    \E c \in Channel!Chain(V, j) : V[c].supersedes = a
               /\ \A a, b \in Channel!Chain(V, j) : V[a].supersedes = V[b].supersedes => a = b
               /\ \E g \in Channel!Chain(V, j) : V[g].supersedes = 0
             Holds == {j \in DOMAIN V : Good(j)}
  <1>1. ASSUME NEW j \in DOMAIN V, V[j].supersedes # 0 => V[j].supersedes \in Holds
        PROVE  j \in Holds
    <2>1. CASE V[j].supersedes = 0
      <3>1. Channel!Chain(V, j) = {j}
        BY <2>1, ChannelIds
      <3> QED
        BY <2>1, <3>1
    <2>2. CASE V[j].supersedes # 0
      <3> DEFINE p == V[j].supersedes
      <3>1. p \in DOMAIN V /\ Good(p) /\ p \in Nat
        BY <1>1, <2>2, ChannelIds
      <3>2. Channel!Chain(V, j) = {j} \union Channel!Chain(V, p)
        BY <2>2, ChannelIds
      <3>3. ASSUME NEW a \in Channel!Chain(V, p) PROVE V[a].supersedes # p
        <4>1. a \in DOMAIN V /\ a <= p /\ a \in Nat
          BY <3>1, ChannelChain
        <4>2. V[a].supersedes < a /\ V[a].supersedes \in Nat
          BY <4>1, ChannelIds
        <4> QED
          BY <3>1, <4>1, <4>2
      <3>4. \A a \in Channel!Chain(V, j) \ {j} :
              \E c \in Channel!Chain(V, j) : V[c].supersedes = a
        <4> SUFFICES ASSUME NEW a \in Channel!Chain(V, p)
                     PROVE  \E c \in Channel!Chain(V, j) : V[c].supersedes = a
          BY <3>2
        <4>1. CASE a = p
          BY <3>2, <4>1
        <4>2. CASE a # p
          BY <3>1, <3>2, <4>2
        <4> QED
          BY <4>1, <4>2
      <3>5. \A a, b \in Channel!Chain(V, j) : V[a].supersedes = V[b].supersedes => a = b
        <4>1. Good(p)
          BY <3>1
        <4> QED
          BY <3>2, <3>3, <4>1
      <3>6. \E g \in Channel!Chain(V, j) : V[g].supersedes = 0
        BY <3>1, <3>2
      <3> QED
        BY <3>4, <3>5, <3>6
    <2> QED
      BY <2>1, <2>2
  <1>2. \A j \in DOMAIN V : (V[j].supersedes # 0 => V[j].supersedes \in Holds) => j \in Holds
    BY <1>1
  <1> HIDE DEF Holds
  <1>3. DOMAIN V \subseteq Holds
    BY <1>2, ChannelInduction
  <1> QED
    BY <1>3 DEF Holds

(* A set of numbers with an upper bound has a greatest one.                *)
LEMMA GreatestNat ==
  ASSUME NEW S, NEW n \in Nat, S # {}, \A x \in S : x \in Nat /\ x <= n
  PROVE  \E x \in S : \A y \in S : y <= x
  <1> DEFINE T == {n - x : x \in S}
  <1>1. T \subseteq Nat /\ T # {}
    OBVIOUS
  <1>2. PICK t \in T : \A u \in T : t <= u
    BY <1>1, LeastNat
  <1>3. PICK x \in S : t = n - x
    BY <1>2
  <1>4. ASSUME NEW y \in S PROVE y <= x
    <2>1. n - x <= n - y
      BY <1>2, <1>3
    <2> QED
      BY <2>1
  <1> QED
    BY <1>4

(* Where the chains of i and j part: j is on the chain of i and is         *)
(* superseded there, or the chains fork, if only at their geneses.         *)
LEMMA ChannelFork ==
  ASSUME NEW V, ChannelTree(V), NEW i \in DOMAIN V, NEW j \in DOMAIN V,
         i \notin Channel!Chain(V, j)
  PROVE  \/ \E c \in Channel!Chain(V, i) : V[c].supersedes = j
         \/ \E a \in Channel!Chain(V, i), b \in Channel!Chain(V, j) :
              a # b /\ V[a].supersedes = V[b].supersedes
  <1> DEFINE Both == Channel!Chain(V, i) \intersect Channel!Chain(V, j)
  <1>1. CASE Both = {}
    <2>1. PICK a \in Channel!Chain(V, i) : V[a].supersedes = 0
      BY ChannelSuccessor
    <2>2. PICK b \in Channel!Chain(V, j) : V[b].supersedes = 0
      BY ChannelSuccessor
    <2> QED
      BY <1>1, <2>1, <2>2
  <1>2. CASE Both # {}
    <2>1. i \in Nat /\ \A a \in Both : a \in Nat /\ a <= i
      BY ChannelChain, ChannelIds
    <2>2. PICK m \in Both : \A a \in Both : a <= m
      BY <1>2, <2>1, GreatestNat
    <2>3. PICK c \in Channel!Chain(V, i) : V[c].supersedes = m
      BY <2>2, ChannelSuccessor
    <2>4. c \in Nat /\ m \in Nat /\ m < c
      <3>1. c \in DOMAIN V
        BY ChannelChain
      <3> QED
        BY <2>3, <3>1, ChannelIds
    <2>5. c \notin Both
      BY <2>2, <2>4
    <2>6. CASE m = j
      BY <2>3, <2>6
    <2>7. CASE m # j
      <3>1. PICK b \in Channel!Chain(V, j) : V[b].supersedes = m
        BY <2>2, <2>7, ChannelSuccessor
      <3> QED
        BY <2>3, <2>5, <3>1
    <2> QED
      BY <2>6, <2>7
  <1> QED
    BY <1>1, <1>2

-----------------------------------------------------------------------------
(* resolveChannelChain, part by part, where every version has a copy that  *)
(* its signer might sign.                                                  *)

ChannelSigned(V) == \A i \in DOMAIN V : Channel!Copies(V, i) # {}

ChannelTips(V, R) == {i \in DOMAIN V : Channel!Copies(V, i) \ R # {}}

ChannelResolving(V, R) == Channel!Resolving(V, ChannelTips(V, R))

ChannelRank(V, R, i) == Channel!Rank(Channel!Copies(V, i), R)

ChannelOverruled(V, R, i) ==
    \E a \in Channel!Chain(V, i), o \in ChannelResolving(V, R) :
        V[o].supersedes = V[a].supersedes /\ ChannelRank(V, R, o) < ChannelRank(V, R, a)

ChannelLeft(V, R) ==
    {i \in ChannelTips(V, R) : /\ \A o \in ChannelResolving(V, R) : V[o].supersedes # i
                               /\ ~ChannelOverruled(V, R, i)}

LEMMA ChannelResolvingIs ==
  ASSUME NEW V, ChannelTree(V), NEW R
  PROVE  /\ ChannelResolving(V, R) \subseteq DOMAIN V
         /\ ChannelTips(V, R) \subseteq ChannelResolving(V, R)
         /\ \A i \in ChannelResolving(V, R) :
              /\ Channel!Chain(V, i) \subseteq ChannelResolving(V, R)
              /\ \E t \in ChannelTips(V, R) : i \in Channel!Chain(V, t)
  <1>1. ChannelTips(V, R) \subseteq DOMAIN V
    BY DEF ChannelTips
  <1>2. ASSUME NEW i \in ChannelResolving(V, R)
        PROVE  /\ i \in DOMAIN V /\ Channel!Chain(V, i) \subseteq ChannelResolving(V, R)
               /\ \E t \in ChannelTips(V, R) : i \in Channel!Chain(V, t)
    <2>1. PICK t \in ChannelTips(V, R) : i \in Channel!Chain(V, t)
      BY DEF ChannelResolving, Channel!Resolving
    <2>2. i \in DOMAIN V /\ Channel!Chain(V, i) \subseteq Channel!Chain(V, t)
      BY <1>1, <2>1, ChannelChain
    <2> QED
      BY <2>1, <2>2 DEF ChannelResolving, Channel!Resolving
  <1>3. ChannelTips(V, R) \subseteq ChannelResolving(V, R)
    BY <1>1, ChannelIds DEF ChannelResolving, Channel!Resolving
  <1> QED
    BY <1>2, <1>3

LEMMA ChannelResolutionIs ==
  ASSUME NEW V, ChannelTree(V), ChannelSigned(V), NEW R
  PROVE  /\ Channel!Resolution(V, R).tips = ChannelTips(V, R)
         /\ DOMAIN Channel!Resolution(V, R).rank = ChannelResolving(V, R)
         /\ \A i \in ChannelResolving(V, R) :
              Channel!Resolution(V, R).rank[i] = ChannelRank(V, R, i)
         /\ Channel!Resolution(V, R).tip =
              IF ChannelLeft(V, R) = {} THEN 0
              ELSE CHOOSE i \in ChannelLeft(V, R) :
                     \A j \in ChannelLeft(V, R) \ {i} : Channel!Beats(V, i, j)
  <1> DEFINE copies    == [i \in DOMAIN V |-> Channel!Copies(V, i)]
             stands    == {i \in DOMAIN V : Channel!Stands(V, copies, i)}
             tips      == {i \in stands : copies[i] \ R # {}}
             resolving == Channel!Resolving(V, tips)
             rank      == [i \in resolving |-> Channel!Rank(copies[i], R)]
             left      == {i \in tips : /\ \A o \in resolving : V[o].supersedes # i
                                        /\ ~Channel!Overruled(V, rank, i)}
             best      == IF left = {} THEN 0
                          ELSE CHOOSE i \in left : \A j \in left \ {i} : Channel!Beats(V, i, j)
  <1>1. Channel!Resolution(V, R) = [tips |-> tips, rank |-> rank, tip |-> best]
    BY DEF Channel!Resolution, Channel!None
  <1>2. stands = DOMAIN V
    BY ChannelChain DEF Channel!Stands, ChannelSigned
  <1> HIDE DEF stands
  <1>3. tips = ChannelTips(V, R)
    BY <1>2 DEF ChannelTips
  <1> HIDE DEF tips
  <1>4. resolving = ChannelResolving(V, R)
    BY <1>3 DEF ChannelResolving
  <1> HIDE DEF resolving
  <1>5. ChannelResolving(V, R) \subseteq DOMAIN V
    BY ChannelResolvingIs
  <1>6. DOMAIN rank = ChannelResolving(V, R)
        /\ \A i \in ChannelResolving(V, R) : rank[i] = ChannelRank(V, R, i)
    BY <1>4, <1>5 DEF ChannelRank
  <1> HIDE DEF rank
  <1>7. \A i \in ChannelTips(V, R) : Channel!Overruled(V, rank, i) <=> ChannelOverruled(V, R, i)
    <2> SUFFICES ASSUME NEW i \in ChannelTips(V, R)
                 PROVE  Channel!Overruled(V, rank, i) <=> ChannelOverruled(V, R, i)
      OBVIOUS
    <2>1. Channel!Chain(V, i) \subseteq ChannelResolving(V, R)
      BY ChannelResolvingIs
    <2> QED
      BY <1>6, <2>1 DEF Channel!Overruled, ChannelOverruled
  <1>8. left = ChannelLeft(V, R)
    BY <1>3, <1>4, <1>7 DEF ChannelLeft
  <1> HIDE DEF left
  <1>9. best = IF ChannelLeft(V, R) = {} THEN 0
               ELSE CHOOSE i \in ChannelLeft(V, R) :
                      \A j \in ChannelLeft(V, R) \ {i} : Channel!Beats(V, i, j)
    BY <1>8
  <1> HIDE DEF best
  <1> QED
    BY <1>1, <1>3, <1>6, <1>9

(* Of any versions one beats all the others.                               *)
LEMMA ChannelBest ==
  ASSUME NEW V, ChannelTree(V), NEW S, S \subseteq DOMAIN V, S # {}, freshest \in BOOLEAN
  PROVE  \E i \in S : \A j \in S \ {i} : Channel!Beats(V, i, j)
  <1> DEFINE n == Len(V)
             depth(i) == Channel!Cardinality(V[i].before)
             Above == IF \E i \in S : V[i].closed THEN {i \in S : V[i].closed} ELSE S
  <1>1. n \in Nat /\ DOMAIN V = 1 .. n
    BY ChannelIds
  <1>2. ASSUME NEW i \in DOMAIN V PROVE depth(i) \in Nat /\ depth(i) <= n
    <2>1. V[i].before \subseteq 1 .. n
      <3>1. CASE V[i].supersedes = 0
        BY <3>1, ChannelIds
      <3>2. CASE V[i].supersedes # 0
        <4>1. V[i].supersedes \in DOMAIN V /\ V[i].before = Channel!Chain(V, V[i].supersedes)
          BY <3>2, ChannelIds
        <4>2. Channel!Chain(V, V[i].supersedes) \subseteq DOMAIN V
          BY <4>1, ChannelChain
        <4> QED
          BY <1>1, <4>1, <4>2
      <3> QED
        BY <3>1, <3>2
    <2>2. IsFiniteSet(1 .. n) /\ Cardinality(1 .. n) = n
      <3>1. 1 \in Int /\ n \in Int /\ (1 > n => n = 0) /\ n - 1 + 1 = n
        BY <1>1
      <3> QED
        BY <3>1, FS_Interval
    <2>3. /\ IsFiniteSet(V[i].before) /\ Cardinality(V[i].before) <= n
          /\ Cardinality(V[i].before) \in Nat
      BY <2>1, <2>2, FS_Subset, FS_CardinalityType
    <2> QED
      BY <2>3 DEF Channel!Cardinality, Cardinality
  <1>3. Above # {} /\ Above \subseteq S
    OBVIOUS
  <1>4. \A i \in Above, j \in S : V[i].closed # V[j].closed => V[i].closed
    <2> SUFFICES ASSUME NEW i \in Above, NEW j \in S, V[i].closed # V[j].closed
                 PROVE  V[i].closed
      OBVIOUS
    <2>1. V[i].closed \in BOOLEAN /\ V[j].closed \in BOOLEAN
      BY <1>3, ChannelIds DEF ChannelVersion
    <2> QED
      BY <2>1
  <1>5. \A i \in S \ Above, j \in Above : V[j].closed /\ ~V[i].closed
    OBVIOUS
  <1> HIDE DEF Above, depth
  <1> DEFINE Depths == {depth(i) : i \in Above}
  <1>6. PICK d \in Depths : \A e \in Depths : e <= d
    <2>1. Depths # {} /\ \A e \in Depths : e \in Nat /\ e <= n
      BY <1>2, <1>3
    <2> QED
      BY <1>1, <2>1, GreatestNat
  <1> DEFINE Deep == {i \in Above : depth(i) = d}
  <1>7. Deep # {} /\ Deep \subseteq Above /\ Deep \subseteq Nat /\ \A i \in Deep : i <= n
    BY <1>1, <1>3, <1>6
  <1>8. PICK i \in Deep : \A j \in Deep \ {i} : (i > j) = freshest
    <2>1. CASE freshest = TRUE
      <3>1. PICK i \in Deep : \A j \in Deep : j <= i
        BY <1>1, <1>7, GreatestNat
      <3>2. \A j \in Deep \ {i} : i > j
        BY <1>7, <3>1
      <3> QED
        BY <2>1, <3>2
    <2>2. CASE freshest = FALSE
      <3>1. PICK i \in Deep : \A j \in Deep : i <= j
        BY <1>7, LeastNat
      <3>2. \A j \in Deep \ {i} : ~(i > j)
        BY <1>7, <3>1
      <3> QED
        BY <2>2, <3>2
    <2> QED
      BY <2>1, <2>2
  <1>9. ASSUME NEW j \in S \ {i} PROVE Channel!Beats(V, i, j)
    <2>1. i \in Above /\ i \in S /\ i \in DOMAIN V /\ j \in DOMAIN V
      BY <1>3, <1>7
    <2>2. V[i].closed # V[j].closed => V[i].closed
      BY <1>4, <2>1
    <2>3. CASE V[i].closed # V[j].closed
      BY <2>2, <2>3 DEF Channel!Beats
    <2>4. CASE V[i].closed = V[j].closed
      <3>1. j \in Above
        BY <1>5, <2>1, <2>4
      <3>2. depth(j) <= d /\ depth(i) = d /\ depth(j) \in Nat /\ d \in Nat
        BY <1>2, <1>6, <2>1, <3>1
      <3>3. depth(i) = depth(j) => (i > j) = freshest
        BY <1>8, <3>1, <3>2
      <3>4. depth(i) # depth(j) => depth(i) > depth(j)
        BY <3>2
      <3> QED
        BY <2>4, <3>3, <3>4 DEF Channel!Beats, depth
    <2> QED
      BY <2>3, <2>4
  <1>10. i \in S
    BY <1>3, <1>7
  <1> QED
    BY <1>9, <1>10

(* The tip is one of the tips left, and beats the others.                  *)
LEMMA ChannelTipIs ==
  ASSUME NEW V, ChannelTree(V), ChannelSigned(V), NEW R, freshest \in BOOLEAN,
         NEW t, t = Channel!Resolution(V, R).tip
  PROVE  /\ t = 0 <=> ChannelLeft(V, R) = {}
         /\ t # 0 => /\ t \in ChannelLeft(V, R)
                     /\ \A j \in ChannelLeft(V, R) \ {t} : Channel!Beats(V, t, j)
  <1>1. ChannelLeft(V, R) \subseteq DOMAIN V
    BY DEF ChannelLeft, ChannelTips
  <1>2. \A i \in DOMAIN V : i # 0
    BY ChannelIds
  <1>3. ChannelLeft(V, R) # {} =>
          /\ t \in ChannelLeft(V, R)
          /\ \A j \in ChannelLeft(V, R) \ {t} : Channel!Beats(V, t, j)
    BY <1>1, ChannelBest, ChannelResolutionIs
  <1> QED
    BY <1>1, <1>2, <1>3, ChannelResolutionIs

(* Beyond a version that resolves and is not overruled there is a tip left.*)
LEMMA ChannelReaches ==
  ASSUME NEW V, ChannelTree(V), NEW R,
         NEW m \in ChannelResolving(V, R), ~ChannelOverruled(V, R, m)
  PROVE  \E t \in ChannelLeft(V, R) : m \in Channel!Chain(V, t)
  <1> DEFINE On == {i \in ChannelResolving(V, R) :
                      m \in Channel!Chain(V, i) /\ ~ChannelOverruled(V, R, i)}
  <1>1. On \subseteq DOMAIN V /\ m \in On
    BY ChannelResolvingIs, ChannelIds
  <1>2. Len(V) \in Nat /\ \A x \in On : x \in Nat /\ x <= Len(V)
    BY <1>1, ChannelIds
  <1>3. PICK t \in On : \A i \in On : i <= t
    BY <1>1, <1>2, GreatestNat
  <1> DEFINE After == {o \in ChannelResolving(V, R) : V[o].supersedes = t}
  <1>4. ASSUME After # {} PROVE FALSE
    <2>1. {ChannelRank(V, R, o) : o \in After} \subseteq Nat
      BY DEF ChannelRank, Channel!Rank
    <2>2. PICK r \in {ChannelRank(V, R, o) : o \in After} :
             \A q \in {ChannelRank(V, R, o) : o \in After} : r <= q
      BY <1>4, <2>1, LeastNat
    <2>3. PICK c \in After : ChannelRank(V, R, c) = r
      BY <2>2
    <2>4. \A o \in After : ~(ChannelRank(V, R, o) < ChannelRank(V, R, c))
      BY <2>1, <2>2, <2>3
    <2>5. /\ c \in DOMAIN V /\ t \in DOMAIN V /\ c \in Nat /\ t \in Nat
          /\ V[c].supersedes = t /\ t < c
      <3>1. c \in DOMAIN V /\ t \in DOMAIN V /\ V[c].supersedes = t
        BY <1>1, <1>3, <2>3, ChannelResolvingIs
      <3> QED
        BY <3>1, ChannelIds
    <2>6. Channel!Chain(V, c) = {c} \union Channel!Chain(V, t)
      BY <2>5, ChannelIds
    <2>7. ~ChannelOverruled(V, R, c)
      BY <1>3, <2>3, <2>4, <2>6 DEF ChannelOverruled
    <2>8. c \in On
      BY <1>3, <2>3, <2>6, <2>7
    <2> QED
      BY <1>3, <2>5, <2>8
  <1>5. t \in ChannelTips(V, R)
    <2>1. PICK x \in ChannelTips(V, R) : t \in Channel!Chain(V, x)
      BY <1>3, ChannelResolvingIs
    <2>2. x \in DOMAIN V
      BY <2>1 DEF ChannelTips
    <2>3. CASE x # t
      <3>1. PICK c \in Channel!Chain(V, x) : V[c].supersedes = t
        BY <2>1, <2>2, <2>3, ChannelSuccessor
      <3>2. c \in After
        BY <2>1, <3>1, ChannelResolvingIs
      <3> QED
        BY <1>4, <3>2
    <2> QED
      BY <2>1, <2>3
  <1> QED
    BY <1>3, <1>4, <1>5 DEF ChannelLeft

-----------------------------------------------------------------------------
(* The inductive invariant: a forest of versions, each with a copy that    *)
(* its signer might sign, and the tip that they resolve to.                *)

ChannelIInv ==
    /\ ChannelTree(version) /\ ChannelSigned(version)
    /\ \A i \in Channel!Id : version[i].inbox \in Channel!OfFounder
    /\ revoked \subseteq Key /\ freshest \in BOOLEAN
    /\ tip = Channel!Resolution(version, revoked).tip

(* W is V with another copy, by k, of a version, or with another version   *)
(* that k signed.                                                          *)
ChannelGrows(V, W, k) ==
    /\ DOMAIN V \subseteq DOMAIN W
    /\ \A i \in DOMAIN V :
         /\ W[i].supersedes = V[i].supersedes /\ W[i].before = V[i].before
         /\ W[i].inbox = V[i].inbox /\ W[i].admins = V[i].admins
         /\ W[i].closed = V[i].closed
         /\ Channel!Copies(V, i) \subseteq Channel!Copies(W, i)
         /\ Channel!Copies(W, i) \subseteq Channel!Copies(V, i) \union {k}
    /\ \A i \in DOMAIN W \ DOMAIN V : Channel!Copies(W, i) = {k}

(* Whoever may sign a version may still sign it when its chain has the     *)
(* content it had.                                                         *)
LEMMA ChannelSameMay ==
  ASSUME NEW V, ChannelTree(V), NEW W, NEW i \in DOMAIN V,
         \A j \in DOMAIN V :
           /\ W[j].supersedes = V[j].supersedes /\ W[j].inbox = V[j].inbox
           /\ W[j].admins = V[j].admins /\ W[j].closed = V[j].closed,
         NEW k
  PROVE  Channel!MaySign(k, W[i], W) <=> Channel!MaySign(k, V[i], V)
  <1>1. V[i].supersedes # 0 => V[i].supersedes \in DOMAIN V
    BY ChannelIds
  <1> QED
    BY <1>1 DEF Channel!MaySign, Channel!AdminMay, Channel!None

LEMMA ChannelSign ==
  ASSUME ChannelIInv, NEW k \in Key, Channel!Sign(k)
  PROVE  /\ ChannelTree(version') /\ ChannelGrows(version, version', k)
         /\ \A i \in DOMAIN version' : version'[i].inbox \in Channel!OfFounder
         /\ \A i \in DOMAIN version : version'[i] = version[i]
         /\ \A i \in DOMAIN version' \ DOMAIN version :
              /\ version'[i].signers = {k}
              /\ k \in Channel!OfFounder
                 \/ \E p \in DOMAIN version : Holder[k] \in version[p].admins
  <1> DEFINE n == Len(version)
  <1>0. PICK s \in Channel!Id \union {0} : \E v \in Channel!Content(k, s) :
           Channel!MaySign(k, v, version) /\ version' = Append(version, v)
    BY DEF Channel!Sign, Channel!None
  <1>1. PICK v \in Channel!Content(k, s) :
           Channel!MaySign(k, v, version) /\ version' = Append(version, v)
    BY <1>0
  <1>2. /\ version \in Seq(ChannelVersion) /\ n \in Nat /\ DOMAIN version = 1 .. n
        /\ ChannelTree(version)
    BY ChannelIds DEF ChannelIInv, ChannelTree
  <1>3. /\ v.supersedes = s /\ v.signers = {k} /\ s \in Nat /\ s <= n
        /\ v.before = IF s = 0 THEN {} ELSE Channel!Chain(version, s)
        /\ v.inbox = IF s = 0 THEN k ELSE version[s].inbox
        /\ v.admins \subseteq Admin /\ v.closed \in BOOLEAN
        /\ v = [supersedes |-> v.supersedes, before |-> v.before, inbox |-> v.inbox,
                admins |-> v.admins, closed |-> v.closed, signers |-> v.signers]
    BY <1>1, <1>2 DEF Channel!Content, Channel!None, Channel!Id
  <1>4. v.inbox \in Channel!OfFounder
    <2>1. CASE s = 0
      BY <1>1, <1>3, <2>1 DEF Channel!MaySign, Channel!None
    <2>2. CASE s # 0
      BY <1>1, <1>3, <2>2 DEF ChannelIInv
    <2> QED
      BY <2>1, <2>2
  <1>5. v.before \subseteq Nat
    <2>1. CASE s # 0
      BY <1>1, <1>2, <1>3, <2>1, ChannelChain DEF Channel!Id
    <2> QED
      BY <1>3, <2>1
  <1>6. v \in ChannelVersion
    BY <1>3, <1>4, <1>5 DEF ChannelVersion, Channel!OfFounder
  <1>7. /\ version' \in Seq(ChannelVersion) /\ DOMAIN version' = 1 .. n + 1
        /\ version'[n + 1] = v /\ \A i \in 1 .. n : version'[i] = version[i]
    BY <1>1, <1>2, <1>6
  <1>8. \A i \in DOMAIN version : Channel!Chain(version', i) = Channel!Chain(version, i)
    BY <1>2, <1>7 DEF Channel!Chain
  <1>9. ChannelTree(version')
    <2>1. ASSUME NEW i \in 1 .. n
          PROVE  /\ version'[i].supersedes \in 0 .. i - 1
                 /\ version'[i].before = IF version'[i].supersedes = 0 THEN {}
                                 ELSE Channel!Chain(version', version'[i].supersedes)
      <3>1. /\ version[i].supersedes \in 0 .. i - 1
            /\ version[i].supersedes # 0 => version[i].supersedes \in DOMAIN version
            /\ version[i].before = IF version[i].supersedes = 0 THEN {}
                                   ELSE Channel!Chain(version, version[i].supersedes)
        <4>1. i \in DOMAIN version
          BY <1>2
        <4> QED
          BY <1>2, <4>1, ChannelIds DEF ChannelTree
      <3>2. version'[i] = version[i]
        BY <1>7
      <3> QED
        BY <1>8, <3>1, <3>2
    <2>2. /\ v.supersedes \in 0 .. (n + 1) - 1
          /\ v.before = IF v.supersedes = 0 THEN {} ELSE Channel!Chain(version', v.supersedes)
      BY <1>1, <1>2, <1>3, <1>8 DEF Channel!Id
    <2>3. \A i \in DOMAIN version' : i \in 1 .. n \/ i = n + 1
      BY <1>2, <1>7
    <2> QED
      BY <1>7, <2>1, <2>2, <2>3 DEF ChannelTree
  <1>10. ASSUME NEW i \in DOMAIN version
         PROVE  Channel!Copies(version', i) = Channel!Copies(version, i)
    <2>1. \A j : Channel!MaySign(j, version'[i], version')
                   <=> Channel!MaySign(j, version[i], version)
      BY <1>2, <1>7, ChannelSameMay
    <2> QED
      BY <1>2, <1>7, <2>1 DEF Channel!Copies
  <1>11. Channel!MaySign(k, v, version') <=> Channel!MaySign(k, v, version)
    BY <1>1, <1>2, <1>3, <1>7 DEF Channel!MaySign, Channel!AdminMay, Channel!None, Channel!Id
  <1>12. Channel!Copies(version', n + 1) = {k}
    BY <1>1, <1>3, <1>7, <1>11 DEF Channel!Copies
  <1>13. DOMAIN version \subseteq DOMAIN version' /\ DOMAIN version' \ DOMAIN version = {n + 1}
    BY <1>2, <1>7
  <1>14. ChannelGrows(version, version', k)
    BY <1>2, <1>7, <1>10, <1>12, <1>13 DEF ChannelGrows
  <1>15. k \in Channel!OfFounder \/ \E p \in DOMAIN version : Holder[k] \in version[p].admins
    BY <1>1, <1>3 DEF Channel!MaySign, Channel!None, Channel!Id
  <1>16. \A i \in DOMAIN version' : version'[i].inbox \in Channel!OfFounder
    BY <1>2, <1>4, <1>7, <1>13 DEF ChannelIInv, Channel!Id
  <1> QED
    BY <1>2, <1>3, <1>7, <1>9, <1>13, <1>14, <1>15, <1>16

LEMMA ChannelSignAgain ==
  ASSUME ChannelIInv, NEW k \in Key, Channel!SignAgain(k)
  PROVE  /\ ChannelTree(version') /\ ChannelGrows(version, version', k)
         /\ DOMAIN version' = DOMAIN version
         /\ \A i \in DOMAIN version :
              /\ version'[i].inbox = version[i].inbox
              /\ version'[i].signers \subseteq version[i].signers \union {k}
  <1>1. PICK x \in Channel!Id : version' = [version EXCEPT ![x].signers = @ \union {k}]
    BY DEF Channel!SignAgain
  <1> DEFINE n == Len(version)
             y == [version[x] EXCEPT !.signers = @ \union {k}]
  <1>2. /\ version \in Seq(ChannelVersion) /\ n \in Nat /\ DOMAIN version = 1 .. n
        /\ ChannelTree(version) /\ x \in 1 .. n
    BY ChannelIds DEF ChannelIInv, ChannelTree, Channel!Id
  <1>3. version' = [version EXCEPT ![x] = y]
    BY <1>1
  <1>4. /\ y \in ChannelVersion /\ y.signers = version[x].signers \union {k}
        /\ y.supersedes = version[x].supersedes /\ y.before = version[x].before
        /\ y.inbox = version[x].inbox /\ y.admins = version[x].admins
        /\ y.closed = version[x].closed
    <2>1. version[x] \in ChannelVersion
      BY <1>2
    <2> QED
      BY <2>1 DEF ChannelVersion
  <1> HIDE DEF y
  <1>5. version' \in Seq(ChannelVersion) /\ DOMAIN version' = 1 .. n
    BY <1>2, <1>3, <1>4
  <1>6. version'[x] = y /\ \A i \in 1 .. n : i # x => version'[i] = version[i]
    BY <1>2, <1>3
  <1>7. \A i \in 1 .. n :
          /\ version'[i].supersedes = version[i].supersedes
          /\ version'[i].before = version[i].before
          /\ version'[i].inbox = version[i].inbox /\ version'[i].admins = version[i].admins
          /\ version'[i].closed = version[i].closed
          /\ version[i].signers \subseteq version'[i].signers
          /\ version'[i].signers \subseteq version[i].signers \union {k}
    BY <1>4, <1>6
  <1>8. ChannelTree(version')
    <2>1. ASSUME NEW i \in 1 .. n
          PROVE  /\ version'[i].supersedes \in 0 .. i - 1
                 /\ version'[i].before = IF version'[i].supersedes = 0 THEN {}
                                 ELSE Channel!Chain(version', version'[i].supersedes)
      <3>1. /\ version[i].supersedes \in 0 .. i - 1
            /\ version[i].supersedes # 0 => version[i].supersedes \in 1 .. n
            /\ version[i].before = IF version[i].supersedes = 0 THEN {}
                                   ELSE Channel!Chain(version, version[i].supersedes)
        <4>1. i \in DOMAIN version
          BY <1>2
        <4> QED
          BY <1>2, <4>1, ChannelIds DEF ChannelTree
      <3>2. version[i].supersedes # 0 => Channel!Chain(version', version[i].supersedes)
                                           = Channel!Chain(version, version[i].supersedes)
        BY <1>7, <3>1 DEF Channel!Chain
      <3> QED
        BY <1>7, <3>1, <3>2
    <2> QED
      BY <1>5, <2>1 DEF ChannelTree
  <1>9. ASSUME NEW i \in DOMAIN version
        PROVE  /\ Channel!Copies(version, i) \subseteq Channel!Copies(version', i)
               /\ Channel!Copies(version', i) \subseteq Channel!Copies(version, i) \union {k}
    <2>1. \A j : Channel!MaySign(j, version'[i], version')
                   <=> Channel!MaySign(j, version[i], version)
      BY <1>2, <1>7, ChannelSameMay
    <2> QED
      BY <1>2, <1>7, <2>1 DEF Channel!Copies
  <1> QED
    BY <1>2, <1>5, <1>7, <1>8, <1>9 DEF ChannelGrows

(* A step keeps the invariant, and is a signature of one key or changes no *)
(* version.                                                                *)
LEMMA ChannelStep ==
  ASSUME ChannelIInv, Channel!Next
  PROVE  /\ ChannelIInv'
         /\ \/ version' = version
            \/ /\ revoked' = revoked
               /\ \E k \in Key : /\ Channel!Sign(k) \/ Channel!SignAgain(k)
                                 /\ ChannelGrows(version, version', k)
                                 /\ \A j \in Key : Channel!By(j) => j = k
  <1>0. ChannelTree(version) /\ ChannelSigned(version)
    BY DEF ChannelIInv
  <1>r. ASSUME freshest' = freshest, tip' = Channel!Resolution(version', revoked').tip
        PROVE  (tip = Channel!Resolution(version, revoked).tip)'
    BY <1>r DEF Channel!Resolution, Channel!Beats
  <1>1. ASSUME NEW k \in Key, Channel!Sign(k)
        PROVE  ChannelIInv' /\ \A j \in Key : Channel!By(j) => j = k
    <2>0. /\ ChannelTree(version') /\ ChannelGrows(version, version', k)
          /\ \A i \in DOMAIN version' : version'[i].inbox \in Channel!OfFounder
          /\ \A i \in DOMAIN version : version'[i] = version[i]
          /\ \A i \in DOMAIN version' \ DOMAIN version : version'[i].signers = {k}
      BY <1>1, ChannelSign
    <2>1. ChannelSigned(version')
      BY <1>0, <2>0 DEF ChannelSigned, ChannelGrows
    <2>2. tip' = Channel!Resolution(version', revoked').tip /\ UNCHANGED <<revoked, freshest>>
      BY <1>1 DEF Channel!Sign
    <2>3. ChannelIInv'
      BY <1>r, <2>0, <2>1, <2>2 DEF ChannelIInv, Channel!Id, Channel!OfFounder
    <2>4. ASSUME NEW j \in Key, Channel!By(j) PROVE j = k
      BY <2>0, <2>4 DEF Channel!By, Channel!Id
    <2> QED
      BY <2>3, <2>4
  <1>2. ASSUME NEW k \in Key, Channel!SignAgain(k)
        PROVE  ChannelIInv' /\ \A j \in Key : Channel!By(j) => j = k
    <2>0. /\ ChannelTree(version') /\ ChannelGrows(version, version', k)
          /\ DOMAIN version' = DOMAIN version
          /\ \A i \in DOMAIN version :
               /\ version'[i].inbox = version[i].inbox
               /\ version'[i].signers \subseteq version[i].signers \union {k}
      BY <1>2, ChannelSignAgain
    <2>1. ChannelSigned(version')
      BY <1>0, <2>0 DEF ChannelSigned, ChannelGrows
    <2>2. tip' = Channel!Resolution(version', revoked').tip /\ UNCHANGED <<revoked, freshest>>
      BY <1>2 DEF Channel!SignAgain
    <2>3. ChannelIInv'
      BY <1>r, <2>0, <2>1, <2>2 DEF ChannelIInv, Channel!Id, Channel!OfFounder
    <2>4. ASSUME NEW j \in Key, Channel!By(j) PROVE j = k
      BY <2>0, <2>4 DEF Channel!By, Channel!Id
    <2> QED
      BY <2>3, <2>4
  <1>3. ASSUME NEW k \in Key, Channel!Revoke(k) PROVE ChannelIInv' /\ version' = version
    <2>1. /\ version' = version /\ freshest' = freshest /\ revoked' = revoked \union {k}
          /\ tip' = Channel!Resolution(version', revoked').tip
      BY <1>3 DEF Channel!Revoke
    <2> QED
      BY <1>r, <2>1 DEF ChannelIInv, Channel!Id, Channel!OfFounder
  <1>4. ASSUME NEW k \in Key, Channel!Sign(k) \/ Channel!SignAgain(k)
        PROVE  ChannelGrows(version, version', k) /\ revoked' = revoked
    BY <1>4, ChannelSign, ChannelSignAgain DEF Channel!Sign, Channel!SignAgain
  <1> QED
    BY <1>1, <1>2, <1>3, <1>4 DEF Channel!Next

LEMMA ChannelInit == Channel!Init => ChannelIInv
  <1> SUFFICES ASSUME Channel!Init PROVE ChannelIInv
    OBVIOUS
  <1>1. version = <<>> /\ revoked = {} /\ freshest \in BOOLEAN /\ tip = 0
    BY DEF Channel!Init, Channel!None
  <1>2. ChannelTree(version) /\ DOMAIN version = {}
    BY <1>1, EmptySeq DEF ChannelTree
  <1>3. ChannelSigned(version)
    BY <1>2 DEF ChannelSigned
  <1>4. ChannelLeft(version, revoked) = {}
    BY <1>2 DEF ChannelLeft, ChannelTips
  <1> QED
    BY <1>1, <1>2, <1>3, <1>4, ChannelResolutionIs DEF ChannelIInv, Channel!Id

-----------------------------------------------------------------------------
(* A version that no founder's key signed was signed by an admin, who may  *)
(* neither close nor open the channel.                                     *)
LEMMA ChannelAdminsKeep ==
  ASSUME NEW V, ChannelTree(V), ChannelSigned(V), NEW i \in DOMAIN V,
         Channel!Copies(V, i) \intersect Channel!OfFounder = {}
  PROVE  V[i].supersedes # 0 /\ V[i].closed = V[V[i].supersedes].closed
  <1>1. PICK k : k \in Channel!Copies(V, i) /\ k \notin Channel!OfFounder
    BY DEF ChannelSigned
  <1>2. Channel!MaySign(k, V[i], V)
    BY <1>1 DEF Channel!Copies
  <1> QED
    BY <1>1, <1>2 DEF Channel!MaySign, Channel!AdminMay, Channel!None

(* While the founder opens nothing off the chain of a closed version, the  *)
(* tip is closed: the closed version's own branch stays closed, and so     *)
(* does a branch that overrules it.                                        *)
LEMMA ChannelStaysClosed ==
  ASSUME NEW V, ChannelTree(V), ChannelSigned(V), NEW R, freshest \in BOOLEAN,
         NEW t \in ChannelTips(V, R), V[t].closed,
         NEW u, u = Channel!Resolution(V, R).tip, u # 0,
         \A i \in ChannelResolving(V, R) \ Channel!Chain(V, t) :
            V[i].closed \/ Channel!Copies(V, i) \intersect Channel!OfFounder = {}
  PROVE  V[u].closed
  <1> DEFINE Res == ChannelResolving(V, R)
  <1>1. /\ t \in DOMAIN V /\ t \in Res /\ Res \subseteq DOMAIN V
        /\ u \in ChannelLeft(V, R) /\ u \in DOMAIN V
        /\ \A j \in ChannelLeft(V, R) \ {u} : Channel!Beats(V, u, j)
    BY ChannelTipIs, ChannelResolvingIs DEF ChannelTips, ChannelLeft
  <1>2. ASSUME NEW j \in ChannelLeft(V, R), V[j].closed PROVE V[u].closed
    <2>1. j \in DOMAIN V
      BY DEF ChannelLeft, ChannelTips
    <2>2. V[u].closed \in BOOLEAN /\ V[j].closed \in BOOLEAN
      BY <1>1, <2>1, ChannelIds DEF ChannelVersion
    <2> QED
      BY <1>1, <1>2, <2>2 DEF Channel!Beats
  <1>3. ASSUME NEW c \in Res, V[c].closed, c = t \/ c \notin Channel!Chain(V, t),
               NEW m \in Res, c \in Channel!Chain(V, m)
        PROVE  V[m].closed
    <2> DEFINE Good(i) == i \in Res /\ c \in Channel!Chain(V, i) => V[i].closed
               Holds == {i \in DOMAIN V : Good(i)}
    <2>1. ASSUME NEW i \in DOMAIN V, V[i].supersedes # 0 => V[i].supersedes \in Holds,
                 i \in Res, c \in Channel!Chain(V, i)
          PROVE  V[i].closed
      <3>1. CASE i = c
        BY <1>3, <3>1
      <3>2. CASE i # c
        <4>1. /\ V[i].supersedes # 0 /\ V[i].supersedes \in DOMAIN V
              /\ c \in Channel!Chain(V, V[i].supersedes)
              /\ V[i].supersedes \in Channel!Chain(V, i)
          BY <2>1, <3>2, ChannelIds, ChannelChain
        <4>2. V[i].supersedes \in Res
          BY <2>1, <4>1, ChannelResolvingIs
        <4>3. V[V[i].supersedes].closed
          BY <2>1, <4>1, <4>2
        <4>4. i \notin Channel!Chain(V, t)
          <5>1. ASSUME i \in Channel!Chain(V, t) PROVE FALSE
            <6>1. i <= t /\ c \in Channel!Chain(V, t) /\ c <= i /\ i \in Nat /\ c \in Nat
              BY <1>1, <2>1, <5>1, ChannelChain
            <6> QED
              BY <1>3, <3>2, <6>1
          <5> QED
            BY <5>1
        <4>5. V[i].closed \/ Channel!Copies(V, i) \intersect Channel!OfFounder = {}
          BY <2>1, <4>4
        <4> QED
          BY <4>3, <4>5, ChannelAdminsKeep
      <3> QED
        BY <3>1, <3>2
    <2>2. \A i \in DOMAIN V : (V[i].supersedes # 0 => V[i].supersedes \in Holds) => i \in Holds
      BY <2>1
    <2> HIDE DEF Holds
    <2>3. DOMAIN V \subseteq Holds
      BY <2>2, ChannelInduction
    <2> QED
      BY <1>1, <1>3, <2>3 DEF Holds
  <1>4. CASE ~ChannelOverruled(V, R, t)
    <2>1. PICK j \in ChannelLeft(V, R) : t \in Channel!Chain(V, j)
      BY <1>1, <1>4, ChannelReaches
    <2>2. j \in Res
      BY ChannelResolvingIs DEF ChannelLeft
    <2> QED
      BY <1>1, <1>2, <1>3, <2>1, <2>2
  <1>5. CASE ChannelOverruled(V, R, t)
    <2> DEFINE Beaten == {a \in Channel!Chain(V, t) : \E o \in Res :
                             /\ V[o].supersedes = V[a].supersedes
                             /\ ChannelRank(V, R, o) < ChannelRank(V, R, a)}
    <2>1. Beaten # {} /\ Beaten \subseteq Nat
      BY <1>1, <1>5, ChannelChain DEF ChannelOverruled
    <2>2. PICK a \in Beaten : \A b \in Beaten : a <= b
      BY <2>1, LeastNat
    <2> DEFINE Sibling == {o \in Res : V[o].supersedes = V[a].supersedes}
               Ranks == {ChannelRank(V, R, o) : o \in Sibling}
    <2>3. Ranks \subseteq 1 .. 3 /\ Ranks # {} /\ ChannelRank(V, R, a) \in 1 .. 3
      BY <2>2 DEF ChannelRank, Channel!Rank
    <2>4. PICK r \in Ranks : \A q \in Ranks : r <= q
      BY <2>3, LeastNat
    <2>5. PICK o \in Sibling : ChannelRank(V, R, o) = r
      BY <2>4
    <2>6. \A p \in Sibling : r <= ChannelRank(V, R, p)
      BY <2>4
    <2>7. r < ChannelRank(V, R, a)
      <3>1. PICK p \in Sibling : ChannelRank(V, R, p) < ChannelRank(V, R, a)
        BY <2>2
      <3>2. r <= ChannelRank(V, R, p) /\ ChannelRank(V, R, p) \in 1 .. 3
        BY <2>3, <2>6
      <3> QED
        BY <2>3, <2>4, <3>1, <3>2
    <2>8. a \in DOMAIN V /\ a \in Channel!Chain(V, t) /\ a \in Nat
      BY <1>1, <2>2, ChannelChain
    <2>9. o \notin Channel!Chain(V, t)
      <3>1. o # a
        BY <2>3, <2>4, <2>5, <2>7
      <3> QED
        BY <1>1, <2>5, <2>8, <3>1, ChannelSuccessor
    <2>10. Channel!Copies(V, o) \intersect Channel!OfFounder # {}
      <3>1. r \in {1, 2}
        BY <2>3, <2>4, <2>7
      <3> QED
        BY <2>5, <3>1 DEF ChannelRank, Channel!Rank
    <2>11. o \in Res /\ o \in DOMAIN V /\ V[o].closed
      BY <1>1, <2>5, <2>9, <2>10
    <2>12. ~ChannelOverruled(V, R, o)
      <3> SUFFICES ASSUME NEW b \in Channel!Chain(V, o), NEW p \in Res,
                          V[p].supersedes = V[b].supersedes,
                          ChannelRank(V, R, p) < ChannelRank(V, R, b)
                   PROVE  FALSE
        BY DEF ChannelOverruled
      <3>1. b # o
        <4>1. ASSUME b = o PROVE FALSE
          <5>1. p \in Sibling
            BY <2>5, <4>1
          <5>2. r <= ChannelRank(V, R, p) /\ ChannelRank(V, R, p) \in 1 .. 3
            BY <2>3, <2>6, <5>1
          <5> QED
            BY <2>3, <2>4, <2>5, <4>1, <5>2
        <4> QED
          BY <4>1
      <3>2. V[o].supersedes # 0 /\ b \in Channel!Chain(V, V[o].supersedes)
        BY <2>11, <3>1, ChannelIds
      <3>3. V[a].supersedes = V[o].supersedes /\ V[a].supersedes \in DOMAIN V
            /\ V[a].supersedes < a /\ V[a].supersedes \in Nat
        BY <2>5, <2>8, <3>2, ChannelIds
      <3>4. b \in Channel!Chain(V, t) /\ b <= V[a].supersedes /\ b \in Nat
        <4>1. V[a].supersedes \in Channel!Chain(V, t)
          BY <1>1, <2>8, <3>2, <3>3, ChannelChain
        <4> QED
          BY <1>1, <3>2, <3>3, <4>1, ChannelChain
      <3>5. b \in Beaten
        BY <3>4
      <3> QED
        BY <2>2, <2>8, <3>3, <3>4, <3>5
    <2>13. PICK j \in ChannelLeft(V, R) : o \in Channel!Chain(V, j)
      BY <2>11, <2>12, ChannelReaches
    <2>14. j \in Res
      BY ChannelResolvingIs DEF ChannelLeft
    <2> QED
      BY <1>2, <1>3, <2>9, <2>11, <2>13, <2>14
  <1> QED
    BY <1>4, <1>5

-----------------------------------------------------------------------------
(* The properties.                                                         *)

LEMMA ChannelTypes == ChannelIInv => Channel!TypeOK
  <1> SUFFICES ASSUME ChannelIInv PROVE Channel!TypeOK
    OBVIOUS
  <1>1. ChannelTree(version) /\ ChannelSigned(version) /\ freshest \in BOOLEAN
    BY DEF ChannelIInv
  <1>2. ASSUME NEW i \in DOMAIN version
        PROVE  /\ version[i].supersedes \in 0 .. i - 1
               /\ version[i].inbox \in Channel!OfFounder /\ version[i].admins \subseteq Admin
               /\ version[i].signers \subseteq Key
    <2>1. version[i] \in ChannelVersion
      BY <1>1, ChannelIds
    <2> QED
      BY <1>1, <2>1 DEF ChannelIInv, ChannelTree, ChannelVersion, Channel!Id
  <1>3. tip = 0 \/ tip \in ChannelLeft(version, revoked)
    BY <1>1, ChannelTipIs DEF ChannelIInv
  <1> QED
    BY <1>2, <1>3 DEF ChannelIInv, ChannelLeft, ChannelTips, Channel!TypeOK, Channel!Id,
                      Channel!None

LEMMA ChannelReopened == ChannelIInv => Channel!ReopenedByFounder
  <1> SUFFICES ASSUME ChannelIInv, NEW t \in Channel!Now.tips, version[t].closed,
                      tip # 0, ~version[tip].closed
               PROVE  \E i \in DOMAIN Channel!Now.rank \ Channel!Chain(version, t) :
                         /\ ~version[i].closed
                         /\ Channel!Copies(version, i) \intersect Channel!OfFounder # {}
    BY DEF Channel!ReopenedByFounder, Channel!None
  <1>1. /\ ChannelTree(version) /\ ChannelSigned(version) /\ freshest \in BOOLEAN
        /\ tip = Channel!Resolution(version, revoked).tip
    BY DEF ChannelIInv
  <1>2. /\ t \in ChannelTips(version, revoked)
        /\ DOMAIN Channel!Now.rank = ChannelResolving(version, revoked)
    BY <1>1, ChannelResolutionIs DEF Channel!Now
  <1>3. ~(\A i \in ChannelResolving(version, revoked) \ Channel!Chain(version, t) :
            version[i].closed \/ Channel!Copies(version, i) \intersect Channel!OfFounder = {})
    BY <1>1, <1>2, ChannelStaysClosed
  <1> QED
    BY <1>2, <1>3

(* What W and V have alike, they resolve alike.                            *)
LEMMA ChannelSameResolution ==
  ASSUME NEW V, ChannelTree(V), ChannelSigned(V), NEW W, ChannelTree(W), ChannelSigned(W),
         DOMAIN W = DOMAIN V,
         \A i \in DOMAIN V :
           /\ W[i].supersedes = V[i].supersedes /\ W[i].before = V[i].before
           /\ W[i].closed = V[i].closed
           /\ Channel!Copies(W, i) = Channel!Copies(V, i),
         NEW R
  PROVE  Channel!Resolution(W, R).tip = Channel!Resolution(V, R).tip
  <1>1. ChannelTips(W, R) = ChannelTips(V, R) /\ ChannelTips(V, R) \subseteq DOMAIN V
    BY DEF ChannelTips
  <1>2. \A i \in DOMAIN V : Channel!Chain(W, i) = Channel!Chain(V, i)
    BY DEF Channel!Chain
  <1>3. ChannelResolving(W, R) = ChannelResolving(V, R)
    BY <1>1, <1>2 DEF ChannelResolving, Channel!Resolving
  <1>4. ChannelResolving(V, R) \subseteq DOMAIN V
    BY ChannelResolvingIs
  <1>5. \A i \in DOMAIN V : ChannelRank(W, R, i) = ChannelRank(V, R, i)
    BY DEF ChannelRank
  <1>6. ASSUME NEW i \in ChannelTips(V, R)
        PROVE  ChannelOverruled(W, R, i) <=> ChannelOverruled(V, R, i)
    <2>1. Channel!Chain(V, i) \subseteq DOMAIN V /\ Channel!Chain(W, i) = Channel!Chain(V, i)
      BY <1>1, <1>2, ChannelChain
    <2> QED
      BY <1>3, <1>4, <1>5, <2>1 DEF ChannelOverruled
  <1>7. ChannelLeft(W, R) = ChannelLeft(V, R) /\ ChannelLeft(V, R) \subseteq DOMAIN V
    BY <1>1, <1>3, <1>4, <1>6 DEF ChannelLeft
  <1>8. \A i, j \in DOMAIN V : Channel!Beats(W, i, j) <=> Channel!Beats(V, i, j)
    BY DEF Channel!Beats
  <1> DEFINE L == ChannelLeft(V, R)
             BestW(i) == \A j \in L \ {i} : Channel!Beats(W, i, j)
             BestV(i) == \A j \in L \ {i} : Channel!Beats(V, i, j)
  <1>9. \A i \in L : BestW(i) <=> BestV(i)
    BY <1>7, <1>8
  <1>10. Channel!Resolution(W, R).tip = IF L = {} THEN 0 ELSE CHOOSE i \in L : BestW(i)
    BY <1>7, ChannelResolutionIs
  <1>11. Channel!Resolution(V, R).tip = IF L = {} THEN 0 ELSE CHOOSE i \in L : BestV(i)
    BY ChannelResolutionIs
  <1> HIDE DEF L, BestW, BestV
  <1>12. (CHOOSE i \in L : BestW(i)) = (CHOOSE i \in L : BestV(i))
    BY <1>9
  <1> QED
    BY <1>10, <1>11, <1>12

LEMMA ChannelStrangers ==
  ASSUME ChannelIInv, Channel!Next, NEW k \in Key \ Channel!OfFounder, Channel!By(k),
         \A i \in Channel!Id : Holder[k] \notin version[i].admins
  PROVE  tip' = tip
  <1>1. ChannelTree(version) /\ ChannelSigned(version)
        /\ tip = Channel!Resolution(version, revoked).tip
    BY DEF ChannelIInv
  <1>2. version' # version
    BY DEF Channel!By, Channel!Id
  <1>3. /\ ChannelIInv' /\ revoked' = revoked /\ ChannelGrows(version, version', k)
        /\ Channel!Sign(k) \/ Channel!SignAgain(k)
    BY <1>2, ChannelStep
  <1>4. ~Channel!Sign(k)
    <2> SUFFICES ASSUME Channel!Sign(k) PROVE FALSE
      OBVIOUS
    <2>1. PICK i \in DOMAIN version' :
             k \in version'[i].signers /\ (i \in DOMAIN version => k \notin version[i].signers)
      BY DEF Channel!By, Channel!Id
    <2>2. i \in DOMAIN version' \ DOMAIN version
      BY <2>1, ChannelSign
    <2>3. k \in Channel!OfFounder \/ \E p \in DOMAIN version : Holder[k] \in version[p].admins
      BY <2>2, ChannelSign
    <2> QED
      BY <2>3 DEF Channel!Id
  <1>5. Channel!SignAgain(k) /\ DOMAIN version' = DOMAIN version
    BY <1>3, <1>4, ChannelSignAgain
  <1>6. ASSUME NEW i \in DOMAIN version
        PROVE  Channel!Copies(version', i) = Channel!Copies(version, i)
    <2>1. Channel!MaySign(k, version'[i], version') <=> Channel!MaySign(k, version[i], version)
      BY <1>1, <1>3, ChannelSameMay DEF ChannelGrows
    <2>2. version[i].supersedes # 0 => version[i].supersedes \in DOMAIN version
      BY <1>1, ChannelIds
    <2>3. ~Channel!MaySign(k, version[i], version)
      BY <2>2 DEF Channel!MaySign, Channel!None, Channel!Id
    <2>4. k \notin Channel!Copies(version', i)
      BY <2>1, <2>3 DEF Channel!Copies
    <2> QED
      BY <1>3, <2>4 DEF ChannelGrows
  <1>7. ChannelTree(version') /\ ChannelSigned(version')
    BY <1>3 DEF ChannelIInv
  <1>8. Channel!Resolution(version', revoked).tip = Channel!Resolution(version, revoked).tip
    BY <1>1, <1>3, <1>5, <1>6, <1>7, ChannelSameResolution DEF ChannelGrows
  <1>9. tip' = Channel!Resolution(version', revoked').tip
    BY <1>5 DEF Channel!SignAgain
  <1> QED
    BY <1>1, <1>3, <1>8, <1>9

(* A key that is no live device's of the founder's leaves the founder's    *)
(* first rank to the versions that had it.                                 *)
LEMMA ChannelFirstRank ==
  ASSUME NEW V, NEW W, NEW R, NEW k, k \notin Channel!OfFounder \ R, ChannelGrows(V, W, k)
  PROVE  /\ ChannelTips(V, R) \subseteq ChannelTips(W, R)
         /\ \A i \in DOMAIN V : ChannelRank(V, R, i) = 1 => ChannelRank(W, R, i) = 1
         /\ \A i \in DOMAIN W :
              ChannelRank(W, R, i) = 1 => i \in ChannelTips(V, R) /\ ChannelRank(V, R, i) = 1
  <1>1. \A i \in DOMAIN V : Channel!Copies(V, i) \subseteq Channel!Copies(W, i)
    BY DEF ChannelGrows
  <1>2. \A X, i : ChannelRank(X, R, i) = 1
                    <=> (Channel!Copies(X, i) \intersect Channel!OfFounder) \ R # {}
    BY DEF ChannelRank, Channel!Rank
  <1>3. ChannelTips(V, R) \subseteq ChannelTips(W, R)
    BY <1>1 DEF ChannelTips, ChannelGrows
  <1>4. \A i \in DOMAIN V : ChannelRank(V, R, i) = 1 => ChannelRank(W, R, i) = 1
    BY <1>1, <1>2
  <1>5. ASSUME NEW i \in DOMAIN W, ChannelRank(W, R, i) = 1
        PROVE  i \in ChannelTips(V, R) /\ ChannelRank(V, R, i) = 1
    <2>1. PICK f : f \in Channel!Copies(W, i) /\ f \in Channel!OfFounder /\ f \notin R
      BY <1>2, <1>5
    <2>2. f # k
      BY <2>1
    <2>3. i \in DOMAIN V /\ f \in Channel!Copies(V, i)
      BY <2>1, <2>2 DEF ChannelGrows
    <2> QED
      BY <1>2, <2>1, <2>3 DEF ChannelTips
  <1> QED
    BY <1>3, <1>4, <1>5

LEMMA ChannelFounders ==
  ASSUME ChannelIInv, Channel!Next, NEW k \in Key, Channel!By(k),
         k \notin Channel!OfFounder \ revoked, tip # 0, Channel!Undisputed
  PROVE  tip \in Channel!TipChain'
  <1> DEFINE V == version
             W == version'
             R == revoked
             u == Channel!Resolution(W, R).tip
  <1>1. /\ ChannelTree(V) /\ ChannelSigned(V) /\ freshest \in BOOLEAN
        /\ tip = Channel!Resolution(V, R).tip
    BY DEF ChannelIInv
  <1>2. version' # version
    BY DEF Channel!By, Channel!Id
  <1>3. /\ ChannelIInv' /\ revoked' = revoked /\ ChannelGrows(V, W, k)
        /\ Channel!Sign(k) \/ Channel!SignAgain(k)
    BY <1>2, ChannelStep
  <1>4. ChannelTree(W) /\ ChannelSigned(W) /\ tip' = u
    BY <1>3 DEF ChannelIInv, Channel!Sign, Channel!SignAgain
  <1> HIDE DEF u
  <1>5. tip \in ChannelTips(V, R) /\ tip \in DOMAIN V
    BY <1>1, ChannelTipIs DEF ChannelLeft, ChannelTips
  <1>6. Channel!Chain(W, tip) = Channel!Chain(V, tip) /\ tip \in DOMAIN W
    BY <1>3, <1>5 DEF Channel!Chain, ChannelGrows
  <1>7. /\ tip \in ChannelTips(W, R)
        /\ Channel!Chain(W, tip) \subseteq ChannelResolving(W, R)
        /\ tip \in Channel!Chain(W, tip)
    <2>1. tip \in ChannelTips(W, R)
      BY <1>3, <1>5, ChannelFirstRank
    <2> QED
      BY <1>4, <1>6, <2>1, ChannelResolvingIs, ChannelIds
  <1>8. \A a \in Channel!Chain(W, tip) :
          /\ ChannelRank(W, R, a) = 1 /\ a \in ChannelResolving(V, R) /\ a \in DOMAIN V
          /\ \A o \in ChannelResolving(V, R) \ {a} :
               ChannelRank(V, R, o) = 1 => V[o].supersedes # V[a].supersedes
    <2> SUFFICES ASSUME NEW a \in Channel!Chain(V, tip)
                 PROVE  /\ ChannelRank(W, R, a) = 1
                        /\ a \in ChannelResolving(V, R) /\ a \in DOMAIN V
                        /\ \A o \in ChannelResolving(V, R) \ {a} :
                             ChannelRank(V, R, o) = 1 => V[o].supersedes # V[a].supersedes
      BY <1>6
    <2>1. a \in ChannelResolving(V, R) /\ a \in DOMAIN V
      BY <1>1, <1>5, ChannelResolvingIs
    <2>2. /\ DOMAIN Channel!Now.rank = ChannelResolving(V, R)
          /\ \A i \in ChannelResolving(V, R) : Channel!Now.rank[i] = ChannelRank(V, R, i)
      BY <1>1, ChannelResolutionIs DEF Channel!Now
    <2>3. a \in Channel!TipChain
      BY DEF Channel!TipChain, Channel!None
    <2>4. /\ ChannelRank(V, R, a) = 1
          /\ \A o \in ChannelResolving(V, R) \ {a} :
               ChannelRank(V, R, o) = 1 => V[o].supersedes # V[a].supersedes
      BY <2>1, <2>2, <2>3 DEF Channel!Undisputed
    <2>5. \A i \in DOMAIN V : ChannelRank(V, R, i) = 1 => ChannelRank(W, R, i) = 1
      BY <1>3, ChannelFirstRank
    <2> QED
      BY <2>1, <2>4, <2>5
  <1>9. \A i \in DOMAIN W : ChannelRank(W, R, i) \in 1 .. 3
    BY DEF ChannelRank, Channel!Rank
  <1>10. ChannelResolving(W, R) \subseteq DOMAIN W
    BY <1>4, ChannelResolvingIs
  <1>11. ~ChannelOverruled(W, R, tip)
    <2> SUFFICES ASSUME NEW a \in Channel!Chain(W, tip), NEW o \in ChannelResolving(W, R),
                        ChannelRank(W, R, o) < ChannelRank(W, R, a)
                 PROVE  FALSE
      BY DEF ChannelOverruled
    <2>1. ChannelRank(W, R, a) = 1 /\ ChannelRank(W, R, o) \in 1 .. 3
      BY <1>8, <1>9, <1>10
    <2> QED
      BY <2>1
  <1>12. u # 0 /\ u \in ChannelLeft(W, R)
    <2>1. ChannelLeft(W, R) # {}
      BY <1>4, <1>7, <1>11, ChannelReaches
    <2> QED
      BY <1>1, <1>4, <2>1, ChannelTipIs DEF u
  <1>13. u \in ChannelTips(W, R) /\ u \in DOMAIN W
         /\ Channel!Chain(W, u) \subseteq ChannelResolving(W, R)
    BY <1>4, <1>12, ChannelResolvingIs DEF ChannelLeft, ChannelTips
  <1>14. tip \in Channel!Chain(W, u)
    <2> SUFFICES ASSUME tip \notin Channel!Chain(W, u) PROVE FALSE
      OBVIOUS
    <2>1. \/ \E c \in Channel!Chain(W, tip) : W[c].supersedes = u
          \/ \E a \in Channel!Chain(W, tip), b \in Channel!Chain(W, u) :
               a # b /\ W[a].supersedes = W[b].supersedes
      BY <1>4, <1>6, <1>13, ChannelFork
    <2>2. ASSUME NEW c \in Channel!Chain(W, tip), W[c].supersedes = u PROVE FALSE
      BY <1>7, <1>12, <2>2 DEF ChannelLeft
    <2>3. ASSUME NEW a \in Channel!Chain(W, tip), NEW b \in Channel!Chain(W, u),
                 a # b, W[a].supersedes = W[b].supersedes
          PROVE  FALSE
      <3>1. ~(ChannelRank(W, R, a) < ChannelRank(W, R, b))
        BY <1>7, <1>12, <2>3 DEF ChannelLeft, ChannelOverruled
      <3>2. ChannelRank(W, R, a) = 1 /\ ChannelRank(W, R, b) \in 1 .. 3 /\ b \in DOMAIN W
        BY <1>8, <1>9, <1>10, <1>13
      <3>3. ChannelRank(W, R, b) = 1
        BY <3>1, <3>2
      <3>4. b \in ChannelTips(V, R) /\ ChannelRank(V, R, b) = 1
        BY <1>3, <3>2, <3>3, ChannelFirstRank
      <3>5. b \in ChannelResolving(V, R) /\ b \in DOMAIN V
        BY <1>1, <3>4, ChannelResolvingIs
      <3>6. V[b].supersedes # V[a].supersedes
        BY <1>8, <2>3, <3>4, <3>5
      <3>7. W[a].supersedes = V[a].supersedes /\ W[b].supersedes = V[b].supersedes
        BY <1>3, <1>8, <3>5 DEF ChannelGrows
      <3> QED
        BY <2>3, <3>6, <3>7
    <2> QED
      BY <2>1, <2>2, <2>3
  <1> QED
    BY <1>4, <1>12, <1>14 DEF Channel!TipChain, Channel!None

-----------------------------------------------------------------------------
(* MCJudgements: one subject a behaviour, and the others as they were.     *)

LEMMA InitEach ==
  ASSUME Init
  PROVE  /\ Channel!Init /\ Pledge!Init /\ VoteIInv
         /\ subject = "act" => Acts!Init
  <1>1. NoChannel => Channel!Init
    BY DEF NoChannel, Channel!Init, Channel!None
  <1>2. NoPledge => Pledge!Init
    BY DEF NoPledge, Pledge!Init
  <1>3. VoteBounds
    BY JudgementsAssumption
  <1>4. Vote!Init \/ NoVote => VoteIInv
    BY <1>3, VoteInit
  <1> QED
    BY <1>1, <1>2, <1>4 DEF Init

LEMMA StepEach ==
  ASSUME [Next]_vars
  PROVE  /\ [Channel!Next]_(Channel!vars) /\ [Pledge!Next]_(Pledge!vars)
         /\ Vote!Next \/ UNCHANGED voteVars
         /\ subject' = subject /\ (subject = "act" => Acts!Next \/ UNCHANGED actVars)
  <1>1. UNCHANGED channelVars => UNCHANGED Channel!vars
    BY DEF channelVars, Channel!vars
  <1>2. UNCHANGED pledgeVars => UNCHANGED Pledge!vars
    BY DEF pledgeVars, Pledge!vars, Pledge!pledge
  <1>3. UNCHANGED vars => UNCHANGED <<subject, channelVars, pledgeVars, voteVars, actVars>>
    BY DEF vars
  <1> QED
    BY <1>1, <1>2, <1>3 DEF Next

(* A behaviour of the judgements is one of a channel and one of a pledge.  *)
THEOREM EachIsItself == Spec => Channel!Spec /\ Pledge!Spec
  <1>1. Init => Channel!Init /\ Pledge!Init
    BY InitEach
  <1>2. [Next]_vars => [Channel!Next]_(Channel!vars) /\ [Pledge!Next]_(Pledge!vars)
    BY StepEach
  <1> QED
    BY <1>1, <1>2, PTL DEF Spec, Channel!Spec, Pledge!Spec

(* The versions stay a forest, each with a copy that its signer might      *)
(* sign, and the tip is the one they resolve to.                           *)
THEOREM ChannelInvariance == Channel!Spec => []ChannelIInv
  <1>1. Channel!Init => ChannelIInv
    BY ChannelInit
  <1>2. ChannelIInv /\ [Channel!Next]_(Channel!vars) => ChannelIInv'
    <2>1. ASSUME ChannelIInv, UNCHANGED Channel!vars PROVE ChannelIInv'
      <3>1. /\ version' = version /\ revoked' = revoked /\ freshest' = freshest /\ tip' = tip
        BY <2>1 DEF Channel!vars
      <3>2. (tip = Channel!Resolution(version, revoked).tip)'
        BY <2>1, <3>1 DEF ChannelIInv, Channel!Resolution, Channel!Beats
      <3> QED
        BY <2>1, <3>1, <3>2 DEF ChannelIInv, Channel!Id, Channel!OfFounder
    <2> QED
      BY <2>1, ChannelStep
  <1> QED
    BY <1>1, <1>2, PTL DEF Channel!Spec

(* What has passed was checked, and the guard remembers what was run.      *)
THEOREM ActsInvariance == Spec => [](subject = "act" => ActsIInv)
  <1>1. Init => (subject = "act" => ActsIInv)
    BY InitEach, ActsInit, JudgementsAssumption
  <1>2. (subject = "act" => ActsIInv) /\ [Next]_vars => (subject = "act" => ActsIInv)'
    BY StepEach, ActsStep, JudgementsAssumption
  <1> QED
    BY <1>1, <1>2, PTL DEF Spec

(* What was announced as final is what stands of the ballots in time.      *)
THEOREM VoteInvariance == Spec => []VoteIInv
  <1>1. Init => VoteIInv
    BY InitEach
  <1>2. VoteIInv /\ [Next]_vars => VoteIInv'
    BY StepEach, VoteStepIInv, JudgementsAssumption
  <1> QED
    BY <1>1, <1>2, PTL DEF Spec

(* The variables of all four keep their types.                             *)
THEOREM TypeCorrect == Spec => []TypeOK
  <1>1. Pledge!Spec => []Pledge!TypeOK
    BY PledgeTypes, JudgementsAssumption
  <1>2. ActsIInv => Acts!TypeOK
    BY DEF ActsIInv, ActsTypes, ActsDelivery, Acts!TypeOK
  <1>3. VoteIInv => Vote!TypeOK
    BY DEF VoteIInv
  <1> QED
    BY <1>1, <1>2, <1>3, ChannelTypes, EachIsItself, ChannelInvariance, VoteInvariance,
       ActsInvariance, PTL DEF TypeOK

(* The order outcomes are passed in tells apart only settling ones dated   *)
(* at one second (state.ts:59-60), however many there are.                 *)
THEOREM OrderBreaksTies == Spec => []OrderOnlyBreaksTies
  <1>1. Pledge!Spec => []Pledge!OrderOnlyBreaksTies
    BY PledgeOrderBreaksTies, JudgementsAssumption
  <1> QED
    BY <1>1, EachIsItself, PTL DEF OrderOnlyBreaksTies

(* Once a pledge that its counterparty settles has expired, time alone     *)
(* does not change what it is (state.ts:35-43), whatever was heard.        *)
THEOREM ExpiredIsFinal == Spec => ExpiryIsFinal
  <1>1. Pledge!Spec => Pledge!ExpiryIsFinal
    BY PledgeExpiryFinal, JudgementsAssumption
  <1> QED
    BY <1>1, EachIsItself, PTL DEF ExpiryIsFinal

(* A tally announced as final is the one every final tally gives, whatever *)
(* is cast, mined and reorganized after it (anchor.ts:34-41,               *)
(* tally.ts:191-203).                                                      *)
THEOREM FinalTalliesStand == Spec => []FinalTallyStands
  <1>1. VoteIInv => FinalTallyStands
    BY VoteOneResult DEF FinalTallyStands
  <1> QED
    BY <1>1, VoteInvariance, PTL

(* No tally depends on the order its ballots are passed in                 *)
(* (tally.ts:414-437), however many they are.                              *)
THEOREM TalliesAreOrderFree == Spec => []TallyIsOrderFree
  <1>1. VoteIInv => TallyIsOrderFree
    BY VoteOfTheBallots, JudgementsAssumption DEF TallyIsOrderFree
  <1> QED
    BY <1>1, VoteInvariance, PTL

(* What is run lies within one scope of the root's, and every link was in  *)
(* force and not known to be revoked (verify.ts:416-683, scope.ts:343-387),*)
(* for chains of any length and any scopes.                                *)
THEOREM RunsAreGranted == Spec => []ActsAreGranted
  <1>1. ActsIInv => Acts!ActsAreGranted
    BY ActsAllGranted, JudgementsAssumption
  <1> QED
    BY <1>1, ActsInvariance, PTL DEF ActsAreGranted

(* What was run is upheld by every later audit, but for a revocation that  *)
(* the caller had not read (verify.ts:583-620, 1203-1214).                 *)
THEOREM AuditsUphold == Spec => []AuditUpholdsActs
  <1>1. ActsIInv => Acts!AuditUpholdsActs
    BY ActsUpheld, JudgementsAssumption
  <1> QED
    BY <1>1, ActsInvariance, PTL DEF AuditUpholdsActs

(* An action is run again only once the guard's time from its signing is   *)
(* over (verify.ts:685-710), for any number of requests.                   *)
THEOREM RepeatsAreLate == Spec => []RepeatIsLate
  <1>1. ActsIInv => Acts!RepeatIsLate
    BY DEF ActsIInv
  <1> QED
    BY <1>1, ActsInvariance, PTL DEF RepeatIsLate

(* A key no version names moves no tip (channel.ts:646-650), whatever the  *)
(* versions and whoever's content it signs again.                          *)
THEOREM StrangersMoveNothing == Spec => StrangersChangeNothing
  <1> DEFINE Still == \A k \in Key \ Channel!OfFounder :
                 Channel!By(k) /\ (\A i \in Channel!Id : Holder[k] \notin version[i].admins)
                   => tip' = tip
  <1>1. ChannelIInv /\ [Channel!Next]_(Channel!vars) => [Still]_(Channel!vars)
    BY ChannelStrangers
  <1>2. Channel!StrangersChangeNothing <=> [][Still]_(Channel!vars)
    BY DEF Channel!StrangersChangeNothing
  <1> HIDE DEF Still
  <1> QED
    BY <1>1, <1>2, EachIsItself, ChannelInvariance, PTL DEF Channel!Spec, StrangersChangeNothing

(* Versions the founder decided, and that none of the founder's competes   *)
(* with, stay on the channel's chain (channel.ts:795-800), however long    *)
(* the branches that admins and revoked devices sign, at whatever fork.    *)
THEOREM FoundersChainStands == Spec => FounderChainStands
  <1> DEFINE Stands == \A k \in Key :
                 Channel!By(k) /\ k \notin Channel!OfFounder \ revoked /\ tip # Channel!None
                   /\ Channel!Undisputed
                   => tip \in Channel!TipChain'
  <1>1. ChannelIInv /\ [Channel!Next]_(Channel!vars) => [Stands]_(Channel!vars)
    BY ChannelFounders DEF Channel!None
  <1>2. Channel!FounderChainStands <=> [][Stands]_(Channel!vars)
    BY DEF Channel!FounderChainStands
  <1> HIDE DEF Stands
  <1> QED
    BY <1>1, <1>2, EachIsItself, ChannelInvariance, PTL DEF Channel!Spec, FounderChainStands

(* While a closed version has a live copy, the channel is open only if the *)
(* founder signed an open version off its chain (channel.ts:404-424,       *)
(* 826-832), however many versions there are.                              *)
THEOREM OnlyTheFounderReopens == Spec => []ReopenedByFounder
  BY ChannelReopened, EachIsItself, ChannelInvariance, PTL DEF ReopenedByFounder
=============================================================================

----------------------------- MODULE ServicesProofs -----------------------------
(***************************************************************************)
(* What MCServices makes of services that fail, for any vault, calendars   *)
(* and callers: the inductive invariants of VaultPull, StampUpgrade and    *)
(* DecisionCache, one after the other, and at the end the properties of    *)
(* the behaviours that are about any one of them.                          *)
(***************************************************************************)
EXTENDS MCServices, FiniteSetTheorems, SequenceTheorems, TLAPS

(* A set has one cardinality, whichever module counts it.                  *)
LEMMA SameCount ==
  ASSUME NEW S
  PROVE  Vault!Cardinality(S) = Cardinality(S) /\ Stamp!Cardinality(S) = Cardinality(S)
  BY DEF Vault!Cardinality, Stamp!Cardinality, Cardinality

(* A sequence repeats nothing, whichever module says so.                   *)
LEMMA SameInjective == ASSUME NEW f PROVE Vault!IsInjective(f) <=> IsInjective(f)
  BY DEF Vault!IsInjective, IsInjective

-----------------------------------------------------------------------------
(* VaultPull.                                                              *)

VaultVersion == [Blob -> Nat]

-----------------------------------------------------------------------------
(* The listing is a sequence of the blobs listed, all of them.             *)
LEMMA VaultListing ==
  ASSUME NEW S, IsFiniteSet(S)
  PROVE  /\ Cardinality(S) \in Nat
         /\ Vault!SetToSeq(S) \in [1 .. Cardinality(S) -> S]
         /\ \A b \in S : \E i \in 1 .. Cardinality(S) : Vault!SetToSeq(S)[i] = b
  <1> DEFINE n == Cardinality(S)
  <1>1. n \in Nat /\ ExistsBijection(1 .. n, S)
    BY FS_CardinalityType
  <1>2. PICK f \in [1 .. n -> S] : IsInjective(f)
    BY <1>1 DEF ExistsBijection, Bijection, Injection
  <1>3. Vault!SetToSeq(S) \in [1 .. n -> S] /\ IsInjective(Vault!SetToSeq(S))
    BY <1>1, <1>2, SameCount, SameInjective DEF Vault!SetToSeq
  <1>4. Vault!SetToSeq(S) \in Injection(1 .. n, S)
    BY <1>3 DEF Injection
  <1>5. IsFiniteSet(1 .. n) /\ Cardinality(1 .. n) = n
    BY <1>1, FS_Interval
  <1>6. Vault!SetToSeq(S) \in Surjection(1 .. n, S)
    BY <1>4, <1>5, FS_Injection
  <1> QED
    BY <1>1, <1>3, <1>6 DEF Surjection

-----------------------------------------------------------------------------
(* The inductive invariant.                                                *)

VaultTypes ==
    /\ stored \in VaultVersion /\ listed \in VaultVersion
    /\ out \in VaultVersion /\ cache \in VaultVersion
    /\ refs \in Seq(Blob) /\ at \in [Vault!Worker -> Int]
    /\ cursor \in 0 .. Len(refs)
    /\ refused \in BOOLEAN

(* A blob is as it was listed or later, or deleted since: at the server,   *)
(* and as fetched.                                                         *)
VaultStoredOK == \A b \in Blob : stored[b] >= listed[b] \/ b \in gone
VaultHave(b)  == out[b] >= listed[b] \/ b \in gone

(* Each ref taken is being fetched, has failed, or is had.                 *)
VaultTaken(i) ==
    (\E w \in Vault!Worker : at[w] = i) \/ (\E f \in failed : f.ref = i) \/ VaultHave(refs[i])
VaultProgressOK == \A i \in 1 .. cursor : VaultTaken(i)

(* Workers fetch what they took; between pulls, nothing.                   *)
VaultAtOK == \A w \in Vault!Worker : /\ at[w] \in 0 .. cursor
                                     /\ ~Vault!Pulling => at[w] = Vault!None

VaultListingOK ==
    \A b \in Blob : listed[b] # Vault!None => \E i \in 1 .. Len(refs) : refs[i] = b

VaultReasonsOK == \A f \in failed : f.reason \in {"failed", "refused"}
                               /\ (f.reason = "refused" => refused)

VaultReturnedOK ==
    /\ result \in {"whole", "unread"} => ~refused
    /\ result = "whole" => \A i \in 1 .. Len(refs) : VaultHave(refs[i])

VaultIInv ==
    /\ VaultTypes /\ VaultStoredOK /\ VaultProgressOK /\ VaultAtOK
    /\ VaultListingOK /\ VaultReasonsOK /\ VaultReturnedOK

LEMMA VaultInitIInv == ASSUME VaultBounds, Vault!Init PROVE VaultIInv
  <1> USE DEF Vault!None
  <1>1. /\ stored \in VaultVersion /\ cache \in VaultVersion /\ at \in [Vault!Worker -> Int]
        /\ listed \in VaultVersion /\ out \in VaultVersion
    BY DEF Vault!Init, VaultVersion, Vault!Nothing
  <1>2. refs \in Seq(Blob) /\ Len(refs) = 0 /\ cursor = 0 /\ refused \in BOOLEAN
    BY EmptySeq DEF Vault!Init
  <1>3. VaultTypes
    BY <1>1, <1>2 DEF VaultTypes
  <1>4. VaultStoredOK /\ VaultProgressOK /\ VaultListingOK /\ VaultReasonsOK /\ VaultReturnedOK
    BY DEF Vault!Init, Vault!Nothing, VaultStoredOK, VaultProgressOK, VaultListingOK,
           VaultReasonsOK, VaultReturnedOK
  <1>5. VaultAtOK
    BY DEF Vault!Init, VaultAtOK
  <1> QED
    BY <1>3, <1>4, <1>5 DEF VaultIInv

-----------------------------------------------------------------------------
(* Other devices change nothing of the pull, and a blob they delete is     *)
(* known to be gone.                                                       *)
LEMMA VaultDevicesIInv ==
  ASSUME VaultIInv, UNCHANGED Vault!pull, gone \subseteq gone', stored' \in VaultVersion,
         \A b \in Blob : stored'[b] >= stored[b] \/ b \in gone'
  PROVE  VaultIInv'
  <1> USE DEF VaultIInv, Vault!pull
  <1>1. VaultTypes'
    BY DEF VaultTypes
  <1>2. VaultStoredOK'
    BY DEF VaultStoredOK, VaultTypes, VaultVersion
  <1>3. \A b : VaultHave(b) => VaultHave(b)'
    BY DEF VaultHave
  <1>4. VaultProgressOK' /\ VaultReturnedOK'
    BY <1>3 DEF VaultProgressOK, VaultReturnedOK, VaultTaken
  <1>5. VaultAtOK' /\ VaultListingOK' /\ VaultReasonsOK'
    BY DEF VaultAtOK, VaultListingOK, VaultReasonsOK, Vault!Pulling
  <1> QED
    BY <1>1, <1>2, <1>4, <1>5

LEMMA VaultPutIInv == ASSUME VaultIInv, NEW b \in Blob, Vault!Put(b) PROVE VaultIInv'
  <1>1. stored' \in VaultVersion /\ \A x \in Blob : stored'[x] >= stored[x]
    BY DEF Vault!Put, VaultIInv, VaultTypes, VaultVersion
  <1> QED
    BY <1>1, VaultDevicesIInv DEF Vault!Put, Vault!Change

LEMMA VaultDeleteIInv ==
  ASSUME VaultIInv, NEW b \in Blob, Vault!Delete(b)
  PROVE  VaultIInv'
  <1>1. stored' \in VaultVersion
    BY DEF Vault!Delete, VaultIInv, VaultTypes, VaultVersion, Vault!None
  <1>2. \A x \in Blob : stored'[x] >= stored[x] \/ x \in gone'
    BY DEF Vault!Delete, VaultIInv, VaultTypes, VaultVersion
  <1> QED
    BY <1>1, <1>2, VaultDevicesIInv DEF Vault!Delete, Vault!Change

-----------------------------------------------------------------------------
(* A pull begins with as many refs taken as there are workers to take one: *)
(* m of them.                                                              *)
LEMMA VaultBeginIInv == ASSUME VaultBounds, VaultIInv, Vault!Begin PROVE VaultIInv'
  <1> DEFINE S == {b \in Blob : stored[b] # Vault!None}
             n == Cardinality(S)
  <1>1. S \in SUBSET Blob /\ IsFiniteSet(S)
    BY FS_Subset DEF VaultBounds
  <1>2. /\ n \in Nat /\ refs' \in [1 .. n -> S]
        /\ \A b \in S : \E i \in 1 .. n : refs'[i] = b
    BY <1>1, VaultListing DEF Vault!Begin
  <1> HIDE DEF n, S
  <1>3. refs' \in Seq(S) /\ Len(refs') = n
    <2>1. refs' \in Seq(S)
      BY <1>2, SeqDef
    <2> QED
      BY <1>2, <2>1, LenProperties
  <1>4. /\ cursor' \in 0 .. n
        /\ \A i \in 1 .. cursor' : \E w \in Vault!Worker : at'[w] = i
        /\ \A w \in Vault!Worker : at'[w] \in 0 .. cursor'
    <2>1. at' = [w \in Vault!Worker |-> IF w <= n THEN w ELSE Vault!None]
      BY <1>3 DEF Vault!Begin
    <2> DEFINE m == IF Concurrency <= n THEN Concurrency ELSE n
               W == {w \in Vault!Worker : at'[w] # Vault!None}
    <2>2. cursor' = Cardinality(W)
      BY SameCount DEF Vault!Begin
    <2>3. m \in 0 .. n /\ W = 1 .. m
      BY <1>2, <2>1 DEF VaultBounds, Vault!Worker, Vault!None
    <2>4. \A w \in Vault!Worker : at'[w] \in 0 .. m
      BY <1>2, <2>1 DEF VaultBounds, Vault!Worker, Vault!None
    <2>5. \A i \in 1 .. m : i \in Vault!Worker /\ at'[i] = i
      BY <1>2, <2>1 DEF VaultBounds, Vault!Worker
    <2> HIDE DEF m, W
    <2>6. cursor' = m
      BY <1>2, <2>2, <2>3, FS_Interval
    <2> QED
      BY <2>3, <2>4, <2>5, <2>6
  <1>5. /\ listed' = stored /\ stored' = stored /\ gone' = {} /\ out' = Vault!Nothing
        /\ failed' = {} /\ refused' = FALSE
        /\ result' = IF refs' = <<>> THEN "whole" ELSE "pulling"
        /\ cache' = Vault!Kept(result')
        /\ at' = [w \in Vault!Worker |-> IF w <= Len(refs') THEN w ELSE Vault!None]
    BY DEF Vault!Begin
  <1>6. out' \in VaultVersion /\ cache' \in VaultVersion
    BY <1>5 DEF Vault!Nothing, Vault!None, VaultVersion, Vault!Kept, VaultIInv,
                VaultTypes
  <1>7. VaultTypes'
    <2>1. refs' \in Seq(Blob)
      BY <1>1, <1>3, SeqMonotonic
    <2>2. at' \in [Vault!Worker -> Int]
      BY <1>5 DEF Vault!Worker, VaultBounds, Vault!None
    <2>3. stored' \in VaultVersion /\ listed' \in VaultVersion
      BY <1>5 DEF VaultIInv, VaultTypes
    <2> QED
      BY <2>1, <2>2, <2>3, <1>3, <1>4, <1>5, <1>6 DEF VaultTypes
  <1>8. VaultStoredOK'
    BY <1>5 DEF VaultStoredOK, VaultIInv, VaultTypes, VaultVersion
  <1>9. VaultProgressOK'
    BY <1>4 DEF VaultProgressOK, VaultTaken
  <1>10. result' = "whole" => n = 0
    BY <1>3, <1>5
  <1>11. VaultAtOK'
    BY <1>4, <1>5, <1>10 DEF VaultAtOK, Vault!Pulling, Vault!None
  <1>12. VaultListingOK'
    BY <1>2, <1>3, <1>5 DEF VaultListingOK, S
  <1>13. VaultReasonsOK'
    BY <1>5 DEF VaultReasonsOK
  <1>14. VaultReturnedOK'
    BY <1>3, <1>5, <1>10 DEF VaultReturnedOK
  <1> QED
    BY <1>7, <1>8, <1>9, <1>11, <1>12, <1>13, <1>14 DEF VaultIInv

-----------------------------------------------------------------------------
(* What a worker that settles its ref leaves to its next: the ref is had   *)
(* or failed, and nothing that was had is lost.                            *)
VaultSettles(w) ==
    /\ out' \in VaultVersion /\ refused' \in BOOLEAN
    /\ failed \subseteq failed' /\ (refused => refused')
    /\ \A i \in 1 .. Len(refs) :
         at[w] = i => VaultHave(refs[i])' \/ \E f \in failed' : f.ref = i
    /\ \A i \in 1 .. Len(refs) : VaultHave(refs[i]) => VaultHave(refs[i])'
    /\ VaultReasonsOK'

LEMMA VaultTakesIInv ==
  ASSUME VaultIInv, NEW w \in Vault!Worker, at[w] # Vault!None,
         Vault!Takes(w), VaultSettles(w)
  PROVE  VaultIInv'
  <1> USE DEF VaultIInv
  <1>1. /\ at' = [at EXCEPT ![w] = IF cursor < Len(refs) THEN cursor + 1 ELSE Vault!None]
        /\ cursor' = IF cursor < Len(refs) THEN cursor + 1 ELSE cursor
        /\ result' = IF \A v \in Vault!Worker : at'[v] = Vault!None
                     THEN Vault!Outcome(refused', failed') ELSE result
        /\ cache' = Vault!Kept(result')
        /\ UNCHANGED <<stored, gone, refs, listed>>
    BY DEF Vault!Takes, Vault!server
  <1>2. Vault!Pulling
    BY DEF VaultAtOK
  <1>3. cursor \in Nat /\ Len(refs) \in Nat /\ cursor <= Len(refs)
    BY DEF VaultTypes
  <1>4. VaultTypes'
    BY <1>1, <1>3 DEF VaultTypes, VaultSettles, Vault!Kept, Vault!None
  <1>5. VaultStoredOK' /\ VaultListingOK' /\ VaultReasonsOK'
    BY <1>1 DEF VaultStoredOK, VaultListingOK, VaultSettles
  <1>6. ASSUME NEW i \in 1 .. cursor' PROVE VaultTaken(i)'
    <2>1. CASE i = cursor + 1
      BY <2>1, <1>1, <1>3, <1>6 DEF VaultTaken, VaultTypes
    <2>2. CASE i # cursor + 1
      <3>1. i \in 1 .. cursor /\ VaultTaken(i)
        BY <2>2, <1>1, <1>3, <1>6 DEF VaultProgressOK
      <3>2. CASE i = at[w]
        BY <3>1, <3>2, <1>1, <1>3 DEF VaultSettles, VaultTaken
      <3>3. ASSUME NEW v \in Vault!Worker, v # w, at[v] = i PROVE at'[v] = i
        BY <3>3, <1>1 DEF VaultTypes
      <3>4. i \in 1 .. Len(refs)
        BY <3>1, <1>3
      <3> QED
        BY <3>1, <3>2, <3>3, <3>4, <1>1 DEF VaultTaken, VaultSettles
    <2> QED
      BY <2>1, <2>2
  <1>7. VaultProgressOK'
    BY <1>6 DEF VaultProgressOK
  <1>8. ASSUME NEW v \in Vault!Worker PROVE at'[v] \in 0 .. cursor'
    BY <1>1, <1>3 DEF VaultAtOK, VaultTypes, Vault!None
  <1>9. ~Vault!Pulling' => \A v \in Vault!Worker : at'[v] = Vault!None
    BY <1>1, <1>2 DEF Vault!Pulling
  <1>10. VaultAtOK'
    BY <1>8, <1>9 DEF VaultAtOK
  <1>11. ASSUME result' \in {"whole", "unread"}
         PROVE  /\ \A v \in Vault!Worker : at'[v] = Vault!None
                /\ result' = Vault!Outcome(refused', failed')
    BY <1>11, <1>1, <1>2 DEF Vault!Pulling
  <1>12. result' \in {"whole", "unread"} => ~refused'
    BY <1>11 DEF Vault!Outcome
  <1>13. ASSUME result' = "whole", NEW i \in 1 .. Len(refs') PROVE VaultHave(refs[i])'
    <2>1. failed' = {}
      BY <1>11, <1>13 DEF Vault!Outcome
    <2>2. cursor' = Len(refs)
      BY <1>11, <1>13, <1>1, <1>3 DEF VaultTypes, Vault!None
    <2>3. VaultTaken(i)'
      BY <2>2, <1>1, <1>7, <1>13 DEF VaultProgressOK
    <2> QED
      BY <2>1, <2>3, <1>11, <1>13, <1>1 DEF VaultTaken, Vault!None
  <1>14. VaultReturnedOK'
    BY <1>12, <1>13 DEF VaultReturnedOK
  <1> QED
    BY <1>4, <1>5, <1>7, <1>10, <1>14

LEMMA VaultFetchedSettles ==
  ASSUME VaultIInv, NEW w \in Vault!Worker, Vault!Fetched(w)
  PROVE  VaultSettles(w)
  <1> USE DEF VaultIInv
  <1>1. PICK b \in Blob : b = refs[at[w]]
    BY DEF Vault!Fetched, VaultAtOK, VaultTypes, Vault!None
  <1>2. /\ out' = [out EXCEPT ![b] = stored[b]]
        /\ UNCHANGED <<failed, refused, gone, refs, listed>>
    BY <1>1 DEF Vault!Fetched, Vault!Takes, Vault!server
  <1>3. out' \in VaultVersion
    BY <1>1, <1>2 DEF VaultTypes, VaultVersion
  <1>4. \A x \in Blob : VaultHave(x) => VaultHave(x)'
    BY <1>1, <1>2 DEF VaultHave, VaultTypes, VaultVersion, VaultStoredOK
  <1>5. VaultHave(b)'
    BY <1>1, <1>2 DEF VaultHave, VaultTypes, VaultVersion, VaultStoredOK
  <1>6. ASSUME NEW i \in 1 .. Len(refs), at[w] = i PROVE VaultHave(refs[i])'
    BY <1>1, <1>2, <1>5, <1>6 DEF VaultHave
  <1>7. \A i \in 1 .. Len(refs) : VaultHave(refs[i]) => VaultHave(refs[i])'
    BY <1>4, <1>2 DEF VaultTypes, VaultHave
  <1>8. VaultReasonsOK'
    BY <1>2 DEF VaultReasonsOK
  <1> QED
    BY <1>2, <1>3, <1>6, <1>7, <1>8 DEF VaultSettles, VaultTypes

LEMMA VaultFailsSettles ==
  ASSUME VaultIInv, NEW w \in Vault!Worker, NEW why \in {"failed", "refused"},
         Vault!Fails(w, why)
  PROVE  VaultSettles(w)
  <1> USE DEF VaultIInv
  <1> DEFINE r == [ref |-> at[w], reason |-> why]
  <1>1. /\ failed' = failed \union {r} /\ refused' = (refused \/ why = "refused")
        /\ UNCHANGED <<out, gone, refs, listed>>
    BY DEF Vault!Fails, Vault!Takes, Vault!server
  <1>2. r.ref = at[w] /\ r.reason = why
    OBVIOUS
  <1> HIDE DEF r
  <1>3. \A i \in 1 .. Len(refs) : VaultHave(refs[i]) => VaultHave(refs[i])'
    BY <1>1 DEF VaultHave
  <1>4. VaultReasonsOK'
    BY <1>1, <1>2 DEF VaultReasonsOK
  <1>5. \E f \in failed' : f.ref = at[w]
    BY <1>1, <1>2
  <1>6. refused' \in BOOLEAN /\ (refused => refused')
    BY <1>1
  <1> QED
    BY <1>1, <1>3, <1>4, <1>5, <1>6 DEF VaultSettles, VaultTypes

LEMMA VaultStepIInv ==
  ASSUME VaultBounds, VaultIInv, [Vault!Next]_(Vault!vars)
  PROVE  VaultIInv'
  <1>1. CASE UNCHANGED Vault!vars
    BY <1>1 DEF Vault!vars, Vault!server, Vault!pull, VaultIInv, VaultTypes,
                VaultStoredOK, VaultHave, VaultTaken, VaultProgressOK, VaultAtOK,
                VaultListingOK, VaultReasonsOK, VaultReturnedOK, Vault!Pulling
  <1>2. ASSUME NEW w \in Vault!Worker, Vault!Fetched(w) PROVE VaultIInv'
    BY <1>2, VaultFetchedSettles, VaultTakesIInv DEF Vault!Fetched
  <1>3. ASSUME NEW w \in Vault!Worker, NEW why \in {"failed", "refused"}, Vault!Fails(w, why)
        PROVE  VaultIInv'
    BY <1>3, VaultFailsSettles, VaultTakesIInv DEF Vault!Fails
  <1> QED
    BY <1>1, <1>2, <1>3, VaultPutIInv, VaultDeleteIInv, VaultBeginIInv DEF Vault!Next

(* The inductive invariant of the pull holds throughout: each blob taken is *)
(* being fetched, has failed or is had.                                    *)
THEOREM VaultInvariance == ASSUME VaultBounds PROVE Vault!Spec => []VaultIInv
  <1>1. Vault!Init => VaultIInv
    BY VaultInitIInv
  <1>2. VaultIInv /\ [Vault!Next]_(Vault!vars) => VaultIInv'
    BY VaultStepIInv
  <1> QED
    BY <1>1, <1>2, PTL DEF Vault!Spec

-----------------------------------------------------------------------------
(* No version is later than the changes there were, and what failed was    *)
(* taken.                                                                  *)
VaultNumbered ==
    /\ changes \in 0 .. MaxChanges
    /\ {stored, listed, out, cache} \subseteq [Blob -> 0 .. changes + 1]
    /\ \A f \in failed : f.ref \in 1 .. cursor
    /\ result \in {"none", "pulling", "whole", "unread", "refused"}

LEMMA VaultStepNumbered ==
  ASSUME MaxChanges \in Nat, VaultIInv, VaultIInv', VaultNumbered, [Vault!Next]_(Vault!vars)
  PROVE  VaultNumbered'
  <1> USE DEF Vault!None
  <1>1. CASE UNCHANGED Vault!vars
    BY <1>1 DEF Vault!vars, Vault!server, Vault!pull, VaultNumbered
  <1>2. ASSUME NEW b \in Blob, Vault!Put(b) PROVE VaultNumbered'
    <2>1. /\ changes' = changes + 1 /\ changes < MaxChanges
          /\ stored' = [stored EXCEPT ![b] = @ + 1] /\ UNCHANGED Vault!pull
      BY <1>2 DEF Vault!Put, Vault!Change
    <2>2. stored' \in [Blob -> 0 .. changes' + 1]
      BY <2>1 DEF VaultNumbered
    <2>3. {listed, out, cache} \subseteq [Blob -> 0 .. changes' + 1]
      BY <2>1 DEF VaultNumbered
    <2> QED
      BY <2>1, <2>2, <2>3 DEF VaultNumbered, Vault!pull
  <1>3. ASSUME NEW b \in Blob, Vault!Delete(b) PROVE VaultNumbered'
    <2>1. /\ changes' = changes + 1 /\ changes < MaxChanges
          /\ stored' = [stored EXCEPT ![b] = Vault!None] /\ UNCHANGED Vault!pull
      BY <1>3 DEF Vault!Delete, Vault!Change
    <2>2. stored' \in [Blob -> 0 .. changes' + 1]
      BY <2>1 DEF VaultNumbered
    <2>3. {listed, out, cache} \subseteq [Blob -> 0 .. changes' + 1]
      BY <2>1 DEF VaultNumbered
    <2> QED
      BY <2>1, <2>2, <2>3 DEF VaultNumbered, Vault!pull
  <1>4. CASE Vault!Begin
    <2>1. /\ UNCHANGED <<stored, changes>> /\ listed' = stored /\ out' = Vault!Nothing
          /\ failed' = {} /\ cache' \in {out', cache}
          /\ result' \in {"whole", "pulling"}
      BY <1>4 DEF Vault!Begin, Vault!Kept
    <2>2. out' \in [Blob -> 0 .. changes + 1]
      BY <2>1 DEF Vault!Nothing, VaultNumbered
    <2> QED
      BY <2>1, <2>2 DEF VaultNumbered
  <1>5. ASSUME NEW w \in Vault!Worker, at[w] # Vault!None, Vault!Takes(w),
               out' \in [Blob -> 0 .. changes + 1],
               \A f \in failed' : f.ref \in 1 .. cursor
        PROVE  VaultNumbered'
    <2>1. /\ UNCHANGED <<stored, listed, changes>> /\ cache' \in {out', cache}
          /\ cursor' \in {cursor, cursor + 1}
          /\ result' \in {result, "refused", "unread", "whole"}
      BY <1>5 DEF Vault!Takes, Vault!server, Vault!Kept, Vault!Outcome
    <2>2. cursor \in Nat
      BY DEF VaultIInv, VaultTypes
    <2> QED
      BY <1>5, <2>1, <2>2 DEF VaultNumbered
  <1>6. ASSUME NEW w \in Vault!Worker, Vault!Fetched(w) PROVE VaultNumbered'
    <2>1. out' \in [Blob -> 0 .. changes + 1]
      <3>1. PICK b \in Blob : b = refs[at[w]]
        BY <1>6 DEF Vault!Fetched, VaultIInv, VaultAtOK, VaultTypes
      <3> QED
        BY <3>1, <1>6 DEF Vault!Fetched, VaultNumbered
    <2> QED
      BY <1>5, <1>6, <2>1 DEF Vault!Fetched, VaultNumbered
  <1>7. ASSUME NEW w \in Vault!Worker, NEW why \in {"failed", "refused"}, Vault!Fails(w, why)
        PROVE  VaultNumbered'
    <2>1. at[w] \in 1 .. cursor
      BY <1>7 DEF Vault!Fails, VaultIInv, VaultAtOK, VaultTypes
    <2>2. \A f \in failed' : f.ref \in 1 .. cursor
      BY <2>1, <1>7 DEF Vault!Fails, VaultNumbered
    <2> QED
      BY <1>5, <1>7, <2>2 DEF Vault!Fails, VaultNumbered
  <1> QED
    BY <1>1, <1>2, <1>3, <1>4, <1>6, <1>7 DEF Vault!Next

(* The types, and that no version is later than the changes there were.    *)
THEOREM VaultTypeCorrect ==
  ASSUME VaultBounds, MaxChanges \in Nat
  PROVE  Vault!Spec => []Vault!TypeOK
  <1>1. Vault!Init => VaultIInv /\ VaultNumbered
    <2>1. ASSUME Vault!Init PROVE VaultNumbered
      <3>1. stored \in [Blob -> 0 .. 1] /\ cache \in [Blob -> 0 .. 1]
        BY <2>1 DEF Vault!Init, Vault!None
      <3>2. listed \in [Blob -> 0 .. 1] /\ out \in [Blob -> 0 .. 1]
        BY <2>1 DEF Vault!Init, Vault!Nothing, Vault!None
      <3> QED
        BY <2>1, <3>1, <3>2 DEF Vault!Init, VaultNumbered
    <2> QED
      BY <2>1, VaultInitIInv
  <1>2. VaultIInv /\ [Vault!Next]_(Vault!vars) => VaultIInv'
    BY VaultStepIInv
  <1>3. VaultIInv /\ VaultIInv' /\ VaultNumbered /\ [Vault!Next]_(Vault!vars) => VaultNumbered'
    BY VaultStepNumbered
  <1>4. VaultIInv /\ VaultNumbered => Vault!TypeOK
    <2> SUFFICES ASSUME VaultIInv, VaultNumbered PROVE Vault!TypeOK
      OBVIOUS
    <2>1. [Blob -> 0 .. changes + 1] \subseteq [Blob -> 0 .. MaxChanges + 1]
      BY DEF VaultNumbered
    <2>2. at \in [Vault!Worker -> 0 .. Len(refs)] /\ cursor \in 0 .. Len(refs)
      BY DEF VaultIInv, VaultTypes, VaultAtOK
    <2> QED
      BY <2>1, <2>2 DEF VaultNumbered, Vault!TypeOK
  <1> QED
    BY <1>1, <1>2, <1>3, <1>4, PTL DEF Vault!Spec

-----------------------------------------------------------------------------
(* A pull that returns has each listed blob as it was listed or later, or  *)
(* it was deleted since (sync.ts:163-170), for any vault and any workers.  *)
THEOREM VaultWholePull == ASSUME VaultBounds PROVE Vault!Spec => []Vault!PullIsWhole
  <1>1. VaultIInv => Vault!PullIsWhole
    <2> SUFFICES ASSUME VaultIInv, result = "whole", NEW b \in Vault!ToSet(refs)
                 PROVE  out[b] >= listed[b] \/ b \in gone
      BY DEF Vault!PullIsWhole
    <2>1. PICK i \in 1 .. Len(refs) : b = refs[i]
      BY DEF Vault!ToSet, VaultIInv, VaultTypes
    <2> QED
      BY <2>1 DEF VaultIInv, VaultReturnedOK, VaultHave
  <1> QED
    BY <1>1, VaultInvariance, PTL

(* A session's end, or unpaid sync, met partway is what the pull throws,   *)
(* among whatever other failures (sync.ts:168-170), whenever it is met.    *)
THEOREM VaultRefusalSaid == ASSUME VaultBounds PROVE Vault!Spec => []Vault!RefusalIsSaid
  <1>1. VaultIInv => Vault!RefusalIsSaid
    BY DEF VaultIInv, VaultReasonsOK, VaultReturnedOK, Vault!RefusalIsSaid
  <1> QED
    BY <1>1, VaultInvariance, PTL

(* The cache loses a blob only to its deletion, however many pulls fail    *)
(* partway (vault-cli/src/cli.ts:49-56).                                   *)
THEOREM VaultOnlyDeletedLost ==
  ASSUME VaultBounds
  PROVE  Vault!Spec => Vault!OnlyDeletedIsLost
  <1> DEFINE Lost(b) == cache[b] # Vault!None /\ cache'[b] = Vault!None
             Deleted(b) == stored[b] = Vault!None \/ b \in gone \/ listed[b] = Vault!None
  <1>1. ASSUME VaultBounds, VaultIInv, Vault!Begin, NEW b \in Blob, Lost(b)
        PROVE  Deleted(b)
    <2> DEFINE S == {x \in Blob : stored[x] # Vault!None}
    <2>1. IsFiniteSet(S)
      BY <1>1, FS_Subset DEF VaultBounds
    <2>2. refs' = <<>>
      BY <1>1 DEF Vault!Begin, Vault!Kept, VaultIInv, VaultTypes
    <2>0. refs' = Vault!SetToSeq(S)
      BY <1>1 DEF Vault!Begin
    <2>3. /\ Cardinality(S) \in Nat
          /\ refs' \in [1 .. Cardinality(S) -> S]
          /\ \A x \in S : \E i \in 1 .. Cardinality(S) : refs'[i] = x
      BY <2>0, <2>1, VaultListing
    <2>4. Cardinality(S) = 0
      <3>1. DOMAIN refs' = 1 .. 0
        BY <2>2, EmptySeq, LenProperties
      <3>2. DOMAIN refs' = 1 .. Cardinality(S)
        BY <2>3
      <3> QED
        BY <2>3, <3>1, <3>2
    <2>5. S = {}
      BY <2>3, <2>4
    <2> QED
      BY <2>5, <1>1
  <1>2. ASSUME VaultIInv, VaultIInv', NEW w \in Vault!Worker, at[w] # Vault!None,
               Vault!Takes(w), NEW b \in Blob, Lost(b)
        PROVE  Deleted(b)
    <2>1. result' = "whole" /\ out'[b] = Vault!None /\ UNCHANGED <<gone, listed, refs>>
      BY <1>2 DEF Vault!Takes, Vault!Kept, Vault!server
    <2> SUFFICES ASSUME listed[b] # Vault!None, b \notin gone PROVE FALSE
      OBVIOUS
    <2>2. PICK i \in 1 .. Len(refs) : refs[i] = b
      BY <1>2 DEF VaultIInv, VaultListingOK
    <2>3. out'[b] >= listed'[b]
      BY <2>1, <2>2, <1>2 DEF VaultIInv, VaultReturnedOK, VaultHave
    <2> QED
      BY <2>1, <2>3, <1>2 DEF VaultIInv, VaultTypes, VaultVersion, Vault!None
  <1>3. ASSUME VaultBounds, VaultIInv, VaultIInv', Vault!Next, NEW b \in Blob, Lost(b)
        PROVE  Deleted(b)
    <2>1. cache' # cache
      BY <1>3
    <2>2. \A x \in Blob : ~Vault!Put(x) /\ ~Vault!Delete(x)
      BY <2>1 DEF Vault!Put, Vault!Delete, Vault!Change, Vault!pull
    <2> HIDE DEF Lost, Deleted
    <2> QED
      BY <2>2, <1>1, <1>2, <1>3 DEF Vault!Next, Vault!Fetched, Vault!Fails
  <1>4. ASSUME VaultIInv, VaultIInv', [Vault!Next]_(Vault!vars)
        PROVE  [\A b \in Blob : Lost(b) => Deleted(b)]_(Vault!vars)
    BY <1>3, <1>4
  <1> HIDE DEF Lost, Deleted
  <1>5. Vault!OnlyDeletedIsLost <=> [][\A b \in Blob : Lost(b) => Deleted(b)]_(Vault!vars)
    BY DEF Vault!OnlyDeletedIsLost, Lost, Deleted
  <1> QED
    BY <1>4, <1>5, VaultInvariance, PTL DEF Vault!Spec

-----------------------------------------------------------------------------
(* StampUpgrade.                                                           *)

(* A set of heights has a least one.                                       *)
LEMMA StampMinHeight ==
  ASSUME NEW S, S \subseteq Nat, S # {}
  PROVE  Stamp!Min(S) \in S
  <1> DEFINE R == {p \in Nat \X Nat : p[1] < p[2]}
  <1>1. IsWellFoundedOn(R, Nat)
    BY NatLessThanWellFounded DEF OpToRel
  <1> HIDE DEF R
  <1>2. PICK x \in S : \A y \in S : ~(<<y, x>> \in R)
    BY <1>1, WFMin
  <1>3. ASSUME NEW y \in S PROVE x <= y
    <2>1. <<y, x>> \in Nat \X Nat /\ <<y, x>> \notin R
      BY <1>2
    <2>2. ~(y < x)
      BY <2>1 DEF R
    <2> QED
      BY <2>2
  <1> QED
    BY <1>3 DEF Stamp!Min

-----------------------------------------------------------------------------
(* The inductive invariant.                                                *)

StampWorldOK ==
    /\ block \in [Calendar -> Height \union {Stamp!None}] /\ shown \subseteq Calendar
    /\ \A c \in shown : block[c] # Stamp!None

(* A stamp confirmed at a block keeps the continuation that leads to it.   *)
StampOK ==
    /\ status \in {"none", "pending", "confirmed"}
    /\ merged \subseteq receipts /\ receipts \subseteq Calendar
    /\ status = "none" <=> receipts = {}
    /\ status = "confirmed" <=> blockHeight # Stamp!None
    /\ status = "confirmed" => \E c \in merged \intersect shown : block[c] = blockHeight

StampCallOK ==
    /\ doing \in {"idle", "submit", "upgrade"} /\ ripe \in BOOLEAN
    /\ DOMAIN answer = Calendar
    /\ doing = "submit" => status = "none"
    /\ doing = "upgrade" => status = "pending"

(* An upgrade asks the proof's calendars and no others.                    *)
StampAskedOK ==
    doing = "upgrade" => \A c \in Calendar :
        answer[c] \in IF c \in receipts THEN {"waiting", "failed", "merged", "not_yet"}
                      ELSE {"none"}

(* While one that began ripe is under way, all of them have anchored.      *)
StampRipeOK ==
    ripe => /\ doing = "upgrade" /\ receipts \subseteq shown
            /\ \A c \in Calendar : answer[c] # "not_yet"

StampIInv == StampWorldOK /\ StampOK /\ StampCallOK /\ StampAskedOK /\ StampRipeOK

LEMMA StampInitIInv == ASSUME Stamp!Init PROVE StampIInv
  BY DEF Stamp!Init, StampIInv, StampWorldOK, StampOK, StampCallOK, StampAskedOK,
         StampRipeOK

-----------------------------------------------------------------------------
(* Each action preserves it.                                               *)

LEMMA StampAnchorIInv ==
  ASSUME StampBounds, StampIInv, NEW c \in Calendar, Stamp!Anchor(c)
  PROVE  StampIInv'
  <1> USE DEF Stamp!Anchor, StampIInv, Stamp!stamp, Stamp!call
  <1>1. PICK h \in Height : block' = [block EXCEPT ![c] = h]
    OBVIOUS
  <1>2. h # Stamp!None
    BY DEF StampBounds, Stamp!None
  <1>3. StampWorldOK' /\ \A d \in shown : block'[d] = block[d]
    BY <1>1, <1>2 DEF StampWorldOK
  <1>4. StampOK'
    BY <1>3 DEF StampOK
  <1>5. StampCallOK' /\ StampAskedOK' /\ StampRipeOK'
    BY DEF StampCallOK, StampAskedOK, StampRipeOK
  <1> QED
    BY <1>3, <1>4, <1>5

LEMMA StampShowIInv ==
  ASSUME StampIInv, NEW c \in Calendar, Stamp!Show(c)
  PROVE  StampIInv'
  <1> USE DEF Stamp!Show, StampIInv, Stamp!stamp, Stamp!call
  <1>1. StampWorldOK'
    BY DEF StampWorldOK
  <1>2. StampOK'
    BY DEF StampOK
  <1>3. StampCallOK' /\ StampAskedOK' /\ StampRipeOK'
    BY DEF StampCallOK, StampAskedOK, StampRipeOK
  <1> QED
    BY <1>1, <1>2, <1>3

LEMMA StampBeginIInv == ASSUME StampIInv, Stamp!Begin PROVE StampIInv'
  <1> USE DEF Stamp!Begin, StampIInv, Stamp!world, Stamp!stamp
  <1>1. StampWorldOK'
    BY DEF StampWorldOK
  <1>2. StampOK'
    BY DEF StampOK
  <1>3. StampCallOK'
    BY DEF StampCallOK, StampOK
  <1>4. StampAskedOK' /\ StampRipeOK'
    BY DEF StampAskedOK, StampRipeOK, Stamp!Asks, StampCallOK, StampOK
  <1> QED
    BY <1>1, <1>2, <1>3, <1>4

LEMMA StampAnswersIInv ==
  ASSUME StampIInv, NEW c \in Calendar, Stamp!Answers(c)
  PROVE  StampIInv'
  <1> USE DEF Stamp!Answers, StampIInv, Stamp!world, Stamp!stamp
  <1>1. StampWorldOK'
    BY DEF StampWorldOK
  <1>2. StampOK'
    BY DEF StampOK
  <1>3. StampCallOK'
    BY DEF StampCallOK
  <1>4. StampAskedOK'
    BY DEF StampAskedOK, StampCallOK
  <1>5. StampRipeOK'
    BY DEF StampRipeOK, StampAskedOK, StampWorldOK, StampCallOK
  <1> QED
    BY <1>1, <1>2, <1>3, <1>4, <1>5

LEMMA StampFailsIInv ==
  ASSUME StampIInv, NEW c \in Calendar, Stamp!Fails(c)
  PROVE  StampIInv'
  <1> USE DEF Stamp!Fails, StampIInv, Stamp!world, Stamp!stamp
  <1>1. StampWorldOK'
    BY DEF StampWorldOK
  <1>2. StampOK'
    BY DEF StampOK
  <1>3. StampCallOK'
    BY DEF StampCallOK
  <1>4. StampAskedOK' /\ StampRipeOK'
    BY DEF StampAskedOK, StampRipeOK, StampCallOK
  <1> QED
    BY <1>1, <1>2, <1>3, <1>4

(* A call that ends leaves none under way.                                 *)
LEMMA StampReturnsCall ==
  ASSUME NEW what, Stamp!Returns(what)
  PROVE  StampCallOK' /\ StampAskedOK' /\ StampRipeOK'
  BY DEF Stamp!Returns, StampCallOK, StampAskedOK, StampRipeOK

LEMMA StampThrowsIInv == ASSUME StampIInv, NEW what, Stamp!Throws(what) PROVE StampIInv'
  <1>1. StampCallOK' /\ StampAskedOK' /\ StampRipeOK'
    BY StampReturnsCall DEF Stamp!Throws
  <1> QED
    BY <1>1 DEF Stamp!Throws, Stamp!Returns, StampIInv, Stamp!world, Stamp!stamp,
                StampWorldOK, StampOK

LEMMA StampSubmittedIInv ==
  ASSUME StampBounds, StampIInv, Stamp!Submitted
  PROVE  StampIInv'
  <1> DEFINE ok == Stamp!Asked \ Stamp!Rejected
  <1>1. CASE Cardinality(ok) < MinSuccesses
    BY <1>1, SameCount, StampThrowsIInv DEF Stamp!Submitted
  <1>2. CASE ~(Cardinality(ok) < MinSuccesses)
    <2>1. ok # {}
      BY <1>2, FS_EmptySet DEF StampBounds
    <2>2. /\ Stamp!Returns("pending") /\ status' = "pending" /\ receipts' = ok
          /\ UNCHANGED <<merged, blockHeight>> /\ status = "none"
      BY <1>2, SameCount DEF Stamp!Submitted, StampIInv, StampCallOK
    <2>3. ok \subseteq Calendar
      BY DEF Stamp!Asked
    <2> HIDE DEF ok
    <2>4. StampWorldOK'
      BY <2>2 DEF Stamp!Returns, Stamp!world, StampIInv, StampWorldOK
    <2>5. StampOK'
      BY <2>1, <2>2, <2>3 DEF StampIInv, StampOK
    <2> QED
      BY <2>2, <2>4, <2>5, StampReturnsCall DEF StampIInv
  <1> QED
    BY <1>1, <1>2

(* An upgrade leaves the proof with continuations of its receipts only,    *)
(* and its blocks are blocks.                                              *)
LEMMA StampTreeOfReceipts ==
  ASSUME StampIInv, doing = "upgrade"
  PROVE  Stamp!Tree \subseteq receipts /\ Stamp!Anchors(Stamp!Tree) \subseteq Height
  BY DEF Stamp!Tree, Stamp!Asked, Stamp!Anchors, StampIInv, StampAskedOK,
         StampOK, StampCallOK, StampWorldOK

LEMMA StampUpgradedIInv ==
  ASSUME StampBounds, StampIInv, Stamp!Upgraded
  PROVE  StampIInv'
  <1> DEFINE anchors == Stamp!Anchors(Stamp!Tree)
  <1>0. doing = "upgrade" /\ status = "pending" /\ Stamp!Tree \subseteq receipts
    BY StampTreeOfReceipts DEF Stamp!Upgraded, StampIInv, StampCallOK
  <1>1. CASE anchors # {}
    <2>1. /\ Stamp!Returns("confirmed") /\ status' = "confirmed" /\ merged' = Stamp!Tree
          /\ blockHeight' = Stamp!Min(anchors) /\ UNCHANGED receipts
      BY <1>1 DEF Stamp!Upgraded
    <2>2. anchors \subseteq Nat /\ 0 \notin anchors
      BY <1>0, StampTreeOfReceipts DEF StampBounds
    <2>3. blockHeight' \in anchors
      BY <1>1, <2>1, <2>2, StampMinHeight
    <2>4. \E c \in merged' \intersect shown : block[c] = blockHeight'
      BY <2>1, <2>3 DEF Stamp!Anchors
    <2>5. UNCHANGED Stamp!world
      BY <2>1 DEF Stamp!Returns
    <2>6. blockHeight' # Stamp!None
      BY <2>2, <2>3 DEF Stamp!None
    <2>7. StampOK'
      BY <1>0, <2>1, <2>4, <2>5, <2>6 DEF Stamp!world, StampIInv, StampOK
    <2> QED
      BY <2>1, <2>5, <2>7, StampReturnsCall DEF Stamp!world, StampIInv, StampWorldOK
  <1>2. CASE anchors = {} /\ Stamp!Unread
    BY <1>2, StampThrowsIInv DEF Stamp!Upgraded
  <1>3. CASE anchors = {} /\ ~Stamp!Unread
    <2>1. /\ Stamp!Returns("pending") /\ merged' = Stamp!Tree
          /\ UNCHANGED <<status, receipts, blockHeight>>
      BY <1>3 DEF Stamp!Upgraded
    <2>2. StampOK'
      BY <1>0, <2>1 DEF Stamp!Returns, Stamp!world, StampIInv, StampOK
    <2> QED
      BY <2>1, <2>2, StampReturnsCall DEF Stamp!Returns, Stamp!world, StampIInv,
                                          StampWorldOK
  <1> QED
    BY <1>1, <1>2, <1>3

LEMMA StampStepIInv ==
  ASSUME StampBounds, StampIInv, [Stamp!Next]_(Stamp!vars)
  PROVE  StampIInv'
  <1>1. CASE UNCHANGED Stamp!vars
    BY <1>1 DEF Stamp!vars, Stamp!world, Stamp!stamp, Stamp!call, StampIInv,
                StampWorldOK, StampOK, StampCallOK, StampAskedOK, StampRipeOK
  <1>2. CASE Stamp!HeaderUnread
    BY <1>2, StampThrowsIInv DEF Stamp!HeaderUnread
  <1> QED
    BY <1>1, <1>2, StampAnchorIInv, StampShowIInv, StampAnswersIInv, StampFailsIInv,
       StampBeginIInv, StampSubmittedIInv,
       StampUpgradedIInv DEF Stamp!Next

(* The inductive invariant of the upgrade holds throughout: what is merged, *)
(* asked and shown agree, whichever calendars answer.                      *)
THEOREM StampInvariance == ASSUME StampBounds PROVE Stamp!Spec => []StampIInv
  <1>1. Stamp!Init => StampIInv
    BY StampInitIInv
  <1>2. StampIInv /\ [Stamp!Next]_(Stamp!vars) => StampIInv'
    BY StampStepIInv
  <1> QED
    BY <1>1, <1>2, PTL DEF Stamp!Spec

-----------------------------------------------------------------------------
(* Every variable keeps its type, and the stamp's parts agree: it is       *)
(* confirmed exactly when it has a block.                                  *)
THEOREM StampTypeCorrect == ASSUME StampBounds PROVE Stamp!Spec => []Stamp!TypeOK
  <1>1. StampIInv => Stamp!TypeOK
    BY DEF StampIInv, StampWorldOK, StampOK, Stamp!TypeOK
  <1> QED
    BY <1>1, StampInvariance, PTL

(* A stamp is confirmed at a block the explorer bears out, whatever else   *)
(* its calendars say (upgrade.ts:28-35), for any calendars and blocks.     *)
THEOREM StampConfirmedShown ==
  ASSUME StampBounds
  PROVE  Stamp!Spec => []Stamp!ConfirmedIsShown
  <1>1. StampIInv => Stamp!ConfirmedIsShown
    BY DEF StampIInv, StampOK, Stamp!ConfirmedIsShown
  <1> QED
    BY <1>1, StampInvariance, PTL

(* A proof all of whose calendars had anchored it before it was upgraded   *)
(* is never reported as still pending (upgrade.ts:9, 44-48), whichever of  *)
(* any number of calendars answer.                                         *)
THEOREM StampAnchoredNotPending ==
  ASSUME StampBounds
  PROVE  Stamp!Spec => Stamp!AnchoredIsNotPending
  <1>1. ASSUME StampBounds, StampIInv, Stamp!Upgraded, ripe PROVE told' # "pending"
    <2>1. doing = "upgrade" /\ status = "pending" /\ receipts # {}
      BY <1>1 DEF Stamp!Upgraded, StampIInv, StampCallOK, StampOK
    <2>2. CASE Stamp!Anchors(Stamp!Tree) # {}
      BY <2>2, <1>1 DEF Stamp!Upgraded, Stamp!Returns
    <2>3. CASE Stamp!Anchors(Stamp!Tree) = {}
      <3>1. Stamp!Tree = {}
        BY <2>1, <2>3, <1>1, StampTreeOfReceipts DEF Stamp!Anchors, StampIInv,
                                                     StampRipeOK
      <3>2. \A c \in Stamp!Asked : answer[c] = "failed"
        BY <2>1, <3>1, <1>1 DEF Stamp!Tree, Stamp!Upgraded, Stamp!Settled,
                                Stamp!Asked, StampIInv, StampAskedOK, StampRipeOK
      <3>3. Stamp!Asked # {}
        BY <2>1 , <1>1 DEF Stamp!Asked, StampIInv, StampAskedOK, StampOK
      <3>4. Stamp!Unread
        BY <3>2, <3>3 DEF Stamp!Unread, Stamp!Rejected
      <3> QED
        BY <2>3, <3>4, <1>1 DEF Stamp!Upgraded, Stamp!Throws, Stamp!Returns
    <2> QED
      BY <2>2, <2>3
  <1>2. ASSUME StampBounds, StampIInv, Stamp!Next, ripe, ~ripe' PROVE told' # "pending"
    <2>1. doing = "upgrade"
      BY <1>2 DEF StampIInv, StampRipeOK
    <2>2. ~Stamp!Begin /\ ~Stamp!Submitted
      BY <2>1 DEF Stamp!Begin, Stamp!Submitted
    <2>3. \A c \in Calendar : /\ ~Stamp!Anchor(c) /\ ~Stamp!Show(c)
                             /\ ~Stamp!Answers(c) /\ ~Stamp!Fails(c)
      BY <1>2 DEF Stamp!Anchor, Stamp!Show, Stamp!Answers, Stamp!Fails, Stamp!call
    <2>4. CASE Stamp!HeaderUnread
      BY <2>4 DEF Stamp!HeaderUnread, Stamp!Throws, Stamp!Returns
    <2> QED
      BY <2>2, <2>3, <2>4, <1>1, <1>2 DEF Stamp!Next
  <1>3. ASSUME StampIInv, [Stamp!Next]_(Stamp!vars)
        PROVE  [ripe /\ ~ripe' => told' # "pending"]_(Stamp!vars)
    BY <1>2, <1>3
  <1> QED
    BY <1>3, StampInvariance, PTL DEF Stamp!Spec, Stamp!AnchoredIsNotPending

-----------------------------------------------------------------------------
(* DecisionCache.                                                          *)

CacheRead == {"ok", "bad"} \union Cache!Faults

-----------------------------------------------------------------------------
(* The inductive invariant.                                                *)

CacheClockOK ==
    /\ now \in Nat /\ lastBonded \in Int /\ lastDown \in Int
    /\ lastBonded <= now /\ lastDown <= now
    /\ gate \in BOOLEAN /\ bonded \in BOOLEAN
    /\ bonded => lastBonded = now

(* A lookup is within its deadline, and one that read a bond read it after *)
(* it began.                                                               *)
CacheCallOK(c) ==
    /\ call[c].step \in {"idle", "looking", "read", "done"}
    /\ Cache!Looking(c) => /\ call[c].started \in Int
                           /\ call[c].started <= now /\ now <= call[c].started + Deadline
    /\ call[c].step = "read" => call[c].read \in CacheRead
    /\ call[c].step = "read" /\ call[c].read = "ok" => lastBonded >= call[c].started

CacheCallsOK == DOMAIN call = Caller /\ \A c \in Caller : CacheCallOK(c)

(* An entry is as old as its expiry says; the gate keeps no failure.       *)
CacheEntryOK ==
    /\ entry.expires \in Int
    /\ entry.says = "nothing" => entry.expires < 0
    /\ entry.says = "ok" => lastBonded >= entry.expires - Ttl - Deadline
    /\ entry.says = "fail_open" => ~gate /\ lastDown >= entry.expires - ErrorTtl

CacheIInv == CacheClockOK /\ CacheCallsOK /\ CacheEntryOK

-----------------------------------------------------------------------------
LEMMA CacheInitIInv == ASSUME CacheTimes, Cache!Init PROVE CacheIInv
  <1> USE DEF Cache!Init, CacheTimes, Cache!NoEntry, Cache!Never
  <1>1. CacheClockOK
    BY DEF CacheClockOK
  <1>2. CacheCallsOK
    BY DEF CacheCallsOK, CacheCallOK, Cache!Looking
  <1>3. CacheEntryOK
    BY DEF CacheEntryOK
  <1> QED
    BY <1>1, <1>2, <1>3 DEF CacheIInv

(* What a lookup decides is a verdict only when it read one, and opens     *)
(* only when the chain was down.                                           *)
LEMMA CacheDecidedIs ==
  ASSUME NEW c, NEW v \in CacheRead
  PROVE  /\ Cache!Decided(c, v) = "ok" => v = "ok"
         /\ Cache!Decided(c, v) = "fail_open" => v = "down"
         /\ Cache!Decided(c, v) # "nothing"
  BY DEF Cache!Decided, CacheRead, Cache!Faults

-----------------------------------------------------------------------------
(* Each action preserves it.                                               *)

LEMMA CacheMoveIInv == ASSUME CacheTimes, CacheIInv, Cache!Move PROVE CacheIInv'
  <1> USE DEF Cache!Move, CacheIInv, Cache!config
  <1>1. CacheClockOK' /\ lastBonded' >= lastBonded
    BY DEF CacheClockOK
  <1>2. CacheCallsOK'
    BY <1>1 DEF CacheCallsOK, CacheCallOK, Cache!Looking, CacheClockOK
  <1>3. CacheEntryOK'
    BY <1>1 DEF CacheEntryOK, CacheClockOK, CacheTimes
  <1> QED
    BY <1>1, <1>2, <1>3

LEMMA CacheTickIInv == ASSUME CacheTimes, CacheIInv, Cache!Tick PROVE CacheIInv'
  <1> USE DEF Cache!Tick, CacheIInv, Cache!config, CacheTimes
  <1>1. CacheClockOK' /\ lastBonded' >= lastBonded
    BY DEF CacheClockOK
  <1>2. ASSUME NEW c \in Caller PROVE CacheCallOK(c)'
    BY <1>1 DEF CacheCallsOK, CacheCallOK, Cache!Looking, CacheClockOK, Cache!Due
  <1>3. CacheEntryOK'
    BY <1>1 DEF CacheEntryOK, CacheClockOK
  <1> QED
    BY <1>1, <1>2, <1>3 DEF CacheCallsOK

LEMMA CacheEvictIInv == ASSUME CacheTimes, CacheIInv, Cache!Evict PROVE CacheIInv'
  <1> USE DEF Cache!Evict, CacheIInv, Cache!config, Cache!clock
  <1>1. CacheClockOK'
    BY DEF CacheClockOK
  <1>2. CacheCallsOK'
    BY DEF CacheCallsOK, CacheCallOK, Cache!Looking
  <1>3. CacheEntryOK'
    BY DEF CacheEntryOK, Cache!NoEntry, Cache!Never
  <1> QED
    BY <1>1, <1>2, <1>3

LEMMA CacheAskIInv ==
  ASSUME CacheTimes, CacheIInv, NEW c \in Caller, Cache!Ask(c)
  PROVE  CacheIInv'
  <1> USE DEF Cache!Ask, CacheIInv, Cache!config, Cache!clock, CacheTimes
  <1>1. CacheClockOK'
    BY DEF CacheClockOK
  <1>2. CacheCallsOK'
    BY DEF CacheCallsOK, CacheCallOK, Cache!Looking, CacheClockOK, Cache!Done
  <1>3. CacheEntryOK'
    BY DEF CacheEntryOK, Cache!NoEntry, Cache!Never
  <1> QED
    BY <1>1, <1>2, <1>3

LEMMA CacheReadsIInv ==
  ASSUME CacheTimes, CacheIInv, NEW c \in Caller, Cache!Reads(c)
  PROVE  CacheIInv'
  <1> USE DEF Cache!Reads, CacheIInv, Cache!config, Cache!clock
  <1>1. PICK v \in {IF bonded THEN "ok" ELSE "bad"} \union Cache!Faults :
          call' = [call EXCEPT ![c] = [step |-> "read", started |-> @.started, read |-> v]]
    OBVIOUS
  <1>2. v \in CacheRead /\ (v = "ok" => lastBonded = now)
    BY DEF CacheRead, Cache!Faults, CacheClockOK
  <1>3. CacheClockOK'
    BY DEF CacheClockOK
  <1>4. CacheCallsOK'
    BY <1>1, <1>2 DEF CacheCallsOK, CacheCallOK, Cache!Looking, CacheClockOK
  <1>5. CacheEntryOK'
    BY DEF CacheEntryOK
  <1> QED
    BY <1>3, <1>4, <1>5

LEMMA CacheAnswersIInv ==
  ASSUME CacheTimes, CacheIInv, NEW c \in Caller, Cache!Answers(c)
  PROVE  CacheIInv'
  <1> USE DEF Cache!Answers, CacheIInv, Cache!config, Cache!clock, CacheTimes
  <1> DEFINE v == call[c].read
             d == Cache!Decided(c, v)
  <1>1. v \in CacheRead
    BY DEF CacheCallsOK, CacheCallOK
  <1>2. /\ d = "ok" => v = "ok"
        /\ d = "fail_open" => v = "down"
        /\ d # "nothing"
    BY <1>1, CacheDecidedIs
  <1>3. /\ call' = [call EXCEPT ![c] = Cache!Done(d)]
        /\ entry' = Cache!Kept(d)
        /\ lastDown' = IF v = "down" THEN now ELSE lastDown
    OBVIOUS
  <1>4. v = "ok" => lastBonded >= now - Deadline
    BY DEF CacheCallsOK, CacheCallOK, Cache!Looking, CacheClockOK
  <1> HIDE DEF d, v
  <1>5. CacheClockOK' /\ lastDown' >= lastDown
    BY <1>3 DEF CacheClockOK
  <1>6. CacheCallsOK'
    BY <1>3 DEF CacheCallsOK, CacheCallOK, Cache!Looking, Cache!Done
  <1>7. CacheEntryOK'
    BY <1>2, <1>3, <1>4, <1>5 DEF CacheEntryOK, Cache!Kept, CacheClockOK
  <1> QED
    BY <1>5, <1>6, <1>7

LEMMA CacheTimesOutIInv ==
  ASSUME CacheTimes, CacheIInv, NEW c \in Caller, Cache!TimesOut(c)
  PROVE  CacheIInv'
  <1> USE DEF Cache!TimesOut, CacheIInv, Cache!config, Cache!clock
  <1>1. CacheClockOK'
    BY DEF CacheClockOK
  <1>2. CacheCallsOK'
    BY DEF CacheCallsOK, CacheCallOK, Cache!Looking, Cache!Done
  <1>3. CacheEntryOK'
    BY DEF CacheEntryOK
  <1> QED
    BY <1>1, <1>2, <1>3

LEMMA CacheStepIInv ==
  ASSUME CacheTimes, CacheIInv, [Cache!Next]_(Cache!vars)
  PROVE  CacheIInv'
  <1>1. CASE UNCHANGED Cache!vars
    BY <1>1 DEF Cache!vars, Cache!config, Cache!clock, CacheIInv, CacheClockOK,
                CacheCallsOK, CacheCallOK, Cache!Looking, CacheEntryOK
  <1>2. CASE Cache!Next
    BY <1>2, CacheMoveIInv, CacheTickIInv, CacheEvictIInv, CacheAskIInv,
       CacheReadsIInv, CacheAnswersIInv, CacheTimesOutIInv
       DEF Cache!Next
  <1> QED
    BY <1>1, <1>2

-----------------------------------------------------------------------------
LEMMA CacheStepTypeOK ==
  ASSUME CacheTimes, CacheIInv, CacheIInv', Cache!TypeOK, [Cache!Next]_(Cache!vars)
  PROVE  Cache!TypeOK'
  <1> DEFINE ClockT == /\ now \in 0 .. LastTime /\ lastBonded \in {Cache!Never} \union 0 .. now
                       /\ lastDown \in {Cache!Never} \union 0 .. now
             EntryT == /\ entry = Cache!NoEntry \/ entry.says \in Cache!Decision
                       /\ entry.expires <= now + Ttl \/ entry.expires <= now + ErrorTtl
             DoneT  == \A c \in Caller : call[c].step = "done" => call[c].says \in Cache!Decision
             WaitT  == \A c \in Caller :
                         Cache!Looking(c) => now \in call[c].started .. call[c].started + Deadline
  <1>1. ClockT /\ EntryT /\ DoneT
    BY DEF Cache!TypeOK
  <1>2. ASSUME NEW c \in Caller, Cache!Answers(c)
        PROVE  Cache!Decided(c, call[c].read) \in Cache!Decision
    BY <1>2 DEF Cache!Answers, Cache!Decided, Cache!Decision, CacheIInv, CacheCallsOK,
                CacheCallOK, CacheRead, Cache!Faults
  <1>3. ASSUME NEW c \in Caller, Cache!Ask(c), Cache!Fresh
        PROVE  entry.says \in Cache!Decision
    BY <1>1, <1>3 DEF Cache!Fresh, Cache!NoEntry, Cache!Never, CacheIInv, CacheClockOK
  <1>4. ClockT'
    <2> USE DEF CacheIInv, CacheClockOK, CacheTimes
    <2>1. CASE Cache!Move
      BY <2>1, <1>1 DEF Cache!Move
    <2>2. CASE Cache!Tick
      BY <2>2, <1>1 DEF Cache!Tick
    <2>3. CASE UNCHANGED <<now, lastBonded>> /\ lastDown' \in {lastDown, now}
      BY <2>3, <1>1
    <2> QED
      BY <2>1, <2>2, <2>3 DEF Cache!Next, Cache!vars, Cache!clock, Cache!Evict,
                              Cache!Ask, Cache!Reads, Cache!Answers, Cache!TimesOut
  <1>5. EntryT'
    <2>0. /\ now \in Nat /\ now' \in Nat /\ now' >= now
          /\ entry.expires \in Int /\ Ttl \in Nat /\ ErrorTtl \in Nat
      BY DEF CacheIInv, CacheClockOK, CacheEntryOK, CacheTimes, Cache!Next,
             Cache!vars, Cache!clock, Cache!Move, Cache!Tick, Cache!Evict, Cache!Ask,
             Cache!Reads,
             Cache!Answers, Cache!TimesOut
    <2>1. CASE entry' = Cache!NoEntry /\ now' = now
      <3>1. -99 <= now + Ttl
        BY <2>0
      <3> QED
        BY <2>1, <3>1 DEF Cache!NoEntry, Cache!Never
    <2>2. CASE entry' = entry
      BY <2>0, <2>2, <1>1
    <2>3. ASSUME NEW c \in Caller, Cache!Answers(c) PROVE EntryT'
      <3> DEFINE d == Cache!Decided(c, call[c].read)
      <3>1. entry' = Cache!Kept(d) /\ now' = now /\ d \in Cache!Decision
        BY <2>3, <1>2 DEF Cache!Answers, Cache!clock
      <3> HIDE DEF d
      <3> QED
        BY <2>0, <3>1, <1>1 DEF Cache!Kept
    <2> QED
      BY <2>1, <2>2, <2>3
         DEF Cache!Next, Cache!vars, Cache!clock, Cache!Move, Cache!Tick, Cache!Evict,
             Cache!Ask, Cache!Reads, Cache!TimesOut
  <1>6. DoneT'
    <2> USE DEF CacheIInv, CacheCallsOK
    <2>1. ASSUME NEW c \in Caller, Cache!Ask(c) PROVE DoneT'
      BY <2>1, <1>1, <1>3 DEF Cache!Ask, Cache!Done
    <2>2. ASSUME NEW c \in Caller, Cache!Reads(c) PROVE DoneT'
      BY <2>2, <1>1 DEF Cache!Reads
    <2>3. ASSUME NEW c \in Caller, Cache!Answers(c) PROVE DoneT'
      <3> DEFINE d == Cache!Decided(c, call[c].read)
      <3>1. call' = [call EXCEPT ![c] = Cache!Done(d)] /\ d \in Cache!Decision
        BY <2>3, <1>2 DEF Cache!Answers
      <3> HIDE DEF d
      <3> QED
        BY <3>1, <1>1 DEF Cache!Done
    <2>4. ASSUME NEW c \in Caller, Cache!TimesOut(c) PROVE DoneT'
      BY <2>4, <1>1 DEF Cache!TimesOut, Cache!Done, Cache!Decision
    <2>5. CASE UNCHANGED call
      BY <2>5, <1>1
    <2> QED
      BY <2>1, <2>2, <2>3, <2>4, <2>5 DEF Cache!Next, Cache!vars, Cache!Move,
                                          Cache!Tick, Cache!Evict
  <1>7. WaitT'
    BY DEF CacheIInv, CacheCallsOK, CacheCallOK, CacheClockOK, CacheTimes
  <1> QED
    BY <1>4, <1>5, <1>6, <1>7 DEF Cache!TypeOK

(* Every time, entry and call has its type: no entry outlasts its stay, no *)
(* lookup its deadline.                                                    *)
THEOREM CacheTypeCorrect == ASSUME CacheTimes PROVE Cache!Spec => []Cache!TypeOK
  <1>1. Cache!Init => CacheIInv /\ Cache!TypeOK
    BY CacheInitIInv DEF Cache!Init, Cache!TypeOK, CacheTimes, Cache!NoEntry,
                         Cache!Never, Cache!Looking
  <1>2. CacheIInv /\ [Cache!Next]_(Cache!vars) => CacheIInv'
    BY CacheStepIInv
  <1>3. CacheIInv /\ CacheIInv' /\ Cache!TypeOK /\ [Cache!Next]_(Cache!vars) => Cache!TypeOK'
    BY CacheStepTypeOK
  <1> QED
    BY <1>1, <1>2, <1>3, PTL DEF Cache!Spec

-----------------------------------------------------------------------------
(* A step that serves a caller is his asking or his answer.                *)
LEMMA CacheServedBy ==
  ASSUME CacheIInv, Cache!Next, NEW c \in Caller, NEW d, d # "timeout", Cache!Serves(c, d)
  PROVE  Cache!Ask(c) \/ Cache!Answers(c)
  <1> USE DEF Cache!Serves, Cache!Done
  <1>1. ~Cache!Move /\ ~Cache!Tick /\ ~Cache!Evict
    BY DEF Cache!Move, Cache!Tick, Cache!Evict
  <1>2. ASSUME NEW k \in Caller, Cache!Ask(k) PROVE Cache!Ask(c)
    BY <1>2 DEF Cache!Ask, CacheIInv, CacheCallsOK
  <1>3. ASSUME NEW k \in Caller, Cache!Answers(k) PROVE Cache!Answers(c)
    BY <1>3 DEF Cache!Answers, CacheIInv, CacheCallsOK
  <1>4. ASSUME NEW k \in Caller, Cache!Reads(k) PROVE FALSE
    BY <1>4 DEF Cache!Reads, CacheIInv, CacheCallsOK
  <1>5. ASSUME NEW k \in Caller, Cache!TimesOut(k) PROVE FALSE
    BY <1>5 DEF Cache!TimesOut, CacheIInv, CacheCallsOK
  <1> QED
    BY <1>1, <1>2, <1>3, <1>4, <1>5 DEF Cache!Next

(* Served at once, a caller has what a fresh entry says.                   *)
LEMMA CacheServedFresh ==
  ASSUME CacheIInv, NEW c \in Caller, NEW d, Cache!Ask(c), Cache!Serves(c, d)
  PROVE  Cache!Fresh /\ entry.says = d
  BY DEF Cache!Ask, Cache!Serves, Cache!Done, CacheIInv, CacheCallsOK

(* Served by his own lookup, he has what it decided.                       *)
LEMMA CacheServedDecided ==
  ASSUME CacheIInv, NEW c \in Caller, NEW d, Cache!Answers(c), Cache!Serves(c, d)
  PROVE  d = Cache!Decided(c, call[c].read)
  BY DEF Cache!Answers, Cache!Serves, Cache!Done, CacheIInv, CacheCallsOK

-----------------------------------------------------------------------------
(* Whoever is let in by a verdict had a bond at most one lookup and one    *)
(* stay in the cache ago (filter.ts:15-20), for any number of callers.     *)
THEOREM CacheAllowRecent == ASSUME CacheTimes PROVE Cache!Spec => Cache!AllowIsRecent
  <1> DEFINE Recent(c) == Cache!Serves(c, "ok") => lastBonded >= now - Ttl - Deadline
  <1>1. ASSUME CacheIInv, Cache!Next, NEW c \in Caller, Cache!Serves(c, "ok")
        PROVE  lastBonded >= now - Ttl - Deadline
    <2>1. CASE Cache!Ask(c)
      BY <2>1, <1>1, CacheServedFresh DEF Cache!Fresh, CacheIInv, CacheEntryOK,
                                          CacheClockOK, CacheTimes
    <2>2. CASE Cache!Answers(c)
      <3>1. call[c].read \in CacheRead /\ Cache!Looking(c)
        BY <2>2, <1>1 DEF Cache!Answers, CacheIInv, CacheCallsOK, CacheCallOK,
                          Cache!Looking
      <3>2. call[c].read = "ok"
        BY <2>2, <1>1, <3>1, CacheServedDecided, CacheDecidedIs
      <3> QED
        BY <2>2, <1>1, <3>1, <3>2 DEF Cache!Answers, CacheIInv, CacheCallsOK,
                                      CacheCallOK, CacheClockOK, CacheTimes
    <2> QED
      BY <1>1, CacheServedBy, <2>1, <2>2
  <1>2. ASSUME CacheIInv, [Cache!Next]_(Cache!vars)
        PROVE  [\A c \in Caller : Recent(c)]_(Cache!vars)
    BY <1>1, <1>2
  <1>3. Cache!Init => CacheIInv
    BY CacheInitIInv
  <1>4. CacheIInv /\ [Cache!Next]_(Cache!vars) => CacheIInv'
    BY CacheStepIInv
  <1> HIDE DEF Recent
  <1>5. Cache!AllowIsRecent <=> [][\A c \in Caller : Recent(c)]_(Cache!vars)
    BY DEF Cache!AllowIsRecent, Recent
  <1> QED
    BY <1>2, <1>3, <1>4, <1>5, PTL DEF Cache!Spec

(* Whoever is let in without a verdict is let in because a lookup of the   *)
(* key failed a moment before, and by the gate only because his own did    *)
(* (filter.ts:125-158, core.ts:331-381), for any number of callers.        *)
THEOREM CacheFailOpenBrief ==
  ASSUME CacheTimes
  PROVE  Cache!Spec => Cache!FailOpenIsBrief
  <1> DEFINE Brief(c) == Cache!Serves(c, "fail_open") =>
                           lastDown' >= now - (IF gate THEN 0 ELSE ErrorTtl)
  <1>1. ASSUME CacheIInv, Cache!Next, NEW c \in Caller, Cache!Serves(c, "fail_open")
        PROVE  lastDown' >= now - (IF gate THEN 0 ELSE ErrorTtl)
    <2>1. CASE Cache!Ask(c)
      <3>1. now <= entry.expires /\ entry.says = "fail_open"
        BY <2>1, <1>1, CacheServedFresh DEF Cache!Fresh
      <3>2. ~gate /\ lastDown >= entry.expires - ErrorTtl
        BY <1>1, <3>1 DEF CacheIInv, CacheEntryOK
      <3>3. lastDown' = lastDown
        BY <2>1 DEF Cache!Ask
      <3> QED
        BY <1>1, <3>1, <3>2, <3>3 DEF CacheIInv, CacheEntryOK, CacheClockOK, CacheTimes
    <2>2. CASE Cache!Answers(c)
      <3>1. call[c].read \in CacheRead
        BY <2>2, <1>1 DEF Cache!Answers, CacheIInv, CacheCallsOK, CacheCallOK
      <3>2. call[c].read = "down"
        BY <2>2, <1>1, <3>1, CacheServedDecided, CacheDecidedIs
      <3> QED
        BY <2>2, <1>1, <3>2 DEF Cache!Answers, CacheIInv, CacheClockOK, CacheTimes
    <2> QED
      BY <1>1, CacheServedBy, <2>1, <2>2
  <1>2. ASSUME CacheIInv, [Cache!Next]_(Cache!vars)
        PROVE  [\A c \in Caller : Brief(c)]_(Cache!vars)
    BY <1>1, <1>2
  <1>3. Cache!Init => CacheIInv
    BY CacheInitIInv
  <1>4. CacheIInv /\ [Cache!Next]_(Cache!vars) => CacheIInv'
    BY CacheStepIInv
  <1> HIDE DEF Brief
  <1>5. Cache!FailOpenIsBrief <=> [][\A c \in Caller : Brief(c)]_(Cache!vars)
    BY DEF Cache!FailOpenIsBrief, Brief
  <1> QED
    BY <1>2, <1>3, <1>4, <1>5, PTL DEF Cache!Spec

-----------------------------------------------------------------------------
(* All of them: the services share nothing, and those that a behaviour is  *)
(* not about stay as they begin.                                           *)

LEMMA InitEach == Init => Vault!Init /\ Stamp!Init /\ Cache!Init /\ Tabs!Init
  <1>1. NoVault => Vault!Init
    <2> SUFFICES ASSUME NoVault PROVE Vault!Init
      OBVIOUS
    <2>1. stored \in [Blob -> {0, 1}] /\ stored = [b \in Blob |-> 0]
      BY DEF NoVault
    <2> QED
      BY <2>1 DEF NoVault, Vault!Init, Vault!Nothing, Vault!None, Vault!Worker
  <1>2. NoStamp => Stamp!Init
    BY DEF NoStamp, Stamp!Init, Stamp!None
  <1>3. NoCache => Cache!Init
    BY DEF NoCache, Cache!Init
  <1>4. NoTab => Tabs!Init
    BY DEF NoTab
  <1> QED
    BY <1>1, <1>2, <1>3, <1>4 DEF Init

LEMMA StepEach ==
  [Next]_vars => /\ [Vault!Next]_(Vault!vars) /\ [Stamp!Next]_(Stamp!vars)
                 /\ [Cache!Next]_(Cache!vars) /\ [Tabs!Next]_(Tabs!vars)
  <1>1. UNCHANGED vaultVars => UNCHANGED Vault!vars
    BY DEF vaultVars, Vault!vars, Vault!server, Vault!pull
  <1>2. UNCHANGED stampVars => UNCHANGED Stamp!vars
    BY DEF stampVars, Stamp!vars, Stamp!world, Stamp!stamp, Stamp!call
  <1>3. UNCHANGED cacheVars => UNCHANGED Cache!vars
    BY DEF cacheVars, Cache!vars, Cache!config, Cache!clock
  <1>4. UNCHANGED tabVars => UNCHANGED Tabs!vars
    BY DEF tabVars, Tabs!vars, Tabs!hostVars, Tabs!pageVars
  <1>5. UNCHANGED vars => UNCHANGED <<vaultVars, stampVars, cacheVars, tabVars>>
    BY DEF vars
  <1> QED
    BY <1>1, <1>2, <1>3, <1>4, <1>5 DEF Next, OfStamp, OfTab

(* A behaviour of the services is one of each service.                     *)
THEOREM EachIsItself == Spec => Vault!Spec /\ Stamp!Spec /\ Cache!Spec /\ Tabs!Spec
  BY InitEach, StepEach, PTL DEF Spec, Vault!Spec, Stamp!Spec, Cache!Spec, Tabs!Spec

(* A pull that returns has each listed blob as it was listed or later, or  *)
(* it was deleted since (sync.ts:163-170), for any vault and any workers.  *)
THEOREM WholePull == Spec => []PullIsWhole
  <1>1. Vault!Spec => []Vault!PullIsWhole
    BY ServicesAssumption, VaultWholePull
  <1> QED
    BY <1>1, EachIsItself, PTL DEF PullIsWhole

(* The cache loses a blob only to its deletion, however many pulls fail    *)
(* partway (vault-cli/src/cli.ts:49-56).                                   *)
THEOREM OnlyDeletedLost == Spec => OnlyDeletedIsLost
  <1>1. Vault!Spec => Vault!OnlyDeletedIsLost
    BY ServicesAssumption, VaultOnlyDeletedLost
  <1> QED
    BY <1>1, EachIsItself, PTL DEF OnlyDeletedIsLost

(* A proof all of whose calendars had anchored it before it was upgraded   *)
(* is never reported as still pending (upgrade.ts:9, 44-48), whichever of  *)
(* any number of calendars answer.                                         *)
THEOREM AnchoredNotPending == Spec => AnchoredIsNotPending
  <1>1. Stamp!Spec => Stamp!AnchoredIsNotPending
    BY ServicesAssumption, StampAnchoredNotPending
  <1> QED
    BY <1>1, EachIsItself, PTL DEF AnchoredIsNotPending

(* Whoever is let in by a verdict had a bond at most one lookup and one    *)
(* stay in the cache ago (filter.ts:15-20), for any number of callers.     *)
THEOREM AllowRecent == Spec => AllowIsRecent
  <1>1. Cache!Spec => Cache!AllowIsRecent
    BY ServicesAssumption, CacheAllowRecent
  <1> QED
    BY <1>1, EachIsItself, PTL DEF AllowIsRecent

(* Whoever is let in without a verdict is let in because a lookup of the   *)
(* key failed a moment before, and by the gate only because his own did    *)
(* (filter.ts:125-158, core.ts:331-381), for any number of callers.        *)
THEOREM FailOpenBrief == Spec => FailOpenIsBrief
  <1>1. Cache!Spec => Cache!FailOpenIsBrief
    BY ServicesAssumption, CacheFailOpenBrief
  <1> QED
    BY <1>1, EachIsItself, PTL DEF FailOpenIsBrief
=============================================================================

------------------------- MODULE QuorumRecordsProofs -------------------------
(***************************************************************************)
(* Proofs about QuorumRecords, for any relays, reference set, attempts and *)
(* readers.  The argument: what the writer counts is served (the relays    *)
(* never drop it), a relay that served the record when a lookup began and  *)
(* was then read to its end returned it, and WRITE_QUORUM relays and a     *)
(* read floor of them have one in common.                                  *)
(***************************************************************************)
EXTENDS QuorumRecords, FiniteSetTheorems, TLAPS

(* An OK a writer that does not read back may count is kept.               *)
OkIsKept == readsBack \/ ok \cap Reference \subseteq store

HeldIsServed == held \subseteq store

PublishedIsCounted == stage = "published" => Cardinality(held) >= WRITE_QUORUM

BeganIsServed == \A q \in Reader : began[q] \subseteq store

(* A relay that served the record and was read to its end returned it.     *)
CompleteReturned ==
    \A q \in Reader : \A r \in began[q] : answer[q][r] = "complete" => found[q]

LiveIsAtFloor ==
    \A q \in Reader : verdict[q] = "live" =>
        /\ ~found[q]
        /\ \A r \in Asked : answer[q][r] \in Ending
        /\ Cardinality(Ended(q, "complete")) >= readFloor(Cardinality(Asked))

AfterIsQuorum ==
    \A q \in Reader : after[q] => Cardinality(began[q]) >= WRITE_QUORUM

ReaderInv == /\ BeganIsServed
             /\ CompleteReturned
             /\ LiveIsAtFloor
             /\ AfterIsQuorum

Inv == /\ TypeOK
       /\ Trusted
       /\ OkIsKept
       /\ HeldIsServed
       /\ PublishedIsCounted
       /\ ReaderInv

-----------------------------------------------------------------------------
(* WRITE_QUORUM relays and a read floor of the relays asked have one in    *)
(* common: what the comment of readFloor computes.                         *)
LEMMA QuorumMeetsFloor ==
    ASSUME NEW A, IsFiniteSet(A), NEW H \in SUBSET A, NEW C \in SUBSET A,
           Cardinality(H) >= WRITE_QUORUM,
           Cardinality(C) >= readFloor(Cardinality(A))
    PROVE  \E r \in H : r \in C
<1>1. SUFFICES ASSUME C \subseteq A \ H PROVE FALSE
  OBVIOUS
<1>2. /\ IsFiniteSet(A \ H)
      /\ Cardinality(A \ H) = Cardinality(A) - Cardinality(A \cap H)
  BY FS_Difference
<1>3. A \cap H = H
  OBVIOUS
<1>4. Cardinality(C) <= Cardinality(A \ H)
  BY <1>1, <1>2, FS_Subset
<1>5. /\ Cardinality(A) \in Nat
      /\ Cardinality(H) \in Nat
      /\ Cardinality(C) \in Nat
  BY FS_Subset, FS_CardinalityType
<1>6. QED
  BY <1>2, <1>3, <1>4, <1>5 DEF WRITE_QUORUM, readFloor

(* More relays are no fewer.                                               *)
LEMMA CountGrows ==
    ASSUME NEW A \in SUBSET Relay, NEW B \in SUBSET A, Cardinality(B) >= WRITE_QUORUM
    PROVE  Cardinality(A) >= WRITE_QUORUM
<1>1. IsFiniteSet(A)
  BY RelayAssumption, FS_Subset
<1>2. /\ Cardinality(B) <= Cardinality(A)
      /\ Cardinality(A) \in Nat
      /\ Cardinality(B) \in Nat
  BY <1>1, FS_Subset, FS_CardinalityType
<1>3. QED
  BY <1>2 DEF WRITE_QUORUM

-----------------------------------------------------------------------------
LEMMA InitInv == Init => Inv
<1>1. SUFFICES ASSUME Init PROVE Inv
  OBVIOUS
<1>2. TypeOK
  BY <1>1, RelayAssumption, WriterAssumption
  DEF Init, TypeOK, Unread, Answer, Stage, Verdict
<1>3. Trusted /\ OkIsKept /\ HeldIsServed /\ PublishedIsCounted /\ BeganIsServed
      /\ CompleteReturned /\ LiveIsAtFloor /\ AfterIsQuorum
  BY <1>1 DEF Init, OkIsKept, HeldIsServed, PublishedIsCounted, BeganIsServed,
              CompleteReturned, LiveIsAtFloor, AfterIsQuorum
<1>4. QED
  BY <1>2, <1>3 DEF Inv, ReaderInv

(* What settling an attempt leaves.                                        *)
LEMMA SettleStage ==
    ASSUME NEW ACTION h, Settle(h), attempt \in 0 .. Attempts - 1
    PROVE  /\ stage' \in Stage
           /\ attempt' \in 0 .. Attempts - 1
           /\ stage' = "published" => Cardinality(h) >= WRITE_QUORUM
<1>1. CASE Cardinality(h) >= WRITE_QUORUM
  BY <1>1 DEF Settle, SettleIf, Stage
<1>2. CASE ~(Cardinality(h) >= WRITE_QUORUM) /\ attempt + 1 < Attempts
  BY <1>2, WriterAssumption DEF Settle, SettleIf, Stage
<1>3. CASE ~(Cardinality(h) >= WRITE_QUORUM) /\ ~(attempt + 1 < Attempts)
  BY <1>3 DEF Settle, SettleIf, Stage
<1>4. QED
  BY <1>1, <1>2, <1>3

(* The writer's options and the relays' nature stand.                      *)
LEMMA OptionsStand == [Next]_vars => UNCHANGED <<readsBack, forgetful>>
  BY DEF Next, Start, Publish, Acks, ReadBack, Keep, Forget, Look, Judge, RelayAnswers, vars, options

LEMMA TypeStep == TypeOK /\ [Next]_vars => TypeOK'
<1>1. SUFFICES ASSUME TypeOK, [Next]_vars PROVE TypeOK'
  OBVIOUS
<1>0. UNCHANGED <<readsBack, forgetful>>
  BY <1>1, OptionsStand
<1>2. CASE Start
  BY <1>1, <1>0, <1>2 DEF Start, TypeOK, Stage, relayVars, readVars
<1>3. CASE Publish
  BY <1>1, <1>0, <1>3, RelayAssumption DEF Publish, TypeOK, Stage, readVars
<1>4. CASE Acks
  <2>1. held' \subseteq Reference
    BY <1>1, <1>0, <1>4 DEF Acks, Counted, TypeOK
  <2>2. stage' \in Stage /\ attempt' \in 0 .. Attempts - 1
    <3>1. CASE Settle(held')
      BY <1>1, <3>1, SettleStage DEF TypeOK
    <3>2. CASE stage' = "readBack" /\ UNCHANGED attempt
      BY <1>1, <3>2 DEF TypeOK, Stage
    <3>3. QED
      BY <1>4, <3>1, <3>2 DEF Acks
  <2>3. QED
    BY <1>1, <1>0, <1>4, <2>1, <2>2 DEF Acks, TypeOK, relayVars, readVars
<1>5. ASSUME NEW r \in Relay, ReadBack(r) PROVE TypeOK'
  <2>1. held' \subseteq Reference /\ left' \subseteq Reference
    BY <1>1, <1>0, <1>5 DEF ReadBack, TypeOK
  <2>2. stage' \in Stage /\ attempt' \in 0 .. Attempts - 1
    <3>1. CASE Settle(held')
      BY <1>1, <3>1, SettleStage DEF TypeOK
    <3>2. CASE UNCHANGED <<stage, attempt>>
      BY <1>1, <3>2 DEF TypeOK
    <3>3. QED
      BY <1>5, <3>1, <3>2 DEF ReadBack
  <2>3. QED
    BY <1>1, <1>0, <1>5, <2>1, <2>2 DEF ReadBack, TypeOK, relayVars, readVars
<1>6. ASSUME NEW r \in Relay, Keep(r) \/ Forget(r) PROVE TypeOK'
  BY <1>1, <1>0, <1>6 DEF Keep, Forget, SaysOk, TypeOK, writeVars, readVars
<1>7. ASSUME NEW q \in Reader, Look(q) PROVE TypeOK'
  <2>1. answer' \in [Reader -> [Asked -> Answer]]
    BY <1>1, <1>0, <1>7 DEF Look, TypeOK, Answer
  <2>2. began' \in [Reader -> SUBSET Asked] /\ after' \in [Reader -> BOOLEAN]
    BY <1>1, <1>0, <1>7 DEF Look, TypeOK
  <2>3. QED
    BY <1>1, <1>0, <1>7, <2>1, <2>2 DEF Look, TypeOK, relayVars, writeVars
<1>8. ASSUME NEW q \in Reader, Judge(q) PROVE TypeOK'
  <2>1. Liveness(q) \in Verdict
    BY DEF Liveness, Verdict
  <2>2. QED
    BY <1>1, <1>0, <1>8, <2>1 DEF Judge, TypeOK, relayVars, writeVars
<1>9. ASSUME NEW q \in Reader, NEW r \in Asked, RelayAnswers(q, r) PROVE TypeOK'
  <2>1. PICK a \in Ending : \E sent \in Sends(r, a) :
          /\ answer' = [answer EXCEPT ![q] = [@ EXCEPT ![r] = a]]
          /\ found' = [found EXCEPT ![q] = @ \/ sent]
    BY <1>9 DEF RelayAnswers
  <2>2. PICK sent \in Sends(r, a) : found' = [found EXCEPT ![q] = @ \/ sent]
    BY <2>1
  <2>3. found' \in [Reader -> BOOLEAN]
    <3>1. (found[q] \/ sent) \in BOOLEAN
      OBVIOUS
    <3>2. QED
      BY <1>1, <2>2, <3>1 DEF TypeOK
  <2>4. [answer[q] EXCEPT ![r] = a] \in [Asked -> Answer]
    BY <1>1 DEF TypeOK, Answer
  <2>5. answer' \in [Reader -> [Asked -> Answer]]
    BY <1>1, <2>1, <2>4 DEF TypeOK
  <2>6. QED
    BY <1>1, <1>0, <1>9, <2>3, <2>5 DEF RelayAnswers, TypeOK, relayVars, writeVars
<1>10. CASE UNCHANGED vars
  BY <1>1, <1>0, <1>10 DEF TypeOK, vars, relayVars, writeVars, readVars
<1>11. QED
  BY <1>1, <1>0, <1>2, <1>3, <1>4, <1>5, <1>6, <1>7, <1>8, <1>9, <1>10 DEF Next

(* No relay drops the record.                                              *)
LEMMA StoreGrows == [Next]_vars => store \subseteq store'
<1>1. SUFFICES ASSUME [Next]_vars PROVE store \subseteq store'
  OBVIOUS
<1>2. CASE Start \/ Publish \/ Acks
  BY <1>2 DEF Start, Publish, Acks, relayVars
<1>3. ASSUME NEW r \in Relay, ReadBack(r) \/ Keep(r) \/ Forget(r)
      PROVE  store \subseteq store'
  BY <1>3 DEF ReadBack, Keep, Forget, relayVars
<1>4. ASSUME NEW q \in Reader, Look(q) \/ Judge(q) PROVE store \subseteq store'
  BY <1>4 DEF Look, Judge, relayVars
<1>5. ASSUME NEW q \in Reader, NEW r \in Asked, RelayAnswers(q, r) PROVE store \subseteq store'
  BY <1>5 DEF RelayAnswers, relayVars
<1>6. CASE UNCHANGED vars
  BY <1>6 DEF vars, relayVars
<1>7. QED
  BY <1>1, <1>2, <1>3, <1>4, <1>5, <1>6 DEF Next

(* The writer's part of the invariant.                                     *)
LEMMA WriterStep ==
    Inv /\ [Next]_vars => Trusted' /\ OkIsKept' /\ HeldIsServed' /\ PublishedIsCounted'
<1>1. SUFFICES ASSUME Inv, [Next]_vars
               PROVE  Trusted' /\ OkIsKept' /\ HeldIsServed' /\ PublishedIsCounted'
  OBVIOUS
<1>0. UNCHANGED <<readsBack, forgetful>> /\ Trusted /\ Trusted'
  BY <1>1, OptionsStand DEF Inv, Trusted
<1> USE DEF OkIsKept, HeldIsServed, PublishedIsCounted
<1>2. /\ TypeOK /\ OkIsKept /\ HeldIsServed /\ PublishedIsCounted
      /\ store \subseteq store'
  BY <1>1, StoreGrows DEF Inv
<1>3. CASE Start
  BY <1>2, <1>0, <1>3 DEF Start, relayVars
<1>4. CASE Publish
  BY <1>2, <1>0, <1>4 DEF Publish
<1>5. CASE Acks
  <2>1. held' \subseteq store /\ UNCHANGED <<store, ok>>
    BY <1>2, <1>0, <1>5 DEF Acks, Counted, TypeOK, relayVars
  <2>2. PublishedIsCounted'
    <3>1. CASE Settle(held')
      BY <1>2, <3>1, SettleStage DEF TypeOK
    <3>2. CASE stage' = "readBack"
      BY <3>2
    <3>3. QED
      BY <1>5, <3>1, <3>2 DEF Acks
  <2>3. QED
    BY <1>2, <1>0, <2>1, <2>2
<1>6. ASSUME NEW r \in Relay, ReadBack(r)
      PROVE  OkIsKept' /\ HeldIsServed' /\ PublishedIsCounted'
  <2>1. held' \subseteq store /\ UNCHANGED <<store, ok>>
    BY <1>2, <1>0, <1>6 DEF ReadBack, Serves, relayVars
  <2>2. PublishedIsCounted'
    <3>1. CASE Settle(held')
      BY <1>2, <3>1, SettleStage DEF TypeOK
    <3>2. CASE UNCHANGED <<stage, attempt>>
      BY <1>6, <3>2 DEF ReadBack
    <3>3. QED
      BY <1>6, <3>1, <3>2 DEF ReadBack
  <2>3. QED
    BY <1>2, <1>0, <2>1, <2>2
<1>7. ASSUME NEW r \in Relay, Keep(r) \/ Forget(r)
      PROVE  OkIsKept' /\ HeldIsServed' /\ PublishedIsCounted'
  <2>1. UNCHANGED <<stage, held>>
    BY <1>7 DEF Keep, Forget, writeVars
  <2>2. OkIsKept'
    BY <1>2, <1>0, <1>7, WriterAssumption DEF Trusted, Keep, Forget, SaysOk, writeVars
  <2>3. QED
    BY <1>2, <1>0, <2>1, <2>2
<1>8. ASSUME NEW q \in Reader, Look(q) \/ Judge(q)
      PROVE  OkIsKept' /\ HeldIsServed' /\ PublishedIsCounted'
  BY <1>2, <1>0, <1>8 DEF Look, Judge, relayVars, writeVars
<1>9. ASSUME NEW q \in Reader, NEW r \in Asked, RelayAnswers(q, r)
      PROVE  OkIsKept' /\ HeldIsServed' /\ PublishedIsCounted'
  BY <1>2, <1>0, <1>9 DEF RelayAnswers, relayVars, writeVars
<1>10. CASE UNCHANGED vars
  BY <1>2, <1>0, <1>10 DEF vars, relayVars, writeVars
<1>11. QED
  BY <1>1, <1>0, <1>3, <1>4, <1>5, <1>6, <1>7, <1>8, <1>9, <1>10 DEF Next

(* A verdict stands while its lookup's answers do.                         *)
LEMMA LiveKept ==
    ASSUME LiveIsAtFloor,
           \A p \in Reader : verdict'[p] = "live" =>
               /\ verdict[p] = "live"
               /\ answer'[p] = answer[p]
               /\ found'[p] = found[p]
    PROVE  LiveIsAtFloor'
<1>1. SUFFICES ASSUME NEW p \in Reader, verdict'[p] = "live"
               PROVE  /\ ~found'[p]
                      /\ \A r \in Asked : answer'[p][r] \in Ending
                      /\ Cardinality(Ended(p, "complete")') >= readFloor(Cardinality(Asked))
  BY DEF LiveIsAtFloor
<1>2. Ended(p, "complete")' = Ended(p, "complete")
  BY <1>1 DEF Ended
<1>3. QED
  BY <1>1, <1>2 DEF LiveIsAtFloor

(* The readers' part: began, after and the answers of a lookup are set     *)
(* when it begins; from then on its relays answer, and then it is judged.  *)
LEMMA ReaderStep ==
    Inv /\ [Next]_vars => ReaderInv'
<1>1. SUFFICES ASSUME Inv, [Next]_vars
               PROVE  ReaderInv'
  OBVIOUS
<1> USE DEF ReaderInv, BeganIsServed, CompleteReturned, LiveIsAtFloor, AfterIsQuorum
<1>2. /\ TypeOK /\ HeldIsServed /\ PublishedIsCounted
      /\ ReaderInv /\ store \subseteq store'
  BY <1>1, StoreGrows DEF Inv
<1>3. ASSUME UNCHANGED readVars
      PROVE  ReaderInv'
  BY <1>2, <1>3 DEF readVars, Ended
<1>4. ASSUME NEW q \in Reader, Look(q)
      PROVE  ReaderInv'
  <2>1. /\ answer'[q] = [r \in Asked |-> "asked"]
        /\ began'[q] = store \cap Asked
        /\ after'[q] = (stage = "published")
        /\ \A p \in Reader \ {q} : answer'[p] = answer[p] /\ began'[p] = began[p]
                                   /\ after'[p] = after[p]
        /\ UNCHANGED <<found, verdict>> /\ verdict[q] = "none"
    BY <1>2, <1>4 DEF Look, TypeOK
  <2>2. BeganIsServed' /\ CompleteReturned'
    BY <1>2, <2>1
  <2>3. LiveIsAtFloor'
    BY <1>2, <2>1, LiveKept
  <2>4. stage = "published" => Cardinality(store \cap Asked) >= WRITE_QUORUM
    <3>1. held \subseteq store \cap Asked /\ store \cap Asked \subseteq Relay
      BY <1>2, RelayAssumption DEF TypeOK, HeldIsServed
    <3>2. QED
      BY <1>2, <3>1, CountGrows DEF PublishedIsCounted
  <2>5. AfterIsQuorum'
    BY <1>2, <2>1, <2>4
  <2>6. QED
    BY <2>2, <2>3, <2>5
<1>5. ASSUME NEW q \in Reader, Judge(q)
      PROVE  ReaderInv'
  <2>1. /\ UNCHANGED <<answer, found, began, after>>
        /\ \A r \in Asked : answer[q][r] \in Ending
        /\ verdict'[q] = Liveness(q)
        /\ \A p \in Reader \ {q} : verdict'[p] = verdict[p]
    BY <1>2, <1>5 DEF Judge, TypeOK
  <2>2. Liveness(q) = "live" =>
          /\ ~found[q]
          /\ Cardinality(Ended(q, "complete")) >= readFloor(Cardinality(Asked))
    BY DEF Liveness, meetsReadFloor
  <2>3. LiveIsAtFloor'
    BY <1>2, <2>1, <2>2 DEF Ended
  <2>4. QED
    BY <1>2, <2>1, <2>3
<1>6. ASSUME NEW q \in Reader, NEW r \in Asked, RelayAnswers(q, r)
      PROVE  ReaderInv'
  <2>1. PICK a \in Ending : \E sent \in Sends(r, a) :
          /\ answer' = [answer EXCEPT ![q] = [@ EXCEPT ![r] = a]]
          /\ found' = [found EXCEPT ![q] = @ \/ sent]
    BY <1>6 DEF RelayAnswers
  <2>2. PICK sent \in Sends(r, a) : found' = [found EXCEPT ![q] = @ \/ sent]
    BY <2>1
  <2>3. /\ \A s \in Asked \ {r} : answer'[q][s] = answer[q][s]
        /\ answer'[q][r] = a
        /\ \A p \in Reader \ {q} : answer'[p] = answer[p]
    BY <1>2, <2>1 DEF TypeOK
  <2>4. /\ \A p \in Reader \ {q} : found'[p] = found[p]
        /\ found'[q] = (found[q] \/ sent)
    BY <1>2, <2>2 DEF TypeOK
  <2>5. UNCHANGED <<began, after, verdict>> /\ answer[q][r] = "asked"
    BY <1>6 DEF RelayAnswers
  <2>6. a = "complete" /\ r \in store => sent
    BY <2>2 DEF Sends
  <2>7. BeganIsServed'
    BY <1>2, <2>5
  <2>8. CompleteReturned'
    <3>1. SUFFICES ASSUME NEW p \in Reader, NEW s \in began[p], answer'[p][s] = "complete"
                   PROVE  found'[p]
      BY <2>5
    <3>2. s \in Asked /\ s \in store
      BY <1>2 DEF TypeOK
    <3>3. CASE p = q /\ s = r
      BY <2>3, <2>4, <2>6, <3>1, <3>2, <3>3
    <3>4. CASE ~(p = q /\ s = r)
      <4>1. answer[p][s] = "complete"
        BY <2>3, <3>1, <3>2, <3>4
      <4>2. found[p]
        BY <1>2, <4>1
      <4>3. QED
        BY <2>4, <4>2
    <3>5. QED
      BY <3>3, <3>4
  <2>9. LiveIsAtFloor'
    <3>1. \A p \in Reader : verdict[p] = "live" => p # q
      BY <1>2, <2>5 DEF Ending
    <3>2. QED
      BY <1>2, <2>3, <2>4, <2>5, <3>1, LiveKept
  <2>10. QED
    BY <1>2, <2>5, <2>7, <2>8, <2>9
<1>7. CASE Start \/ Publish \/ Acks
  BY <1>3, <1>7 DEF Start, Publish, Acks
<1>8. ASSUME NEW r \in Relay, ReadBack(r) \/ Keep(r) \/ Forget(r)
      PROVE  ReaderInv'
  BY <1>3, <1>8 DEF ReadBack, Keep, Forget
<1>9. CASE UNCHANGED vars
  BY <1>3, <1>9 DEF vars
<1>10. QED
  BY <1>1, <1>4, <1>5, <1>6, <1>7, <1>8, <1>9 DEF Next

(* The inductive invariant of the writer and the readers holds throughout. *)
THEOREM Invariance == Spec => []Inv
<1>1. Inv /\ [Next]_vars => Inv'
  BY TypeStep, WriterStep, ReaderStep DEF Inv
<1>2. QED
  BY InitInv, <1>1, PTL DEF Spec

-----------------------------------------------------------------------------
(* Every variable keeps its type.                                          *)
THEOREM TypeCorrect == Spec => []TypeOK
<1>1. Inv => TypeOK
  BY DEF Inv
<1>2. QED
  BY <1>1, Invariance, PTL

(* A write reported published is served by WRITE_QUORUM of the reference   *)
(* relays (publishToQuorum).                                               *)
THEOREM PublishedServed == Spec => []PublishedIsHeld
<1>1. Inv => PublishedIsHeld
  <2>1. SUFFICES ASSUME Inv, stage = "published"
                 PROVE  Cardinality(store \cap Reference) >= WRITE_QUORUM
    BY DEF PublishedIsHeld
  <2>2. held \subseteq store \cap Reference /\ store \cap Reference \subseteq Relay
    BY <2>1, RelayAssumption DEF Inv, TypeOK, HeldIsServed
  <2>3. QED
    BY <2>1, <2>2, CountGrows DEF Inv, PublishedIsCounted
<1>2. QED
  BY <1>1, Invariance, PTL

(* "live" is never said of a binding WRITE_QUORUM of the relays asked      *)
(* served as revoked when the lookup began (readFloor, meetsReadFloor).    *)
LEMMA FloorSeesQuorum ==
    ASSUME Inv, NEW q \in Reader, verdict[q] = "live"
    PROVE  ~(Cardinality(began[q]) >= WRITE_QUORUM)
<1>1. SUFFICES ASSUME Cardinality(began[q]) >= WRITE_QUORUM PROVE FALSE
  OBVIOUS
<1>2. /\ IsFiniteSet(Asked)
      /\ began[q] \subseteq Asked
      /\ Ended(q, "complete") \subseteq Asked
  BY RelayAssumption, FS_Subset DEF Inv, TypeOK, Ended
<1>3. Cardinality(Ended(q, "complete")) >= readFloor(Cardinality(Asked)) /\ ~found[q]
  BY DEF Inv, ReaderInv, LiveIsAtFloor
<1>4. PICK r \in began[q] : r \in Ended(q, "complete")
  BY <1>1, <1>2, <1>3, QuorumMeetsFloor
<1>5. answer[q][r] = "complete"
  BY <1>4 DEF Ended, readState
<1>6. QED
  BY <1>3, <1>4, <1>5 DEF Inv, ReaderInv, CompleteReturned

(* A lookup that says live read no fewer relays than leave a write quorum  *)
(* unmissed (read.ts:89): the arithmetic of readFloor, for any relays.     *)
THEOREM LiveIsUnopposed == Spec => []LiveMissesNoQuorum
<1>1. Inv => LiveMissesNoQuorum
  <2>1. SUFFICES ASSUME Inv, NEW q \in Reader, verdict[q] = "live"
                 PROVE  Cardinality(began[q]) < WRITE_QUORUM
    BY DEF LiveMissesNoQuorum
  <2>2. Cardinality(began[q]) \in Nat
    BY <2>1, RelayAssumption, FS_Subset, FS_CardinalityType DEF Inv, TypeOK
  <2>3. QED
    BY <2>1, <2>2, FloorSeesQuorum DEF WRITE_QUORUM
<1>2. QED
  BY <1>1, Invariance, PTL

(* No lookup begun after the write was reported published calls the        *)
(* binding live.                                                           *)
THEOREM PublishedRevokes == Spec => []RevocationHolds
<1>1. Inv => RevocationHolds
  BY FloorSeesQuorum DEF RevocationHolds, Inv, ReaderInv, AfterIsQuorum
<1>2. QED
  BY <1>1, Invariance, PTL
-----------------------------------------------------------------------------
(* QuorumRecords implements RevocationRecord.  Beyond the invariant, the   *)
(* record is nowhere before it is written.                                 *)
Unwritten ==
    stage = "idle" => store = {} /\ flight = {} /\ \A q \in Reader : ~found[q]

LEMMA UnwrittenStep == TypeOK /\ Unwritten /\ [Next]_vars => Unwritten'
<1>1. SUFFICES ASSUME TypeOK, Unwritten, [Next]_vars
               PROVE  Unwritten'
  OBVIOUS
<1> USE <1>1 DEF Unwritten
<1>2. CASE Start \/ Publish
  BY <1>2 DEF Start, Publish
<1>3. CASE Acks
  BY <1>3 DEF Acks, Settle, SettleIf, relayVars, readVars
<1>4. ASSUME NEW r \in Relay, ReadBack(r) PROVE Unwritten'
  BY <1>4 DEF ReadBack, Settle, SettleIf, relayVars, readVars
<1>5. ASSUME NEW r \in Relay, Keep(r) \/ Forget(r) PROVE Unwritten'
  BY <1>5 DEF Keep, Forget
<1>6. ASSUME NEW q \in Reader, Look(q) \/ Judge(q) PROVE Unwritten'
  BY <1>6 DEF Look, Judge, relayVars, writeVars
<1>7. ASSUME NEW q \in Reader, NEW r \in Asked, RelayAnswers(q, r) PROVE Unwritten'
  <2>1. PICK a \in Ending : \E sent \in Sends(r, a) :
          found' = [found EXCEPT ![q] = @ \/ sent]
    BY <1>7 DEF RelayAnswers
  <2>2. PICK sent \in Sends(r, a) : found' = [found EXCEPT ![q] = @ \/ sent]
    BY <2>1
  <2>3. stage' = "idle" => ~sent
    BY <1>7, <2>2 DEF Sends, RelayAnswers, writeVars, relayVars
  <2>4. QED
    BY <1>7, <2>2, <2>3 DEF RelayAnswers, writeVars, relayVars, TypeOK
<1>8. CASE UNCHANGED vars
  BY <1>8 DEF vars, writeVars, relayVars, readVars
<1>9. QED
  BY <1>1, <1>2, <1>3, <1>4, <1>5, <1>6, <1>7, <1>8 DEF Next

(* The writer's steps and the relays' are the record's, or nothing to it.  *)
LEMMA WriterRefines ==
    ASSUME TypeOK, UNCHANGED readVars,
           \/ Start \/ Publish \/ Acks
           \/ \E r \in Relay : ReadBack(r) \/ Keep(r) \/ Forget(r)
    PROVE  Promise!Write \/ Promise!Report \/ UNCHANGED Promise!vars
<1>0. UNCHANGED <<Begun, verdict>>
  BY DEF readVars, Begun
<1>1. CASE Start
  BY <1>0, <1>1 DEF Start, Known, Promise!Write
<1>2. CASE Publish
  BY <1>0, <1>2 DEF Publish, Known, Promise!vars
<1>3. ASSUME stage \in {"acks", "readBack"},
             stage' \in {"acks", "readBack", "publish", "published", "not yet published"}
      PROVE  Promise!Report \/ UNCHANGED Promise!vars
  BY <1>0, <1>3 DEF Known, Promise!Report, Promise!vars, Promise!Outcome
<1>4. CASE Acks
  BY <1>3, <1>4 DEF Acks, Settle, SettleIf
<1>5. ASSUME NEW r \in Relay, ReadBack(r)
      PROVE  Promise!Report \/ UNCHANGED Promise!vars
  BY <1>3, <1>5 DEF ReadBack, Settle, SettleIf
<1>6. ASSUME NEW r \in Relay, Keep(r) \/ Forget(r) PROVE UNCHANGED Promise!vars
  BY <1>0, <1>6 DEF Keep, Forget, Known, Promise!vars
<1>7. QED
  BY <1>1, <1>2, <1>4, <1>5, <1>6

(* A lookup whose relays are asked has begun, whatever they answered.      *)
LEMMA AskedIsBegun ==
    ASSUME NEW a, a = [r \in Asked |-> "asked"] \/ \E r \in Asked : a[r] # "unasked"
    PROVE  a # Unread
  BY RelayAssumption DEF Unread

LEMMA LookRefines ==
    ASSUME TypeOK, NEW q \in Reader, Look(q) PROVE Promise!Begin(q)
<1>1. /\ answer' = [answer EXCEPT ![q] = [r \in Asked |-> "asked"]]
      /\ after' = [after EXCEPT ![q] = stage = "published"]
      /\ answer[q] = Unread
      /\ UNCHANGED <<stage, verdict>>
  BY DEF Look, writeVars
<1>2. [r \in Asked |-> "asked"] # Unread
  BY AskedIsBegun
<1>3. (Known = "published") <=> (stage = "published")
  BY DEF Known
<1>4. Begun' = [Begun EXCEPT ![q] = IF Known = "published" THEN "after" ELSE "before"]
  BY <1>1, <1>2, <1>3 DEF TypeOK, Begun
<1>5. Begun[q] = "none" /\ UNCHANGED Known
  BY <1>1 DEF Begun, Known
<1>6. QED
  BY <1>1, <1>4, <1>5 DEF Promise!Begin

LEMMA AnswerRefines ==
    ASSUME TypeOK, NEW q \in Reader, NEW r \in Asked, RelayAnswers(q, r)
    PROVE  UNCHANGED Promise!vars
<1>1. PICK a \in Ending : answer' = [answer EXCEPT ![q] = [@ EXCEPT ![r] = a]]
  BY DEF RelayAnswers
<1>2. answer[q][r] = "asked" /\ UNCHANGED <<stage, after, verdict>>
  BY DEF RelayAnswers, writeVars
<1>3. answer'[q][r] = a /\ \A p \in Reader \ {q} : answer'[p] = answer[p]
  BY <1>1 DEF TypeOK
<1>4. answer[q] # Unread /\ answer'[q] # Unread
  <2>1. answer[q][r] # "unasked" /\ answer'[q][r] # "unasked"
    BY <1>2, <1>3 DEF Ending
  <2>2. QED
    BY <2>1 DEF Unread
<1>5. UNCHANGED Begun
  BY <1>2, <1>3, <1>4 DEF Begun
<1>6. QED
  BY <1>2, <1>5 DEF Promise!vars, Known

LEMMA JudgeRefines ==
    ASSUME Inv, RevocationHolds', Unwritten, NEW q \in Reader, Judge(q)
    PROVE  Promise!Say(q)
<1>1. /\ UNCHANGED <<stage, answer, after>> /\ verdict[q] = "none"
      /\ verdict' = [verdict EXCEPT ![q] = Liveness(q)]
      /\ \A r \in Asked : answer[q][r] \in Ending
  BY DEF Judge, writeVars
<1>2. Begun[q] # "none" /\ UNCHANGED <<Begun, Known>>
  <2>1. PICK r \in Asked : answer[q][r] \in Ending
    BY <1>1, RelayAssumption
  <2>2. answer[q] # Unread
    BY <2>1 DEF Unread, Ending
  <2>3. QED
    BY <1>1, <2>2 DEF Begun, Known
<1>3. Liveness(q) \in Promise!Verdict
  BY DEF Liveness, Promise!Verdict
<1>4. verdict'[q] = Liveness(q)
  BY <1>1 DEF Inv, TypeOK
<1>5. Liveness(q) = "live" => Begun[q] = "before"
  <2>1. Liveness(q) = "live" => ~after'[q]
    BY <1>4 DEF RevocationHolds
  <2>2. QED
    BY <1>1, <1>2, <2>1 DEF Begun
<1>6. Liveness(q) = "revoked" => Known # "idle"
  BY DEF Liveness, Unwritten, Known
<1>7. QED
  BY <1>1, <1>2, <1>3, <1>5, <1>6 DEF Promise!Say, Promise!MaySay

(* Every behaviour of the writer, the relays and the readers is one of the *)
(* record's: the write is reported once, a lookup begun after "published"  *)
(* never says live, and none says revoked of what nobody wrote.            *)
THEOREM Refinement == Spec => KeepsPromise
<1>1. Init => Promise!Init
  BY DEF Init, Promise!Init, Known, Begun
<1>2. Init => Unwritten
  BY DEF Init, Unwritten
<1>3. ASSUME Inv, RevocationHolds', Unwritten, [Next]_vars
      PROVE  [Promise!Next]_(Promise!vars)
  <2>0. TypeOK
    BY <1>3 DEF Inv
  <2>1. CASE Start \/ Publish \/ Acks
    BY <2>0, <2>1, WriterRefines DEF Start, Publish, Acks, Promise!Next
  <2>2. ASSUME NEW r \in Relay, ReadBack(r) \/ Keep(r) \/ Forget(r)
        PROVE  [Promise!Next]_(Promise!vars)
    <3>1. UNCHANGED readVars
      BY <2>2 DEF ReadBack, Keep, Forget
    <3>2. QED
      BY <2>0, <2>2, <3>1, WriterRefines DEF Promise!Next
  <2>3. ASSUME NEW q \in Reader, Look(q) PROVE Promise!Next
    BY <2>0, <2>3, LookRefines DEF Promise!Next
  <2>4. ASSUME NEW q \in Reader, Judge(q) PROVE Promise!Next
    BY <1>3, <2>4, JudgeRefines DEF Promise!Next
  <2>5. ASSUME NEW q \in Reader, NEW r \in Asked, RelayAnswers(q, r)
        PROVE  UNCHANGED Promise!vars
    BY <2>0, <2>5, AnswerRefines
  <2>6. CASE UNCHANGED vars
    BY <2>6 DEF vars, writeVars, readVars, Promise!vars, Known, Begun
  <2>7. QED
    BY <1>3, <2>1, <2>2, <2>3, <2>4, <2>5, <2>6 DEF Next
<1>4. Inv => TypeOK
  BY DEF Inv
<1>5. QED
  BY <1>1, <1>2, <1>3, <1>4, UnwrittenStep, Invariance, PublishedRevokes, PTL
  DEF Spec, KeepsPromise, Promise!Spec
=============================================================================

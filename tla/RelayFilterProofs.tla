---------------------------- MODULE RelayFilterProofs ----------------------------
(***************************************************************************)
(* What MCRelayFilter makes of a read of any number of relays: a read of   *)
(* one relay that goes on misses nothing above the oldest second it was    *)
(* sent, and the read floor meets every write quorum.                      *)
(***************************************************************************)
EXTENDS MCRelayFilter, FiniteSetTheorems, TLAPS

(* A set has one cardinality, whichever module counts it.                  *)
LEMMA SameCount == ASSUME NEW S PROVE Subject!Cardinality(S) = Cardinality(S)
  BY DEF Subject!Cardinality, Cardinality

(* A set of naturals has a least one, Min of it.                           *)
LEMMA MinIsLeast ==
  ASSUME NEW S, S \subseteq Nat, S # {}
  PROVE  Subject!Min(S) \in S /\ \A y \in S : Subject!Min(S) <= y
  <1> DEFINE R == {p \in Nat \X Nat : p[1] < p[2]}
  <1>1. IsWellFoundedOn(R, Nat)
    BY NatLessThanWellFounded DEF OpToRel
  <1> HIDE DEF R
  <1>2. PICK x \in S : \A y \in S : ~(<<y, x>> \in R)
    BY <1>1, WFMin
  <1>3. ASSUME NEW y \in S PROVE x <= y
    <2>1. <<y, x>> \in Nat \X Nat /\ <<y, x>> \notin R
      BY <1>2
    <2>2. ~(y < x)
      BY <2>1 DEF R
    <2> QED
      BY <2>2
  <1>4. \E z \in S : \A y \in S : z <= y
    BY <1>3
  <1> QED
    BY <1>4 DEF Subject!Min

-----------------------------------------------------------------------------
(* The inductive invariant.                                                *)

ReadTypes ==
    /\ holds \in [Relay -> SUBSET Event] /\ before \in [Relay -> SUBSET Event]
    /\ events \in [Relay -> SUBSET Event]
    /\ until \in [Relay -> Nat]
    /\ state \in [Relay -> {"reading", "complete", "cut_off", "no_answer"}]

(* A relay that is still read has sent what it held above the oldest       *)
(* second it sent, and one read to its end all of it.                      *)
ReadSoFar(r) ==
    /\ before[r] \subseteq holds[r]
    /\ state[r] = "reading" => \A e \in before[r] : At[e] > until[r] => e \in events[r]
    /\ state[r] = "complete" => before[r] \subseteq events[r]

ReadIInv == ReadTypes /\ \A r \in Relay : ReadSoFar(r)

LEMMA ReadInit == ASSUME Subject!Init PROVE ReadIInv
  <1>1. holds \in [Relay -> SUBSET Event] /\ before = holds
    BY SubjectAssumption DEF Subject!Init
  <1>2. /\ until = [r \in Relay |-> Subject!Newest] /\ events = [r \in Relay |-> {}]
        /\ state = [r \in Relay |-> "reading"] /\ Subject!Newest \in Nat
    BY DEF Subject!Init, Subject!Newest
  <1>3. \A e \in Event : At[e] \in Nat /\ ~(At[e] > Subject!Newest)
    BY SubjectAssumption DEF Subject!Newest
  <1> QED
    BY <1>1, <1>2, <1>3 DEF ReadIInv, ReadTypes, ReadSoFar

(* Some of a page lowers the oldest second to its own oldest, and adds to  *)
(* what was sent.                                                          *)
LEMMA ReadSends ==
  ASSUME ReadTypes, NEW r \in Relay, NEW some \in SUBSET Event, Subject!Sends(r, some)
  PROVE  /\ events' \in [Relay -> SUBSET Event] /\ until' \in [Relay -> Nat]
         /\ \A q \in Relay \ {r} : events'[q] = events[q] /\ until'[q] = until[q]
         /\ events'[r] = events[r] \union some
         /\ \/ until'[r] = until[r]
            \/ \E e \in some : until'[r] = At[e]
  <1> DEFINE T == {until[r]} \union {At[e] : e \in some}
  <1>1. T \subseteq Nat /\ T # {}
    BY SubjectAssumption DEF ReadTypes
  <1>2. Subject!Min(T) \in T
    BY <1>1, MinIsLeast
  <1>3. until' = [until EXCEPT ![r] = Subject!Min(T)]
    BY DEF Subject!Sends
  <1>4. events' = [events EXCEPT ![r] = @ \union some]
    BY DEF Subject!Sends
  <1> HIDE DEF T
  <1>5. until' \in [Relay -> Nat] /\ until'[r] = Subject!Min(T)
        /\ \A q \in Relay \ {r} : until'[q] = until[q]
    BY <1>1, <1>2, <1>3 DEF ReadTypes
  <1>6. until'[r] = until[r] \/ \E e \in some : until'[r] = At[e]
    BY <1>2, <1>5 DEF T
  <1> QED
    BY <1>4, <1>5, <1>6 DEF ReadTypes

(* A page is all that is left, or full and the newest of it.               *)
LEMMA PageIs ==
  ASSUME ReadTypes, NEW r \in Relay, NEW P \in Subject!Answers(r)
  PROVE  /\ P \subseteq Subject!Served(r) /\ P \in SUBSET Event
         /\ \A e \in P, f \in Subject!Served(r) \ P : At[e] >= At[f]
         /\ Subject!Cardinality(P) < PAGE_LIMIT => P = Subject!Served(r)
  <1> DEFINE S == Subject!Served(r)
             n == Subject!Cardinality(S)
  <1>1. S \subseteq Event
    BY DEF Subject!Served, ReadTypes
  <1>2. IsFiniteSet(S) /\ n = Cardinality(S) /\ n \in Nat
    BY <1>1, SubjectAssumption, FS_Subset, FS_CardinalityType, SameCount
  <1> HIDE DEF S
  <1>3. /\ P \subseteq S /\ Subject!Cardinality(P) = Subject!Min({PAGE_LIMIT, n})
        /\ \A e \in P, f \in S \ P : At[e] >= At[f]
    BY DEF Subject!Answers, Subject!kSubset, S
  <1>4. Subject!Min({PAGE_LIMIT, n}) \in {PAGE_LIMIT, n}
    BY <1>2, SubjectAssumption, MinIsLeast
  <1>5. ASSUME Subject!Cardinality(P) < PAGE_LIMIT PROVE P = S
    <2>1. Cardinality(P) = Cardinality(S)
      BY <1>2, <1>3, <1>4, <1>5, SubjectAssumption, SameCount
    <2> QED
      BY <1>2, <1>3, <2>1, FS_Subset
  <1> QED
    BY <1>1, <1>3, <1>5 DEF S

(* The invariant is preserved.                                             *)
LEMMA ReadStep == ASSUME ReadIInv, Subject!Next \/ UNCHANGED readVars PROVE ReadIInv'
  <1>0. /\ ReadTypes /\ \A r \in Relay : ReadSoFar(r)
        /\ \A e \in Event : At[e] \in Nat
    BY SubjectAssumption DEF ReadIInv
  <1>1. ASSUME NEW r \in Relay, Subject!EndsPage(r) PROVE ReadIInv'
    <2>1. PICK P \in Subject!Answers(r) :
             /\ Subject!Sends(r, P)
             /\ Subject!Ends(r, IF Subject!Cardinality(P) < PAGE_LIMIT THEN "complete"
                                ELSE IF P \subseteq events[r] \/ page'[r] >= MAX_PAGES
                                     THEN "cut_off" ELSE "reading")
      BY <1>1 DEF Subject!EndsPage
    <2>2. state[r] = "reading" /\ UNCHANGED <<holds, before>>
      BY <1>1 DEF Subject!EndsPage
    <2>3. /\ P \subseteq Subject!Served(r) /\ P \in SUBSET Event
          /\ \A e \in P, f \in Subject!Served(r) \ P : At[e] >= At[f]
          /\ Subject!Cardinality(P) < PAGE_LIMIT => P = Subject!Served(r)
      BY <1>0, PageIs
    <2>4. /\ events' \in [Relay -> SUBSET Event] /\ until' \in [Relay -> Nat]
          /\ \A q \in Relay \ {r} : events'[q] = events[q] /\ until'[q] = until[q]
          /\ events'[r] = events[r] \union P
          /\ until'[r] = until[r] \/ \E e \in P : until'[r] = At[e]
      BY <1>0, <2>1, <2>3, ReadSends
    <2>5. /\ state' \in [Relay -> {"reading", "complete", "cut_off", "no_answer"}]
          /\ \A q \in Relay \ {r} : state'[q] = state[q]
          /\ state'[r] \in {"complete", "cut_off", "reading"}
          /\ state'[r] = "complete" => Subject!Cardinality(P) < PAGE_LIMIT
      BY <1>0, <2>1 DEF Subject!Ends, ReadTypes
    <2>6. /\ before[r] \subseteq holds[r] /\ before[r] \subseteq Event
          /\ until[r] \in Nat /\ until'[r] \in Nat
          /\ \A e \in before[r] : At[e] > until[r] => e \in events[r]
      BY <1>0, <2>2, <2>4 DEF ReadSoFar, ReadTypes
    <2>7. \A e \in before[r] : e \in events[r] \/ e \in Subject!Served(r)
      BY <1>0, <2>6 DEF Subject!Served
    <2>8. ASSUME NEW e \in before[r], At[e] > until'[r] PROVE e \in events'[r]
      <3>1. CASE until'[r] = until[r]
        BY <2>4, <2>6, <2>8, <3>1
      <3>2. CASE until'[r] # until[r]
        <4>1. PICK f \in P : until'[r] = At[f]
          BY <2>4, <3>2
        <4>2. e \in Event /\ f \in Event /\ At[e] \in Nat /\ At[f] \in Nat
          BY <1>0, <2>3, <2>6
        <4>3. ~(e \in Subject!Served(r) \ P)
          BY <2>3, <2>8, <4>1, <4>2
        <4> QED
          BY <2>4, <2>7, <4>3
      <3> QED
        BY <3>1, <3>2
    <2>9. ReadSoFar(r)'
      BY <2>2, <2>3, <2>4, <2>5, <2>6, <2>7, <2>8 DEF ReadSoFar
    <2>10. ASSUME NEW q \in Relay \ {r} PROVE ReadSoFar(q)'
      BY <1>0, <2>2, <2>4, <2>5 DEF ReadSoFar
    <2> QED
      BY <1>0, <2>2, <2>4, <2>5, <2>9, <2>10 DEF ReadIInv, ReadTypes
  <1>2. ASSUME NEW r \in Relay, Subject!stop(r) PROVE ReadIInv'
    <2>1. PICK P \in Subject!Answers(r) : \E some \in SUBSET P : Subject!Sends(r, some)
      BY <1>2 DEF Subject!stop
    <2>2. PICK some \in SUBSET P : Subject!Sends(r, some)
      BY <2>1
    <2>3. some \in SUBSET Event
      BY <1>0, <2>1, PageIs
    <2>4. /\ events' \in [Relay -> SUBSET Event] /\ until' \in [Relay -> Nat]
          /\ \A q \in Relay \ {r} : events'[q] = events[q] /\ until'[q] = until[q]
      BY <1>0, <2>2, <2>3, ReadSends
    <2>5. /\ state' \in [Relay -> {"reading", "complete", "cut_off", "no_answer"}]
          /\ \A q \in Relay \ {r} : state'[q] = state[q]
          /\ state'[r] \in {"no_answer", "cut_off"}
          /\ UNCHANGED <<holds, before>>
      BY <1>0, <1>2 DEF Subject!stop, Subject!Ends, ReadTypes
    <2>6. \A q \in Relay : ReadSoFar(q)'
      BY <1>0, <2>4, <2>5 DEF ReadSoFar
    <2> QED
      BY <1>0, <2>4, <2>5, <2>6 DEF ReadIInv, ReadTypes
  <1>3. ASSUME NEW r \in Relay, Subject!Publish(r) PROVE ReadIInv'
    <2>1. PICK e \in Event \ holds[r] : holds' = [holds EXCEPT ![r] = @ \union {e}]
      BY <1>3 DEF Subject!Publish
    <2>2. UNCHANGED <<before, until, events, state>>
      BY <1>3 DEF Subject!Publish
    <2>3. holds' \in [Relay -> SUBSET Event] /\ \A q \in Relay : holds[q] \subseteq holds'[q]
      BY <1>0, <2>1 DEF ReadTypes
    <2>4. \A q \in Relay : ReadSoFar(q)'
      BY <1>0, <2>2, <2>3 DEF ReadSoFar
    <2> QED
      BY <1>0, <2>2, <2>3, <2>4 DEF ReadIInv, ReadTypes
  <1>4. CASE UNCHANGED readVars
    BY <1>0, <1>4 DEF readVars, ReadIInv, ReadTypes, ReadSoFar
  <1> QED
    BY <1>1, <1>2, <1>3, <1>4 DEF Subject!Next

-----------------------------------------------------------------------------
(* The relays read to their end are so many that a write quorum has one.   *)
LEMMA FloorMeetsQuorum ==
  ASSUME ReadIInv, Subject!complete, NEW e \in Event,
         Subject!Cardinality({r \in Relay : e \in before[r]}) >= WRITE_QUORUM
  PROVE  \E r \in Relay : e \in events[r]
  <1> DEFINE Had == {r \in Relay : e \in before[r]}
             Read == Subject!Ended("complete")
             n == Cardinality(Relay)
  <1>1. n \in Nat /\ Had \subseteq Relay /\ Read \subseteq Relay
    BY SubjectAssumption, FS_CardinalityType DEF Subject!Ended
  <1>2. Cardinality(Had) \in Nat /\ Cardinality(Read) \in Nat
    BY <1>1, SubjectAssumption, FS_Subset, FS_CardinalityType
  <1>3. Cardinality(Had) >= WRITE_QUORUM
    BY SameCount
  <1>4. Cardinality(Read) >= n - WRITE_QUORUM + 1
    <2> DEFINE m == n - WRITE_QUORUM + 1
               S == {1, m}
    <2>1. m \in Int /\ S \subseteq Int
      BY <1>1, SubjectAssumption
    <2>2. Subject!floor = Subject!Max(S)
      BY SameCount DEF Subject!floor
    <2>3. \E x \in S : \A y \in S : x >= y
      BY <2>1
    <2>4. Subject!Max(S) \in S /\ \A y \in S : Subject!Max(S) >= y
      BY <2>3 DEF Subject!Max
    <2>5. Cardinality(Read) >= Subject!Max(S)
      BY <2>2, SameCount DEF Subject!complete
    <2>6. Subject!Max(S) >= m /\ Subject!Max(S) \in Int
      BY <2>1, <2>4
    <2> HIDE DEF S
    <2> QED
      BY <1>2, <2>1, <2>5, <2>6
  <1>5. Cardinality(Had) + Cardinality(Read) > Cardinality(Relay)
    BY <1>1, <1>2, <1>3, <1>4, SubjectAssumption
  <1> HIDE DEF Had, Read
  <1>6. Had \cap Read # {}
    BY <1>1, <1>5, SubjectAssumption, FS_MajoritiesIntersect
  <1>7. PICK r \in Relay : r \in Had /\ r \in Read
    BY <1>1, <1>6
  <1> QED
    BY <1>7 DEF Had, Read, Subject!Ended, ReadIInv, ReadSoFar

LEMMA ReadInvariance == FilterSpec => [](subject = "read" => ReadIInv)
  <1>1. FilterInit => (subject = "read" => ReadIInv)
    BY ReadInit DEF FilterInit
  <1>2. (subject = "read" => ReadIInv) /\ [FilterNext]_filterVars
          => (subject = "read" => ReadIInv)'
    <2>1. [FilterNext]_filterVars
            => subject' = subject /\ (subject = "read" => Subject!Next \/ UNCHANGED readVars)
      BY DEF FilterNext, OfIndex, filterVars
    <2> QED
      BY <2>1, ReadStep
  <1> QED
    BY <1>1, <1>2, PTL DEF FilterSpec

(* A read that is called complete has every event that a write quorum of   *)
(* the relays held when it began (paged-read.ts:117-121), for any number   *)
(* of relays, events and pages.                                            *)
THEOREM QuorumIsRead == FilterSpec => []CompleteMissesNoQuorum
  <1>1. ReadIInv => Subject!CompleteMissesNoQuorum
    BY FloorMeetsQuorum DEF Subject!CompleteMissesNoQuorum
  <1> QED
    BY <1>1, ReadInvariance, PTL DEF CompleteMissesNoQuorum
=============================================================================

--------------------------- MODULE ReadPagesProofs ---------------------------
(***************************************************************************)
(* What ReadPages makes of any number of relays and events, whatever their *)
(* caps and the bounds of the read: a relay read to its end is complete,   *)
(* a read that says nothing ended everywhere, and a relay no second of     *)
(* which fills a page is read to its end beside any others.                *)
(***************************************************************************)
EXTENDS ReadPages, FiniteSetTheorems, TLAPS

-----------------------------------------------------------------------------
(* The inductive invariant. *)

(* What the reader may take of r. *)
Wanted(r) == first[r] \ Dropped

(* Everything r held above the second s is among sn. *)
Above(r, sn, s) == \A e \in Wanted(r) : At[e] > s => e \in sn

(* What r holds at u or before. *)
UpTo(r, u) == {e \in held[r] : At[e] \in 0 .. u}

(* What SpreadRelayIsRead asks of a relay. *)
Quiet(r) ==
    /\ held[r] = first[r] /\ held[r] \intersect Dropped = {}
    /\ ~DeclaredShort(r)
    /\ site[r].others >= Room(r)
    /\ \A s \in 1 .. LastSecond : Cardinality({e \in held[r] : At[e] = s}) < Room(r)

Digesting(ph) == ph \in {"sizes", "above", "stuck"}

(* A relay that goes on has sent a page it has room for. *)
Paged(p, r) == p.state = "open" => p.largest \in Short .. Room(r)

(* A relay whose answer is digested at u has been read down to `reached`,  *)
(* a second of the page, and a page under its room was all it held.        *)
Digested(p, r, sn, pg, u) ==
    p.state = "open" =>
        /\ p.past = NoSecond
        /\ \E e \in pg : At[e] = p.reached
        /\ ~p.capped => /\ Above(r, sn, p.reached) /\ Above(r, sn, u)
                        /\ p.largest < Room(r) => Wanted(r) \subseteq sn
        /\ Quiet(r) =>
             /\ p.largest < Room(r) =>
                  UpTo(r, u) \subseteq pg /\ Cardinality(UpTo(r, u)) <= p.largest
             /\ (\E s \in 1 .. LastSecond : \A e \in pg : At[e] = s) => p.largest < Room(r)

(* A relay about to be asked at u has been read above it, but for what a   *)
(* second it filled, just above, may hold beyond what it sent of it.       *)
Asked(p, r, sn, u) ==
    p.state = "open" =>
        /\ ~p.capped => IF p.past = NoSecond THEN Above(r, sn, u)
                        ELSE /\ p.pastSent >= Short
                             /\ p.pastSent < Room(r) => Above(r, sn, u)
        /\ Quiet(r) /\ p.past # NoSecond => p.pastSent < Room(r) /\ UpTo(r, u) = {}

(* A complete relay is read whole, declares itself short or is unsure.     *)
Completed(p, r, sn, ph, uns) ==
    Short > 1 /\ p.state = "complete" =>
        \/ Wanted(r) \subseteq sn
        \/ p.sent /\ Room(r) < Short
        \/ ph = "sizes" /\ r \in uns /\ (p.pastSent < Room(r) => Wanted(r) \subseteq sn)

(* A relay that answers is open or complete, or something says why.        *)
Answering(p, r, sil, n) ==
    r \notin sil => \/ p.state \in {"open", "complete"} \/ p.capped
                    \/ p.state = "unmet" /\ n = 0

(* A quiet relay that answers is open or complete.                         *)
Reading(p, r, sil, n, b) ==
    Quiet(r) /\ r \notin sil /\ n < MaxPages /\ b =>
        \/ p.state \in {"open", "complete"} /\ ~p.capped
        \/ p.state = "unmet" /\ n = 0

(* The invariant of one relay's read. *)
RelayInv(r) ==
    /\ Paged(paging[r], r)
    /\ phase = "page" => Asked(paging[r], r, seen, until)
    /\ Digesting(phase) => Digested(paging[r], r, seen, page, until)
    /\ phase = "sizes" /\ r \in unsure /\ Quiet(r) => paging[r].pastSent < Room(r)
    /\ Completed(paging[r], r, seen, phase, unsure)
    /\ Answering(paging[r], r, silent, pages)
    /\ Reading(paging[r], r, silent, pages, budget)

(* The bound and the page between two requests. *)
PageInv ==
    /\ pages = 0 => phase = "page" /\ until = Forever /\ paging = [r \in Relay |-> Met]
    /\ phase = "above" => page # {}
    /\ phase = "stuck" => until \in 1 .. LastSecond
    /\ Digesting(phase) => \A e \in page : At[e] <= until

(* What a read that is over says. *)
DoneInv ==
    /\ Short > 1 => CompleteMeansAllRead
    /\ UntruncatedMeansEnded
    /\ SpreadRelayIsRead

ReadIInv ==
    /\ TypeOK
    /\ \A r \in Relay : first[r] \subseteq held[r]
    /\ phase # "done" => ~stopped /\ PageInv /\ \A r \in Relay : RelayInv(r)
    /\ DoneInv

-----------------------------------------------------------------------------
(* Numbers, pages and seconds. *)

(* A set of naturals has a least one, Min of it.                           *)
LEMMA MinIs ==
  ASSUME NEW S, S \subseteq Nat, S # {}
  PROVE  Min(S) \in S /\ \A y \in S : Min(S) <= y
  <1> DEFINE R == {p \in Nat \X Nat : p[1] < p[2]}
  <1>1. IsWellFoundedOn(R, Nat)
    BY NatLessThanWellFounded DEF OpToRel
  <1> HIDE DEF R
  <1>2. PICK x \in S : \A y \in S : ~(<<y, x>> \in R)
    BY <1>1, WFMin
  <1>3. ASSUME NEW y \in S PROVE x <= y
    <2>1. <<y, x>> \in Nat \X Nat /\ <<y, x>> \notin R
      BY <1>2
    <2>2. ~(y < x)
      BY <2>1 DEF R
    <2> QED
      BY <2>2
  <1>4. \E z \in S : \A y \in S : z <= y
    BY <1>3
  <1> QED
    BY <1>4 DEF Min

(* One with an upper bound has a greatest one, Max of it.                  *)
LEMMA MaxIs ==
  ASSUME NEW S, NEW n \in Nat, S # {}, \A x \in S : x \in Nat /\ x <= n
  PROVE  Max(S) \in S /\ \A y \in S : y <= Max(S)
  <1> DEFINE T == {n - x : x \in S}
  <1>1. T \subseteq Nat /\ T # {}
    OBVIOUS
  <1>2. Min(T) \in T /\ \A u \in T : Min(T) <= u
    BY <1>1, MinIs
  <1> DEFINE t == Min(T)
  <1> HIDE DEF t
  <1>3. PICK x \in S : t = n - x
    BY <1>2 DEF t
  <1>4. ASSUME NEW y \in S PROVE x >= y
    <2>1. n - x <= n - y
      BY <1>2, <1>3 DEF t
    <2> QED
      BY <2>1
  <1>5. \E z \in S : \A y \in S : z >= y
    BY <1>4
  <1>6. Max(S) \in S /\ \A y \in S : Max(S) >= y
    BY <1>5 DEF Max
  <1> QED
    BY <1>6

(* Of two naturals, Min is the lesser.                                     *)
LEMMA MinPair ==
  ASSUME NEW a \in Nat, NEW b \in Nat
  PROVE  Min({a, b}) = IF a <= b THEN a ELSE b
  <1>1. Min({a, b}) \in {a, b} /\ \A y \in {a, b} : Min({a, b}) <= y
    BY MinIs
  <1> QED
    BY <1>1

(* The smallest page and a relay's room are pages of at least one event.   *)
LEMMA ShortIs == Short \in Nat \ {0} /\ Short <= Limit
  BY ReadAssumption, MinPair DEF Short

LEMMA RoomIs ==
  ASSUME site \in [Relay -> Site], NEW r \in Relay
  PROVE  /\ Room(r) \in Nat \ {0}
         /\ site[r].cap \in Nat /\ site[r].others \in Nat
         /\ Room(r) < Short <=> site[r].cap < Short
  <1>1. site[r].cap \in Nat \ {0} /\ site[r].others \in Nat
    BY ReadAssumption DEF Site
  <1>2. Room(r) = IF Limit <= site[r].cap THEN Limit ELSE site[r].cap
    BY <1>1, ReadAssumption, MinPair DEF Room
  <1> QED
    BY <1>1, <1>2, ShortIs, ReadAssumption

(* Any set of events is finite, and its size a number that grows with it.  *)
LEMMA Events ==
  ASSUME NEW S, S \subseteq Event
  PROVE  /\ IsFiniteSet(S) /\ Cardinality(S) \in Nat
         /\ Cardinality(S) = 0 <=> S = {}
  <1>1. IsFiniteSet(S)
    BY ReadAssumption, FS_Subset
  <1> QED
    BY <1>1, FS_CardinalityType, FS_EmptySet

LEMMA Fewer ==
  ASSUME NEW S, S \subseteq Event, NEW T, T \subseteq S
  PROVE  /\ Cardinality(T) <= Cardinality(S)
         /\ Cardinality(S) <= Cardinality(T) => T = S
  <1>1. IsFiniteSet(S) /\ T \in SUBSET S
    BY Events
  <1>2. Cardinality(T) <= Cardinality(S) /\ (Cardinality(S) = Cardinality(T) => S = T)
    BY <1>1, FS_Subset
  <1>3. Cardinality(S) \in Nat /\ Cardinality(T) \in Nat
    BY Events
  <1> QED
    BY <1>2, <1>3

(* The seconds of events.                                                  *)
LEMMA Seconds ==
  ASSUME NEW S, S \subseteq Event, S # {}
  PROVE  LET T == {At[e] : e \in S}
         IN  /\ T \subseteq 1 .. LastSecond
             /\ Max(T) \in T /\ \A e \in S : At[e] <= Max(T)
             /\ Min(T) \in T /\ \A e \in S : Min(T) <= At[e]
  <1> DEFINE T == {At[e] : e \in S}
  <1>1. T \subseteq 1 .. LastSecond /\ T # {}
    BY ReadAssumption
  <1>2. \A x \in T : x \in Nat /\ x <= LastSecond
    BY <1>1, ReadAssumption
  <1>3. Max(T) \in T /\ \A y \in T : y <= Max(T)
    BY <1>1, <1>2, ReadAssumption, MaxIs
  <1>4. Min(T) \in T /\ \A y \in T : Min(T) <= y
    BY <1>1, <1>2, MinIs
  <1> QED
    BY <1>1, <1>3, <1>4

(* What a relay sends fits its room, and is all there is when it does not  *)
(* fill it; what it leaves out is no newer than what it sends.             *)
LEMMA NewestIs ==
  ASSUME site \in [Relay -> Site], NEW r \in Relay, NEW S, S \subseteq Event,
         NEW P \in Newest(r, S)
  PROVE  /\ P \subseteq S
         /\ Cardinality(P) \in 0 .. Room(r)
         /\ Cardinality(P) < Room(r) => P = S
         /\ \A e \in P, f \in S \ P : At[f] <= At[e]
  <1>1. P \subseteq S /\ Cardinality(P) = Min({Room(r), Cardinality(S)})
        /\ \A e \in P, f \in S \ P : At[f] <= At[e]
    BY DEF Newest
  <1>2. Cardinality(S) \in Nat /\ Room(r) \in Nat
    BY Events, RoomIs
  <1>3. Cardinality(P) = IF Room(r) <= Cardinality(S) THEN Room(r) ELSE Cardinality(S)
    BY <1>1, <1>2, MinPair
  <1>4. Cardinality(S) <= Cardinality(P) => P = S
    BY <1>1, Fewer
  <1> QED
    BY <1>1, <1>2, <1>3, <1>4

(* The second of the k-th newest event.                                    *)
LEMMA SecondOfIs ==
  ASSUME NEW S, S \subseteq Event, NEW k \in Nat \ {0}, k <= Cardinality(S)
  PROVE  /\ \E e \in S : At[e] = SecondOf(S, k)
         /\ Cardinality({e \in S : At[e] > SecondOf(S, k)}) < k
  <1> DEFINE T == {s \in {At[e] : e \in S} : k <= Cardinality({e \in S : At[e] >= s})}
  <1>1. S # {} /\ Cardinality(S) \in Nat
    BY Events
  <1>2. PICK m \in {At[e] : e \in S} : \A e \in S : m <= At[e]
    BY <1>1, Seconds
  <1>3. \A e \in S : At[e] \in 1 .. LastSecond
    BY ReadAssumption
  <1>4. {e \in S : At[e] >= m} = S
    BY <1>2, <1>3
  <1>5. T # {}
    BY <1>2, <1>4
  <1>6. \A x \in T : x \in Nat /\ x <= LastSecond
    BY <1>3, ReadAssumption
  <1>7. PICK s \in T : \A y \in T : y <= s
    BY <1>5, <1>6, ReadAssumption, MaxIs
  <1> DEFINE U == {e \in S : At[e] > s}
  <1>8. Cardinality(U) < k
    <2> SUFFICES ASSUME k <= Cardinality(U) PROVE FALSE
      BY Events
    <2>1. U \subseteq Event /\ Cardinality(U) \in Nat /\ U # {}
      BY Events
    <2>2. PICK v \in {At[e] : e \in U} : \A e \in U : v <= At[e]
      BY <2>1, Seconds
    <2>3. v \in {At[e] : e \in S} /\ v > s
      BY <2>2
    <2>4. {e \in S : At[e] >= v} = U
      BY <2>2, <2>3, <1>3, <1>6, <1>7
    <2>5. v \in T
      BY <2>3, <2>4
    <2>6. v <= s
      BY <2>5, <1>7
    <2>7. v \in Nat /\ s \in Nat /\ v > s
      BY <2>3, <2>5, <1>6, <1>7
    <2> QED
      BY <2>6, <2>7
  <1>9. /\ s \in {At[e] : e \in S}
        /\ Cardinality({e \in S : At[e] > s}) < k
        /\ k <= Cardinality({e \in S : At[e] >= s})
    BY <1>7, <1>8
  <1> HIDE DEF T, U
  <1>10. /\ SecondOf(S, k) \in {At[e] : e \in S}
         /\ Cardinality({e \in S : At[e] > SecondOf(S, k)}) < k
    BY <1>9 DEF SecondOf
  <1> QED
    BY <1>10

-----------------------------------------------------------------------------
(* Answers, and what the reader makes of them. *)

(* What a relay answers is held, in the seconds asked for.                 *)
LEMMA ReplyIs ==
  ASSUME TypeOK, NEW lo, NEW hi, NEW a \in Replies(lo, hi), NEW r \in Relay
  PROVE  /\ a[r].kind \in {"absent", "stopped", "eose"}
         /\ a[r].kind = "absent" => a[r].sent = {}
         /\ a[r].sent \subseteq {e \in held[r] : At[e] \in lo .. hi}
         /\ Count(a[r]) \in 0 .. Room(r)
         /\ a[r].kind = "eose" =>
              a[r].sent \in Newest(r, {e \in held[r] : At[e] \in lo .. hi})
  <1> DEFINE S == {e \in held[r] : At[e] \in lo .. hi}
  <1>1. S \subseteq Event /\ site \in [Relay -> Site]
    BY DEF TypeOK
  <1>2. a[r] \in Answers(r, lo, hi)
    BY DEF Replies
  <1>3. \/ a[r] \in [kind : {"eose"}, sent : Newest(r, S)]
        \/ a[r] = Absent
        \/ a[r] \in [kind : {"stopped"}, sent : Newest(r, S) \union {{}}]
    <2> HIDE DEF S
    <2>1. Answers(r, lo, hi) =
            [kind : {"eose"}, sent : Newest(r, S)]
            \union IF ~Lossy THEN {}
                   ELSE {Absent} \union [kind : {"stopped"}, sent : Newest(r, S) \union {{}}]
      BY DEF Answers, S
    <2> QED
      BY <1>2, <2>1
  <1>4. /\ \/ a[r].kind = "eose" /\ a[r].sent \in Newest(r, S)
           \/ a[r].kind = "absent" /\ a[r].sent = {}
           \/ a[r].kind = "stopped" /\ a[r].sent \in Newest(r, S) \union {{}}
    <2> HIDE DEF S
    <2> QED
      BY <1>3 DEF Absent
  <1>5. Room(r) \in Nat
    BY <1>1, RoomIs
  <1>6. ASSUME a[r].sent \in Newest(r, S)
        PROVE  a[r].sent \subseteq S /\ Count(a[r]) \in 0 .. Room(r)
    <2> HIDE DEF S
    <2> QED
      BY <1>1, <1>6, NewestIs DEF Count
  <1>7. ASSUME a[r].sent = {}
        PROVE  a[r].sent \subseteq S /\ Count(a[r]) \in 0 .. Room(r)
    BY <1>5, <1>7, FS_EmptySet DEF Count
  <1>8. a[r].sent \subseteq S /\ Count(a[r]) \in 0 .. Room(r)
    BY <1>4, <1>6, <1>7
  <1> QED
    BY <1>4, <1>8

(* What is kept of all the answers.                                        *)
LEMMA KeptIs ==
  ASSUME TypeOK, NEW lo \in Nat, NEW hi \in Nat, NEW a \in Replies(lo, hi)
  PROVE  /\ AllOf(a) \subseteq Event \ Dropped
         /\ \A e \in AllOf(a) : At[e] \in lo .. hi
         /\ \A r \in Relay : Kept(a[r]) \subseteq AllOf(a)
  <1>1. \A r \in Relay : Kept(a[r]) \subseteq AllOf(a)
    BY DEF AllOf
  <1>2. ASSUME NEW r \in Relay
        PROVE  /\ Kept(a[r]) \subseteq Event \ Dropped
               /\ \A e \in Kept(a[r]) : At[e] \in lo .. hi
    BY ReplyIs DEF Kept, TypeOK
  <1> QED
    BY <1>1, <1>2 DEF AllOf

(* A record with the fields of p.                                          *)
Rec(p) == [state |-> p.state, largest |-> p.largest, sent |-> p.sent,
           reached |-> p.reached, past |-> p.past, pastSent |-> p.pastSent,
           capped |-> p.capped]

(* Digest, field by field.                                                 *)
Fields(p, a, pg, q) ==
    LET n    == Count(a)
        over == p.past # NoSecond /\ n > 0
        ends == n = 0 \/ n < Short \/ n < p.largest
    IN /\ q.past = NoSecond /\ q.pastSent = p.pastSent
       /\ q.sent = (p.sent \/ n > 0)
       /\ ends => /\ q.state = IF q.capped THEN "cut_off" ELSE "complete"
                  /\ q.capped = (p.capped \/ over)
                  /\ q.largest = p.largest /\ q.reached = p.reached
       /\ ~ends /\ Kept(a) = {} => /\ q.state = "cut_off" /\ q.capped = TRUE
                                   /\ q.largest = n /\ q.reached = p.reached
       /\ ~ends /\ Kept(a) # {} => /\ q.state = "open" /\ q.largest = n
                                   /\ q.capped = (p.capped \/ over)
                                   /\ q.reached = SecondOf(pg, Cardinality(Kept(a)))
       /\ q = Rec(q)

LEMMA DigestIs ==
  ASSUME NEW p \in Paging, NEW a, NEW pg, NEW q, q = Digest(p, a, pg),
         Count(a) \in Nat
  PROVE  Fields(p, a, pg, q)
  <1> DEFINE n == Count(a)
             ends == n = 0 \/ n < Short \/ n < p.largest
             over == p.past # NoSecond /\ n > 0
             b == [p EXCEPT !.sent = @ \/ n > 0,
                            !.capped = @ \/ (p.past # NoSecond /\ n > 0),
                            !.past = NoSecond]
  <1>1. q = IF ends
            THEN [b EXCEPT !.state = IF b.capped THEN "cut_off" ELSE "complete"]
            ELSE IF Kept(a) = {}
            THEN [b EXCEPT !.state = "cut_off", !.largest = n, !.capped = TRUE]
            ELSE [b EXCEPT !.state = "open", !.largest = n,
                           !.reached = SecondOf(pg, Cardinality(Kept(a)))]
    BY DEF Digest
  <1> DEFINE snt == p.sent \/ n > 0
             cap == p.capped \/ (p.past # NoSecond /\ n > 0)
  <1>2. b = [state |-> p.state, largest |-> p.largest, sent |-> snt,
             reached |-> p.reached, past |-> NoSecond, pastSent |-> p.pastSent,
             capped |-> cap]
    <2>1. b = [p EXCEPT !.sent = snt, !.capped = cap, !.past = NoSecond]
      OBVIOUS
    <2> HIDE DEF b, snt, cap
    <2> QED
      BY <2>1 DEF Paging
  <1> HIDE DEF b, snt, cap
  <1>3. CASE ends
    <2>1. q = [b EXCEPT !.state = IF b.capped THEN "cut_off" ELSE "complete"]
      BY <1>1, <1>3
    <2> HIDE DEF ends, over, n
    <2>2. q = [state |-> IF b.capped THEN "cut_off" ELSE "complete",
               largest |-> p.largest, sent |-> snt,
               reached |-> p.reached, past |-> NoSecond, pastSent |-> p.pastSent,
               capped |-> cap]
      BY <1>2, <2>1
    <2>3. b.capped = cap
      BY <1>2
    <2>4. q = [state |-> IF cap THEN "cut_off" ELSE "complete",
               largest |-> p.largest, sent |-> snt,
               reached |-> p.reached, past |-> NoSecond, pastSent |-> p.pastSent,
               capped |-> cap]
      BY <2>2, <2>3
    <2>5. /\ q.state = (IF cap THEN "cut_off" ELSE "complete") /\ q.largest = p.largest
          /\ q.sent = snt /\ q.reached = p.reached
          /\ q.past = NoSecond /\ q.pastSent = p.pastSent /\ q.capped = cap
      BY <2>4
    <2>6. q = Rec(q)
      BY <2>4 DEF Rec
    <2>7. q.state = IF q.capped THEN "cut_off" ELSE "complete"
      BY <2>5
    <2> QED
      BY <1>3, <2>5, <2>6, <2>7 DEF Fields, ends, over, n, snt, cap
  <1>4. CASE ~ends /\ Kept(a) = {}
    <2>1. q = [b EXCEPT !.state = "cut_off", !.largest = n, !.capped = TRUE]
      BY <1>1, <1>4
    <2> HIDE DEF ends, over, n
    <2>2. q = [state |-> "cut_off", largest |-> n, sent |-> snt,
               reached |-> p.reached, past |-> NoSecond, pastSent |-> p.pastSent,
               capped |-> TRUE]
      BY <1>2, <2>1
    <2>3. /\ q.state = "cut_off" /\ q.largest = n /\ q.sent = snt /\ q.reached = p.reached
          /\ q.past = NoSecond /\ q.pastSent = p.pastSent /\ q.capped = TRUE
      BY <2>2
    <2>4. q = Rec(q)
      BY <2>2 DEF Rec
    <2> QED
      BY <1>4, <2>3, <2>4 DEF Fields, ends, over, n, snt, cap
  <1>5. CASE ~ends /\ Kept(a) # {}
    <2>1. q = [b EXCEPT !.state = "open", !.largest = n,
                        !.reached = SecondOf(pg, Cardinality(Kept(a)))]
      BY <1>1, <1>5
    <2> HIDE DEF ends, over, n
    <2>2. q = [state |-> "open", largest |-> n, sent |-> snt,
               reached |-> SecondOf(pg, Cardinality(Kept(a))),
               past |-> NoSecond, pastSent |-> p.pastSent,
               capped |-> cap]
      BY <1>2, <2>1
    <2>3. /\ q.state = "open" /\ q.largest = n /\ q.sent = snt /\ q.reached = SecondOf(pg, Cardinality(Kept(a)))
          /\ q.past = NoSecond /\ q.pastSent = p.pastSent /\ q.capped = cap
      BY <2>2
    <2>4. q = Rec(q)
      BY <2>2 DEF Rec
    <2> QED
      BY <1>5, <2>3, <2>4 DEF Fields, ends, over, n, snt, cap
  <1> QED
    BY <1>3, <1>4, <1>5

(* What a relay sends when asked below u: all it held there that the       *)
(* reader keeps, or a full page down to the second of the last it keeps.   *)
LEMMA PageReads ==
  ASSUME TypeOK, NEW r \in Relay, first[r] \subseteq held[r],
         NEW a, a.sent \in Newest(r, UpTo(r, until)),
         NEW pg, pg \subseteq Event, Kept(a) \subseteq pg,
         NEW sn, seen \subseteq sn, Kept(a) \subseteq sn,
         Above(r, seen, until)
  PROVE  /\ Count(a) < Room(r) => Wanted(r) \subseteq sn
         /\ Kept(a) # {} =>
              /\ \E e \in pg : At[e] = SecondOf(pg, Cardinality(Kept(a)))
              /\ Above(r, sn, SecondOf(pg, Cardinality(Kept(a))))
  <1> DEFINE S == UpTo(r, until)
             k == Cardinality(Kept(a))
             m == SecondOf(pg, k)
  <1>1. S \subseteq Event /\ site \in [Relay -> Site]
    BY DEF TypeOK, UpTo
  <1>2. /\ a.sent \subseteq S
        /\ Count(a) < Room(r) => a.sent = S
        /\ \A e \in a.sent, f \in S \ a.sent : At[f] <= At[e]
    <2> HIDE DEF S
    <2> QED
      BY <1>1, NewestIs DEF Count, S
  <1>3. ASSUME NEW e \in Wanted(r), e \notin seen PROVE e \in S
    <2>1. e \in held[r] /\ e \in Event /\ ~(At[e] > until)
      BY <1>3 DEF Wanted, Above, TypeOK
    <2>2. At[e] \in 1 .. LastSecond /\ until \in Nat /\ LastSecond \in Nat
      BY <2>1, ReadAssumption DEF TypeOK, Forever
    <2> QED
      BY <2>1, <2>2 DEF UpTo
  <1>4. ASSUME NEW e \in Wanted(r), e \in a.sent PROVE e \in sn
    BY <1>4 DEF Wanted, Kept
  <1>5. Count(a) < Room(r) => Wanted(r) \subseteq sn
    BY <1>2, <1>3, <1>4
  <1>6. ASSUME Kept(a) # {}
        PROVE  (\E e \in pg : At[e] = m) /\ Above(r, sn, m)
    <2>1. k \in Nat \ {0} /\ k <= Cardinality(pg)
      BY <1>6, Events, Fewer
    <2>2. (\E e \in pg : At[e] = m) /\ Cardinality({e \in pg : At[e] > m}) < k
      BY <2>1, SecondOfIs
    <2>3. m \in 1 .. LastSecond
      BY <2>2, ReadAssumption
    <2>4. ASSUME NEW e \in Wanted(r), At[e] > m, e \notin sn PROVE FALSE
      <3>1. e \in S \ a.sent /\ e \in Event
        BY <2>4, <1>1, <1>3, <1>4
      <3>2. \A f \in Kept(a) : f \in pg /\ At[e] <= At[f]
        BY <3>1, <1>2 DEF Kept
      <3>3. \A f \in Kept(a) : At[f] > m
        BY <3>1, <3>2, <2>3, <2>4, ReadAssumption
      <3>4. Kept(a) \subseteq {f \in pg : At[f] > m}
        BY <3>2, <3>3
      <3>5. {f \in pg : At[f] > m} \subseteq Event
        OBVIOUS
      <3>6. k <= Cardinality({f \in pg : At[f] > m})
        BY <3>4, <3>5, Fewer
      <3>7. Cardinality({f \in pg : At[f] > m}) \in Nat
        BY <3>5, Events
      <3> QED
        BY <3>6, <3>7, <2>1, <2>2
    <2> QED
      BY <2>2, <2>4 DEF Above
  <1> QED
    BY <1>5, <1>6

(* A quiet relay's page holds all it may, and one second never fills it.   *)
LEMMA QuietPage ==
  ASSUME TypeOK, NEW r \in Relay, Quiet(r), NEW u \in 0 .. Forever,
         NEW a, a.sent \in Newest(r, UpTo(r, u)), NEW pg, Kept(a) \subseteq pg
  PROVE  /\ Kept(a) = a.sent
         /\ Count(a) < Room(r) => /\ UpTo(r, u) \subseteq pg
                                  /\ Cardinality(UpTo(r, u)) <= Count(a)
         /\ (\E s \in 1 .. LastSecond : \A e \in pg : At[e] = s) => Count(a) < Room(r)
  <1> DEFINE S == UpTo(r, u)
  <1>1. S \subseteq Event /\ S \subseteq held[r] /\ site \in [Relay -> Site]
    BY DEF TypeOK, UpTo
  <1>2. a.sent \subseteq S /\ (Count(a) < Room(r) => a.sent = S)
    <2> HIDE DEF S
    <2> QED
      BY <1>1, NewestIs DEF Count, S
  <1>3. Kept(a) = a.sent
    BY <1>1, <1>2 DEF Kept, Quiet
  <1>4. Cardinality(S) \in Nat
    BY <1>1, Events
  <1>5. ASSUME Count(a) < Room(r) PROVE S \subseteq pg /\ Cardinality(S) <= Count(a)
    BY <1>2, <1>3, <1>4, <1>5 DEF Count
  <1>6. ASSUME NEW s \in 1 .. LastSecond, \A e \in pg : At[e] = s
        PROVE  Count(a) < Room(r)
    <2> DEFINE H == {e \in held[r] : At[e] = s}
    <2>1. a.sent \subseteq H
      BY <1>1, <1>2, <1>3, <1>6
    <2>2. H \subseteq Event /\ Cardinality(H) < Room(r)
      BY DEF Quiet, TypeOK
    <2> HIDE DEF H
    <2>3. Cardinality(a.sent) <= Cardinality(H)
      BY <2>1, <2>2, Fewer
    <2>4. Cardinality(a.sent) \in Nat /\ Cardinality(H) \in Nat /\ Room(r) \in Nat
      BY <2>1, <2>2, <1>1, Events, RoomIs
    <2> QED
      BY <2>2, <2>3, <2>4 DEF Count
  <1> QED
    BY <1>3, <1>5, <1>6

(* A relay asked below u and digested.                                     *)
LEMMA DigestKeeps ==
  ASSUME TypeOK, NEW r \in Relay, first[r] \subseteq held[r],
         NEW a, a.sent \in Newest(r, UpTo(r, until)),
         NEW pg, pg \subseteq Event, Kept(a) \subseteq pg,
         NEW sn, seen \subseteq sn, Kept(a) \subseteq sn,
         NEW q, q = Digest(paging[r], a, pg),
         \/ /\ paging[r].state = "open"
            /\ Asked(paging[r], r, seen, until) /\ Paged(paging[r], r)
         \/ paging[r] = Met /\ until = Forever
  PROVE  /\ q \in Paging
         /\ q.state \in {"open", "complete", "cut_off"}
         /\ q.state = "cut_off" => q.capped
         /\ Paged(q, r) /\ Digested(q, r, sn, pg, until)
         /\ Short > 1 /\ q.state = "complete" =>
              \/ Wanted(r) \subseteq sn
              \/ q.sent /\ Room(r) < Short
              \/ /\ paging[r].state = "open" /\ Count(a) = 0
                 /\ paging[r].past # NoSecond /\ paging[r].pastSent > 1
                 /\ q.pastSent < Room(r) => Wanted(r) \subseteq sn
         /\ q.pastSent = paging[r].pastSent
         /\ Quiet(r) /\ ~paging[r].capped =>
              ~q.capped /\ q.state \in {"open", "complete"}
  <1> DEFINE p == paging[r]
             n == Count(a)
             ends == n = 0 \/ n < Short \/ n < p.largest
             k == Cardinality(Kept(a))
             m == SecondOf(pg, k)
  <1>1. /\ p \in Paging /\ site \in [Relay -> Site] /\ until \in 0 .. Forever
        /\ UpTo(r, until) \subseteq Event
    BY DEF TypeOK, UpTo
  <1>2. /\ n \in 0 .. Room(r) /\ n \in Nat
        /\ a.sent \subseteq UpTo(r, until)
        /\ n < Room(r) => a.sent = UpTo(r, until)
    BY <1>1, NewestIs, RoomIs DEF Count
  <1>3. /\ Room(r) \in Nat \ {0} /\ Short \in Nat \ {0}
    BY <1>1, RoomIs, ShortIs
  <1>4. /\ p.largest \in Nat /\ p.pastSent \in Nat /\ p.past \in 0 .. LastSecond
        /\ p.reached \in 0 .. LastSecond
        /\ p.largest <= Room(r)
        /\ p.state = "open" => Short <= Room(r)
        /\ p.state = "open" \/ p.past = NoSecond
    BY <1>1, <1>3 DEF Paged, Paging, Met
  <1>5. p.past = NoSecond /\ ~p.capped => Above(r, seen, until)
    <2>1. CASE p.state = "open"
      BY <2>1 DEF Asked, Met
    <2>2. CASE until = Forever
      <3>1. \A e \in Wanted(r) : At[e] \in 1 .. LastSecond
        BY ReadAssumption DEF Wanted, TypeOK
      <3>2. \A e \in Wanted(r) : ~(At[e] > Forever)
        BY <3>1, ReadAssumption DEF Forever
      <3> QED
        BY <2>2, <3>2 DEF Above
    <2> QED
      BY <2>1, <2>2
  <1>6. /\ q.past = NoSecond /\ q.pastSent = p.pastSent
        /\ q.sent = (p.sent \/ n > 0)
        /\ ends => /\ q.state = IF q.capped THEN "cut_off" ELSE "complete"
                   /\ q.capped = (p.capped \/ (p.past # NoSecond /\ n > 0))
                   /\ q.largest = p.largest /\ q.reached = p.reached
        /\ ~ends /\ Kept(a) = {} => /\ q.state = "cut_off" /\ q.capped = TRUE
                                    /\ q.largest = n /\ q.reached = p.reached
        /\ ~ends /\ Kept(a) # {} => /\ q.state = "open" /\ q.largest = n
                                    /\ q.capped = (p.capped \/ (p.past # NoSecond /\ n > 0))
                                    /\ q.reached = m
        /\ q = Rec(q)
    <2>1. Fields(p, a, pg, q)
      BY <1>1, <1>2, DigestIs
    <2> QED
      BY <2>1, Zenon DEF Fields
  <1>7. /\ p.past = NoSecond /\ ~p.capped /\ n < Room(r) => Wanted(r) \subseteq sn
        /\ p.past = NoSecond /\ ~p.capped /\ Kept(a) # {} => Above(r, sn, m)
    BY <1>5, PageReads
  <1>8. Kept(a) # {} => \E e \in pg : At[e] = m
    <2>1. ASSUME Kept(a) # {} PROVE k \in Nat \ {0} /\ k <= Cardinality(pg)
      BY <2>1, Events, Fewer
    <2> QED
      BY <2>1, SecondOfIs
  <1>9. q.capped \in BOOLEAN /\ q.sent \in BOOLEAN
        /\ q.state \in {"open", "complete", "cut_off"}
        /\ (q.state = "open" <=> ~ends /\ Kept(a) # {})
        /\ q.largest \in Nat /\ q.reached \in 0 .. LastSecond
        /\ (q.state = "cut_off" => q.capped)
    <2>1. CASE ends
      <3> HIDE DEF ends
      <3>1. q.capped \in BOOLEAN /\ q.sent \in BOOLEAN
        BY <2>1, <1>6
      <3> QED
        BY <2>1, <3>1, <1>1, <1>4, <1>6
    <2>2. CASE ~ends /\ Kept(a) = {}
      <3> HIDE DEF ends
      <3>1. q.capped \in BOOLEAN /\ q.sent \in BOOLEAN
        BY <2>2, <1>6
      <3> QED
        BY <2>2, <3>1, <1>2, <1>4, <1>6
    <2>3. CASE ~ends /\ Kept(a) # {}
      <3> HIDE DEF ends
      <3>1. q.capped \in BOOLEAN /\ q.sent \in BOOLEAN
        BY <2>3, <1>6
      <3>2. m \in 0 .. LastSecond
        BY <2>3, <1>8, ReadAssumption
      <3> QED
        BY <2>3, <3>1, <3>2, <1>2, <1>4, <1>6
    <2> QED
      BY <2>1, <2>2, <2>3
  <1>10. q \in Paging
    <2>1. q.state \in State /\ q.past \in 0 .. LastSecond /\ q.pastSent \in Nat
      BY <1>4, <1>6, <1>9, ReadAssumption DEF State, NoSecond
    <2>2. Rec(q) \in Paging
      BY <1>9, <2>1 DEF Rec, Paging
    <2> QED
      BY <2>2, <1>6
  <1>11. Paged(q, r)
    BY <1>2, <1>3, <1>6, <1>9 DEF Paged
  <1>12. ASSUME q.state = "open", ~q.capped
         PROVE  p.past = NoSecond /\ ~p.capped
    BY <1>12, <1>2, <1>6, <1>9
  <1>13. Quiet(r) => /\ Kept(a) = a.sent
                     /\ n < Room(r) => /\ UpTo(r, until) \subseteq pg
                                       /\ Cardinality(UpTo(r, until)) <= n
                     /\ (\E s \in 1 .. LastSecond : \A e \in pg : At[e] = s) => n < Room(r)
    BY <1>1, QuietPage
  <1>14. Digested(q, r, sn, pg, until)
    <2> SUFFICES ASSUME q.state = "open" PROVE Digested(q, r, sn, pg, until)
      BY DEF Digested
    <2>1. q.past = NoSecond /\ q.largest = n /\ q.reached = m /\ Kept(a) # {}
      BY <1>6, <1>9
    <2>2. \E e \in pg : At[e] = q.reached
      BY <1>8, <2>1
    <2>3. ASSUME ~q.capped
          PROVE  /\ Above(r, sn, q.reached) /\ Above(r, sn, until)
                 /\ q.largest < Room(r) => Wanted(r) \subseteq sn
      <3>1. p.past = NoSecond /\ ~p.capped
        BY <1>12, <2>3
      <3>2. Above(r, sn, until)
        BY <3>1, <1>5 DEF Above
      <3> QED
        BY <3>1, <3>2, <1>7, <2>1
    <2>4. ASSUME Quiet(r)
          PROVE  /\ q.largest < Room(r) => /\ UpTo(r, until) \subseteq pg
                                           /\ Cardinality(UpTo(r, until)) <= q.largest
                 /\ (\E s \in 1 .. LastSecond : \A e \in pg : At[e] = s)
                      => q.largest < Room(r)
      BY <2>4, <2>1, <1>13
    <2> HIDE DEF p, n, ends, k, m
    <2> QED
      BY <2>1, <2>2, <2>3, <2>4 DEF Digested
  <1>15. ASSUME Short > 1, q.state = "complete"
         PROVE  \/ Wanted(r) \subseteq sn
                \/ q.sent /\ Room(r) < Short
                \/ /\ p.state = "open" /\ n = 0
                   /\ p.past # NoSecond /\ p.pastSent > 1
                   /\ q.pastSent < Room(r) => Wanted(r) \subseteq sn
    <2>1. ends /\ ~q.capped /\ ~p.capped /\ (p.past = NoSecond \/ n = 0)
      BY <1>15, <1>2, <1>6, <1>9
    <2>2. CASE p.past = NoSecond
      <3>1. CASE n < Room(r)
        BY <2>1, <2>2, <3>1, <1>7
      <3>2. CASE ~(n < Room(r))
        <4>1. n = Room(r) /\ n > 0
          BY <3>2, <1>2, <1>3
        <4>2. n < Short
          BY <2>1, <4>1, <1>3, <1>4
        <4>3. q.sent
          BY <4>1, <1>6
        <4> QED
          BY <4>1, <4>2, <4>3
      <3> QED
        BY <3>1, <3>2
    <2>3. CASE p.past # NoSecond
      <3>1. p.state = "open" /\ n = 0
        BY <2>1, <2>3, <1>4
      <3>2. p.pastSent >= Short /\ (p.pastSent < Room(r) => Above(r, seen, until))
        BY <2>1, <2>3, <3>1 DEF Asked, Met
      <3>3. p.pastSent > 1
        BY <3>2, <1>15, <1>3, <1>4
      <3>4. ASSUME p.pastSent < Room(r) PROVE Wanted(r) \subseteq sn
        BY <3>1, <3>2, <3>4, <1>3, PageReads
      <3> QED
        BY <2>3, <3>1, <3>3, <3>4, <1>6
    <2> QED
      BY <2>2, <2>3
  <1>16. ASSUME Quiet(r), ~p.capped
         PROVE  ~q.capped /\ q.state \in {"open", "complete"}
    <2>1. p.past # NoSecond => n = 0
      <3> SUFFICES ASSUME p.past # NoSecond PROVE n = 0
        OBVIOUS
      <3>1. UpTo(r, until) = {}
        BY <1>16, <1>4 DEF Asked, Met
      <3>2. a.sent = {}
        BY <3>1, <1>2
      <3> QED
        BY <3>2, FS_EmptySet DEF Count
    <2>2. ~ends => Kept(a) # {}
      <3> SUFFICES ASSUME Kept(a) = {} PROVE n = 0
        OBVIOUS
      <3>1. a.sent = {}
        BY <1>13, <1>16
      <3> QED
        BY <3>1, FS_EmptySet DEF Count
    <2>3. ~(p.past # NoSecond /\ n > 0)
      BY <2>1
    <2> QED
      BY <2>2, <2>3, <1>6, <1>9, <1>16
  <1> HIDE DEF ends, k, m
  <1> QED
    BY <1>6, <1>9, <1>10, <1>11, <1>14, <1>15, <1>16

-----------------------------------------------------------------------------
(* What comes next, once the answers are digested. *)

(* The next request: the relays are where they were but for a second the   *)
(* read stepped past, and the bound and the page suit the request.         *)
Moved(p, sn) ==
    /\ paging' \in [Relay -> Paging]
    /\ until' \in 0 .. Forever
    /\ phase' \in {"page", "sizes", "above", "stuck"}
    /\ page' \subseteq Event /\ dropped' \in BOOLEAN /\ unsure' \subseteq Relay
    /\ phase' = "sizes" =>
         /\ paging' = p
         /\ \A r \in unsure' : Quiet(r) => p[r].pastSent < Room(r)
    /\ \A r \in Relay :
         /\ paging'[r].state = p[r].state /\ paging'[r].largest = p[r].largest
         /\ paging'[r].sent = p[r].sent /\ paging'[r].capped = p[r].capped
         /\ phase' = "page" => Asked(paging'[r], r, sn, until')
         /\ phase' # "page" => Digested(paging'[r], r, sn, page', until')
    /\ phase' # "page" => \A e \in page' : At[e] <= until'
    /\ phase' = "above" => page' # {}
    /\ phase' = "stuck" => until' \in 1 .. LastSecond

(* A page asked below a second no relay still open holds more above.       *)
LEMMA NextKeeps ==
  ASSUME TypeOK, NEW p \in [Relay -> Paging], NEW sn, NEW pg,
         \A r \in Relay : Digested(p[r], r, sn, pg, until),
         NEW u \in 0 .. Forever,
         \A r \in Relay : p[r].state = "open" /\ ~p[r].capped => Above(r, sn, u),
         NextPage(p, u)
  PROVE  Moved(p, sn)
  <1>1. /\ paging' = p /\ until' = u /\ phase' = "page"
        /\ page' = {} /\ dropped' = FALSE /\ unsure' = {}
    BY DEF NextPage
  <1>2. \A r \in Relay : Asked(p[r], r, sn, u)
    BY DEF Asked, Digested
  <1> QED
    BY <1>1, <1>2 DEF Moved

LEMMA AskFirstKeeps ==
  ASSUME TypeOK, NEW p \in [Relay -> Paging], NEW sn, NEW pg, pg \subseteq Event,
         \A e \in pg : At[e] <= until,
         \A r \in Relay : Digested(p[r], r, sn, pg, until),
         NEW ph \in {"above", "stuck"},
         ph = "above" => pg # {}, ph = "stuck" => until \in 1 .. LastSecond,
         AskFirst(ph, p, pg, FALSE, {})
  PROVE  Moved(p, sn)
  <1>1. /\ paging' = p /\ until' = until /\ phase' = ph
        /\ page' = pg /\ dropped' = FALSE /\ unsure' = {}
    BY DEF AskFirst
  <1>2. until' \in 0 .. Forever
    BY <1>1 DEF TypeOK
  <1> QED
    BY <1>1, <1>2 DEF Moved

LEMMA OnwardKeeps ==
  ASSUME TypeOK, NEW p \in [Relay -> Paging], NEW sn, NEW pg, pg \subseteq Event,
         \A e \in pg : At[e] <= until,
         \A r \in Relay : Digested(p[r], r, sn, pg, until),
         NEW next \in 1 .. LastSecond,
         \A r \in Relay : p[r].state = "open" /\ ~p[r].capped => Above(r, sn, next),
         Onward(p, pg, next)
  PROVE  Moved(p, sn)
  <1>1. next \in 0 .. Forever
    BY ReadAssumption DEF Forever
  <1>2. CASE next # until
    BY <1>1, <1>2, NextKeeps DEF Onward
  <1>3. CASE next = until
    BY <1>3, AskFirstKeeps DEF Onward
  <1> QED
    BY <1>2, <1>3

(* A step past the one second of a page.                                   *)
LEMMA StepPastKeeps ==
  ASSUME TypeOK, NEW p \in [Relay -> Paging], NEW sn, NEW pg, pg \subseteq Event,
         \A e \in pg : At[e] <= until,
         \A r \in Relay : Paged(p[r], r) /\ Digested(p[r], r, sn, pg, until),
         NEW s \in 1 .. LastSecond, pg # {}, \A e \in pg : At[e] = s,
         NextPage(StepPast(p, s), s - 1)
  PROVE  Moved(p, sn)
  <1> DEFINE q == StepPast(p, s)
  <1>1. /\ paging' = q /\ until' = s - 1 /\ phase' = "page"
        /\ page' = {} /\ dropped' = FALSE /\ unsure' = {}
    BY DEF NextPage
  <1>2. /\ s \in Nat /\ s # NoSecond /\ s \in 0 .. LastSecond /\ s - 1 \in 0 .. Forever
        /\ s <= until /\ until \in Nat
    BY ReadAssumption DEF NoSecond, Forever, TypeOK
  <1>3. ASSUME NEW r \in Relay
        PROVE  /\ q[r] \in Paging
               /\ q[r].state = p[r].state /\ q[r].largest = p[r].largest
               /\ q[r].sent = p[r].sent /\ q[r].capped = p[r].capped
               /\ p[r].state = "open" => q[r].past = s /\ q[r].pastSent = p[r].largest
    <2>1. q[r] = IF p[r].state = "open"
                 THEN [p[r] EXCEPT !.past = s, !.pastSent = p[r].largest] ELSE p[r]
      BY DEF StepPast, Open
    <2>2. p[r] \in Paging
      OBVIOUS
    <2> HIDE DEF q
    <2> QED
      BY <2>1, <2>2, <1>2 DEF Paging
  <1>4. ASSUME NEW r \in Relay PROVE Asked(q[r], r, sn, s - 1)
    <2> SUFFICES ASSUME p[r].state = "open" PROVE Asked(q[r], r, sn, s - 1)
      BY <1>3 DEF Asked
    <2>1. site \in [Relay -> Site] /\ Room(r) \in Nat /\ Short \in Nat
      BY RoomIs, ShortIs DEF TypeOK
    <2>2. p[r].largest \in Short .. Room(r) /\ p[r].largest \in Nat
      BY <2>1 DEF Paged
    <2>3. ASSUME ~p[r].capped, p[r].largest < Room(r) PROVE Above(r, sn, s - 1)
      BY <2>3 DEF Digested, Above
    <2>4. ASSUME Quiet(r) PROVE p[r].largest < Room(r) /\ UpTo(r, s - 1) = {}
      <3>1. p[r].largest < Room(r)
        BY <2>4 DEF Digested
      <3>2. UpTo(r, until) \subseteq pg
        BY <2>4, <3>1 DEF Digested
      <3>3. ASSUME NEW e \in UpTo(r, s - 1) PROVE FALSE
        <4>1. e \in held[r] /\ At[e] \in 0 .. (s - 1)
          BY DEF UpTo
        <4>2. e \in UpTo(r, until)
          BY <4>1, <1>2 DEF UpTo
        <4>3. At[e] = s
          BY <4>2, <3>2
        <4> QED
          BY <4>1, <4>3, <1>2
      <3> QED
        BY <3>1, <3>3
    <2> HIDE DEF q
    <2> QED
      BY <2>1, <2>2, <2>3, <2>4, <1>2, <1>3 DEF Asked
  <1>5. q \in [Relay -> Paging]
    <2>1. q = [r \in Relay |-> q[r]]
      BY DEF StepPast
    <2> HIDE DEF q
    <2> QED
      BY <2>1, <1>3
  <1> HIDE DEF q
  <1> QED
    BY <1>1, <1>2, <1>3, <1>4, <1>5 DEF Moved

(* The rest of a page's turn.                                              *)
LEMMA AdvanceKeeps ==
  ASSUME TypeOK, NEW p \in [Relay -> Paging], NEW sn, NEW pg, pg \subseteq Event,
         \A e \in pg : At[e] <= until,
         \A r \in Relay : Paged(p[r], r) /\ Digested(p[r], r, sn, pg, until),
         NEW drop, Advance(p, pg, drop)
  PROVE  Moved(p, sn)
  <1> DEFINE T     == {At[e] : e \in pg}
             top   == Max(T)
             floor == Min(T)
  <1>0. until \in 0 .. Forever
    BY DEF TypeOK
  <1>1. CASE Open(p) = {}
    <2>1. NextPage(p, until)
      BY <1>1 DEF Advance
    <2>2. \A r \in Relay : p[r].state # "open"
      BY <1>1 DEF Open
    <2> QED
      BY <2>1, <2>2, <1>0, NextKeeps
  <1>2. CASE Open(p) # {}
    <2>1. PICK o \in Relay : p[o].state = "open"
      BY <1>2 DEF Open
    <2>2. pg # {}
      BY <2>1 DEF Digested
    <2>3. /\ top \in T /\ floor \in T /\ T \subseteq 1 .. LastSecond
          /\ \A e \in pg : floor <= At[e] /\ At[e] <= top
      BY <2>2, Seconds
    <2>4. /\ top \in 1 .. LastSecond /\ floor \in 1 .. LastSecond
          /\ top \in 0 .. Forever
      BY <2>3, ReadAssumption DEF Forever
    <2>5. \A e \in pg : At[e] \in 1 .. LastSecond
      BY ReadAssumption
    <2>6. ASSUME NEW r \in Relay, p[r].state = "open"
          PROVE  /\ floor <= p[r].reached /\ p[r].reached <= top
                 /\ p[r].reached \in 1 .. LastSecond
                 /\ ~p[r].capped => Above(r, sn, p[r].reached)
      <3>1. PICK e \in pg : At[e] = p[r].reached
        BY <2>6 DEF Digested
      <3> QED
        BY <3>1, <2>3, <2>5, <2>6 DEF Digested
    <2>7. CASE top = floor
      <3>1. \A e \in pg : At[e] = top
        BY <2>3, <2>4, <2>5, <2>7
      <3>2. \A r \in Relay : p[r].state = "open" /\ ~p[r].capped => Above(r, sn, top)
        <4>1. \A r \in Relay : p[r].state = "open" => p[r].reached = top
          BY <2>4, <2>6, <2>7
        <4> QED
          BY <4>1, <2>6
      <3>3. CASE drop /\ until # top
        <4>1. NextPage(p, top)
          BY <3>3, <2>7, <1>2 DEF Advance
        <4> HIDE DEF top
        <4> QED
          BY <4>1, <3>2, <2>4, NextKeeps
      <3>4. CASE ~(drop /\ until # top)
        <4>1. NextPage(StepPast(p, top), top - 1)
          BY <3>4, <2>7, <1>2 DEF Advance
        <4> HIDE DEF top
        <4> QED
          BY <4>1, <3>1, <2>2, <2>4, StepPastKeeps
      <3> QED
        BY <3>3, <3>4
    <2>8. CASE top # floor
      <3>1. CASE \E r \in Open(p) : p[r].reached > floor
        <4>1. AskFirst("above", p, pg, FALSE, {})
          BY <3>1, <2>8, <1>2 DEF Advance
        <4> QED
          BY <4>1, <2>2, AskFirstKeeps
      <3>2. CASE ~(\E r \in Open(p) : p[r].reached > floor)
        <4>1. Onward(p, pg, floor)
          BY <3>2, <2>8, <1>2 DEF Advance
        <4>2. ASSUME NEW r \in Relay, p[r].state = "open" PROVE p[r].reached = floor
          <5>1. ~(p[r].reached > floor)
            BY <3>2, <4>2 DEF Open
          <5> HIDE DEF floor, top
          <5> QED
            BY <5>1, <4>2, <2>4, <2>6
        <4>3. \A r \in Relay : p[r].state = "open" /\ ~p[r].capped => Above(r, sn, floor)
          BY <4>2, <2>6
        <4> HIDE DEF floor
        <4> QED
          BY <4>1, <4>3, <2>4, OnwardKeeps
      <3> QED
        BY <3>1, <3>2
    <2> QED
      BY <2>7, <2>8
  <1> QED
    BY <1>1, <1>2

-----------------------------------------------------------------------------
(* The steps. *)

(* A step of the read to its next request keeps the invariant, when every  *)
(* relay is where its answers left it.                                     *)
LEMMA MovedKeeps ==
  ASSUME ReadIInv, phase # "done", NEW p \in [Relay -> Paging], Moved(p, seen'),
         seen' \subseteq Event \ Dropped, silent' \subseteq Relay,
         pages' \in 1 .. MaxPages,
         UNCHANGED <<relayVars, budget, stopped>>,
         \A r \in Relay : /\ Paged(p[r], r)
                          /\ Completed(p[r], r, seen', phase', unsure')
                          /\ Answering(p[r], r, silent', pages')
                          /\ Reading(p[r], r, silent', pages', budget)
  PROVE  ReadIInv'
  <1>1. /\ site' = site /\ first' = first /\ held' = held
        /\ budget' = budget /\ stopped' = stopped /\ ~stopped
    BY DEF relayVars, ReadIInv
  <1>2. phase' \in {"page", "sizes", "above", "stuck"} /\ unsure' \subseteq Relay
    BY DEF Moved
  <1>3. TypeOK'
    <2>1. pages' \in 0 .. MaxPages
      BY ReadAssumption
    <2> QED
      BY <1>1, <1>2, <2>1 DEF ReadIInv, TypeOK, Moved, Phase
  <1>4. \A r \in Relay : first'[r] \subseteq held'[r]
    BY <1>1 DEF ReadIInv
  <1>5. PageInv'
    <2>1. pages' # 0
      BY ReadAssumption
    <2> QED
      BY <1>2, <2>1 DEF PageInv, Moved, Digesting
  <1>6. ASSUME NEW r \in Relay PROVE RelayInv(r)'
    <2> DEFINE q == paging'[r]
    <2>1. /\ q.state = p[r].state /\ q.largest = p[r].largest
          /\ q.sent = p[r].sent /\ q.capped = p[r].capped
          /\ phase' = "page" => Asked(q, r, seen', until')
          /\ phase' # "page" => Digested(q, r, seen', page', until')
      BY DEF Moved
    <2>2. Room(r)' = Room(r) /\ Wanted(r)' = Wanted(r) /\ (Quiet(r)' <=> Quiet(r))
      BY <1>1 DEF Room, Wanted, Quiet, DeclaredShort
    <2>3. Paged(paging[r], r)'
      BY <2>1, <2>2 DEF Paged
    <2>4. phase' = "page" => Asked(paging[r], r, seen, until)'
      BY <2>1, <1>1 DEF Asked, Above, Wanted, Quiet, DeclaredShort, Room, UpTo
    <2>5. Digesting(phase') => Digested(paging[r], r, seen, page, until)'
      BY <2>1, <1>1, <1>2 DEF Digesting, Digested, Above, Wanted, Quiet, DeclaredShort, Room, UpTo
    <2>6. Completed(paging[r], r, seen, phase, unsure)'
      <3>1. phase' = "sizes" => q.pastSent = p[r].pastSent
        BY DEF Moved
      <3> HIDE DEF q
      <3>2. Completed(q, r, seen', phase', unsure')
        BY <2>1, <3>1 DEF Completed
      <3> QED
        BY <3>2, <2>2 DEF Completed, q
    <2>7. Answering(paging[r], r, silent, pages)'
      BY <2>1 DEF Answering
    <2>8. Reading(paging[r], r, silent, pages, budget)'
      BY <2>1, <2>2, <1>1 DEF Reading
    <2>9. phase' = "sizes" /\ r \in unsure' /\ Quiet(r)' => paging'[r].pastSent < Room(r)'
      BY <2>2 DEF Moved
    <2> QED
      BY <2>3, <2>4, <2>5, <2>6, <2>7, <2>8, <2>9 DEF RelayInv
  <1>7. DoneInv'
    BY <1>2 DEF DoneInv, CompleteMeansAllRead, UntruncatedMeansEnded, SpreadRelayIsRead
  <1> QED
    BY <1>1, <1>3, <1>4, <1>5, <1>6, <1>7 DEF ReadIInv

(* A relay stopped in the middle of the read.                              *)
LEMMA StopIs ==
  ASSUME NEW p \in Paging, NEW a, NEW q, q = Stop(p, a)
  PROVE  /\ q \in Paging /\ q.state \in {"cut_off", "no_answer"}
         /\ q.capped = p.capped
  BY DEF Stop, Paging, State

(* Reads, arm by arm.                                                      *)
LEMMA ReadsIs ==
  ASSUME NEW p, NEW a, NEW pg, NEW q, q = Reads(p, a, pg), pages \in Nat
  PROVE  /\ p.state = "unmet" /\ a.kind = "absent" => q = p
         /\ p.state \in {"complete", "cut_off", "no_answer"} => q = p
         /\ /\ p.state \in {"unmet", "open"}
            /\ ~(p.state = "unmet" /\ a.kind = "absent")
            => IF a.kind # "eose" \/ (p.state = "unmet" /\ pages > 0)
               THEN q = Stop(p, a) ELSE q = Digest(p, a, pg)
  BY DEF Reads

(* A relay whose answer to a page is read.                                 *)
LEMMA ReadsKeeps ==
  ASSUME ReadIInv, phase = "page", ~Spent, NEW a \in Replies(0, until), NEW r \in Relay,
         NEW sn, sn = seen \union AllOf(a), NEW q, q = Reads(paging[r], a[r], AllOf(a))
  PROVE  /\ q \in Paging
         /\ Paged(q, r) /\ Digested(q, r, sn, AllOf(a), until)
         /\ Completed(q, r, sn, "sizes", Unsure(a))
         /\ Answering(q, r, silent \union Failed(a), pages + 1)
         /\ Reading(q, r, silent \union Failed(a), pages + 1, budget)
         /\ r \in Unsure(a) /\ Quiet(r) => q.pastSent < Room(r)
  <1> DEFINE p == paging[r]
             sil == silent \union Failed(a)
  <1>1. /\ TypeOK /\ first[r] \subseteq held[r] /\ PageInv /\ RelayInv(r)
        /\ p \in Paging /\ pages \in Nat /\ until \in Nat /\ pages < MaxPages
    BY ReadAssumption DEF ReadIInv, TypeOK, Spent, Forever
  <1>2. /\ Paged(p, r) /\ Asked(p, r, seen, until)
        /\ Completed(p, r, seen, "page", unsure)
        /\ Answering(p, r, silent, pages) /\ Reading(p, r, silent, pages, budget)
    BY <1>1 DEF RelayInv
  <1>3. /\ AllOf(a) \subseteq Event /\ Kept(a[r]) \subseteq AllOf(a)
        /\ seen \subseteq sn /\ Kept(a[r]) \subseteq sn
    BY <1>1, KeptIs
  <1>4. a[r].kind = "eose" => a[r].sent \in Newest(r, UpTo(r, until))
    BY <1>1, ReplyIs DEF UpTo
  <1>5. r \notin sil => r \notin silent /\ a[r].kind = "eose"
    BY DEF Failed
  <1>6. Quiet(r) /\ r \notin sil /\ pages + 1 < MaxPages /\ budget =>
          \/ p.state \in {"open", "complete"} /\ ~p.capped
          \/ p.state = "unmet" /\ pages = 0
    BY <1>1, <1>2, <1>5, ReadAssumption DEF Reading
  <1>7. CASE p.state = "unmet" /\ a[r].kind = "absent"
    <2>1. q = p
      BY <1>1, <1>7, ReadsIs
    <2> QED
      BY <1>1, <1>5, <1>7, <2>1
      DEF Paged, Digested, Completed, Answering, Reading, Unsure, Open
  <1>8. CASE p.state \in {"complete", "cut_off", "no_answer"}
    <2>1. q = p
      BY <1>1, <1>8, ReadsIs
    <2>2. Paged(q, r) /\ Digested(q, r, sn, AllOf(a), until)
          /\ (r \in Unsure(a) /\ Quiet(r) => q.pastSent < Room(r))
      BY <1>8, <2>1 DEF Paged, Digested, Unsure, Open
    <2>3. Completed(q, r, sn, "sizes", Unsure(a))
      BY <2>1, <1>2, <1>3 DEF Completed
    <2>4. Answering(q, r, sil, pages + 1)
      BY <2>1, <1>2, <1>5, <1>8 DEF Answering
    <2>5. Reading(q, r, sil, pages + 1, budget)
      BY <2>1, <1>6, <1>8 DEF Reading
    <2> QED
      BY <1>1, <2>1, <2>2, <2>3, <2>4, <2>5
  <1>9. CASE /\ p.state \in {"unmet", "open"}
             /\ ~(p.state = "unmet" /\ a[r].kind = "absent")
             /\ a[r].kind # "eose" \/ (p.state = "unmet" /\ pages > 0)
    <2>1. q = Stop(p, a[r])
      BY <1>1, <1>9, ReadsIs
    <2>2. q \in Paging /\ q.state \in {"cut_off", "no_answer"} /\ q.capped = p.capped
      BY <1>1, <2>1, StopIs
    <2>3. r \notin sil => p.state = "unmet" /\ pages # 0
      BY <1>1, <1>5, <1>9
    <2>4. Answering(q, r, sil, pages + 1)
      BY <2>2, <2>3, <1>2, <1>5 DEF Answering
    <2>5. Reading(q, r, sil, pages + 1, budget)
      BY <2>2, <2>3, <1>6 DEF Reading
    <2>6. ~(r \in Unsure(a))
      BY <1>9 DEF Unsure, Open
    <2> QED
      BY <2>2, <2>4, <2>5, <2>6 DEF Paged, Digested, Completed
  <1>10. CASE /\ p.state \in {"unmet", "open"}
              /\ ~(p.state = "unmet" /\ a[r].kind = "absent")
              /\ ~(a[r].kind # "eose" \/ (p.state = "unmet" /\ pages > 0))
    <2>1. q = Digest(p, a[r], AllOf(a)) /\ a[r].kind = "eose"
      BY <1>1, <1>10, ReadsIs
    <2>2. p.state = "open" \/ (p = Met /\ until = Forever)
      BY <1>1, <1>10 DEF PageInv
    <2>3. /\ q \in Paging
          /\ q.state \in {"open", "complete", "cut_off"}
          /\ q.state = "cut_off" => q.capped
          /\ Paged(q, r) /\ Digested(q, r, sn, AllOf(a), until)
          /\ Short > 1 /\ q.state = "complete" =>
               \/ Wanted(r) \subseteq sn
               \/ q.sent /\ Room(r) < Short
               \/ /\ p.state = "open" /\ Count(a[r]) = 0
                  /\ p.past # NoSecond /\ p.pastSent > 1
                  /\ q.pastSent < Room(r) => Wanted(r) \subseteq sn
          /\ q.pastSent = p.pastSent
          /\ Quiet(r) /\ ~p.capped => ~q.capped /\ q.state \in {"open", "complete"}
      <3>1. /\ TypeOK /\ first[r] \subseteq held[r]
            /\ a[r].sent \in Newest(r, UpTo(r, until))
            /\ q = Digest(paging[r], a[r], AllOf(a))
            /\ \/ /\ paging[r].state = "open"
                  /\ Asked(paging[r], r, seen, until) /\ Paged(paging[r], r)
               \/ paging[r] = Met /\ until = Forever
        BY <1>1, <1>2, <1>4, <2>1, <2>2
      <3> QED
        BY <3>1, <1>3, DigestKeeps
    <2>4. Completed(q, r, sn, "sizes", Unsure(a))
      <3>1. p.state = "open" /\ Count(a[r]) = 0 /\ p.past # NoSecond /\ p.pastSent > 1
            => r \in Unsure(a)
        BY <2>1 DEF Unsure, Open
      <3> HIDE DEF p
      <3> QED
        BY <2>3, <3>1 DEF Completed
    <2>5. Answering(q, r, sil, pages + 1)
      BY <2>3 DEF Answering
    <2>6. p.state = "unmet" => ~p.capped
      BY <2>2 DEF Met
    <2>7. Reading(q, r, sil, pages + 1, budget)
      BY <2>3, <2>6, <1>6 DEF Reading
    <2>8. r \in Unsure(a) /\ Quiet(r) => q.pastSent < Room(r)
      BY <2>3, <1>2 DEF Unsure, Open, Asked
    <2> QED
      BY <2>3, <2>4, <2>5, <2>7, <2>8
  <1>11. p.state \in {"unmet", "open", "complete", "cut_off", "no_answer"}
    BY <1>1 DEF Paging, State
  <1> QED
    BY <1>7, <1>8, <1>9, <1>10, <1>11

LEMMA AskPageKeeps == ASSUME ReadIInv, AskPage PROVE ReadIInv'
  <1> PICK a \in Replies(0, until) :
        LET p  == [r \in Relay |-> Reads(paging[r], a[r], AllOf(a))]
            drop == \E r \in Open(p) : a[r].sent \intersect Dropped # {}
        IN /\ Asks(a)
           /\ seen' = seen \union AllOf(a)
           /\ IF Unsure(a) # {}
              THEN AskFirst("sizes", p, AllOf(a), drop, Unsure(a))
              ELSE Advance(p, AllOf(a), drop)
    BY DEF AskPage
  <1> DEFINE p == [r \in Relay |-> Reads(paging[r], a[r], AllOf(a))]
             drop == \E r \in Open(p) : a[r].sent \intersect Dropped # {}
             sn == seen \union AllOf(a)
             pg == AllOf(a)
  <1>1. /\ phase = "page" /\ ~Spent /\ phase # "done"
        /\ Asks(a) /\ seen' = sn
        /\ Unsure(a) # {} => AskFirst("sizes", p, pg, drop, Unsure(a))
        /\ Unsure(a) = {} => Advance(p, pg, drop)
    BY DEF AskPage
  <1>2. TypeOK /\ until \in 0 .. Forever /\ until \in Nat /\ pages \in Nat /\ pages < MaxPages
    BY <1>1, ReadAssumption DEF ReadIInv, TypeOK, Spent, Forever
  <1>3. /\ pg \subseteq Event \ Dropped /\ \A e \in pg : At[e] \in 0 .. until
    BY <1>2, KeptIs
  <1>4. \A e \in pg : At[e] <= until
    BY <1>2, <1>3
  <1>5. ASSUME NEW r \in Relay
        PROVE  /\ p[r] \in Paging
               /\ Paged(p[r], r) /\ Digested(p[r], r, sn, pg, until)
               /\ Completed(p[r], r, sn, "sizes", Unsure(a))
               /\ Answering(p[r], r, silent \union Failed(a), pages + 1)
               /\ Reading(p[r], r, silent \union Failed(a), pages + 1, budget)
               /\ r \in Unsure(a) /\ Quiet(r) => p[r].pastSent < Room(r)
    <2>1. p[r] = Reads(paging[r], a[r], AllOf(a))
      OBVIOUS
    <2> QED
      BY <1>1, <2>1, ReadsKeeps
  <1>6. p \in [Relay -> Paging]
    BY <1>5
  <1>7. Unsure(a) \subseteq Relay /\ silent \union Failed(a) \subseteq Relay
    BY <1>2 DEF Unsure, Open, Failed, TypeOK
  <1>8. /\ pages' = pages + 1 /\ silent' = silent \union Failed(a)
        /\ UNCHANGED <<relayVars, budget, stopped>>
    BY <1>1 DEF Asks
  <1> HIDE DEF p, pg
  <1>9. drop \in BOOLEAN
    OBVIOUS
  <1> HIDE DEF drop
  <1>12. ASSUME Moved(p, sn), \A r \in Relay : Completed(p[r], r, sn, phase', unsure')
         PROVE  ReadIInv'
    <2>1. /\ seen' \subseteq Event \ Dropped /\ silent' \subseteq Relay
          /\ pages' \in 1 .. MaxPages
      BY <1>1, <1>2, <1>3, <1>7, <1>8, ReadAssumption DEF TypeOK, pg
    <2>2. \A r \in Relay : /\ Paged(p[r], r)
                           /\ Completed(p[r], r, seen', phase', unsure')
                           /\ Answering(p[r], r, silent', pages')
                           /\ Reading(p[r], r, silent', pages', budget)
      BY <1>1, <1>5, <1>8, <1>12
    <2> HIDE DEF sn
    <2> QED
      BY <1>1, <1>6, <1>8, <1>12, <2>1, <2>2, MovedKeeps
  <1>10. CASE Unsure(a) # {}
    <2>1. /\ paging' = p /\ until' = until /\ phase' = "sizes"
          /\ page' = pg /\ dropped' = drop /\ unsure' = Unsure(a)
      BY <1>1, <1>10 DEF AskFirst
    <2>2. Moved(p, sn)
      BY <2>1, <1>2, <1>3, <1>4, <1>5, <1>6, <1>7, <1>9 DEF Moved
    <2>3. \A r \in Relay : Completed(p[r], r, sn, phase', unsure')
      BY <2>1, <1>5
    <2> QED
      BY <2>2, <2>3, <1>12
  <1>11. CASE Unsure(a) = {}
    <2>1. Moved(p, sn)
      BY <1>1, <1>2, <1>3, <1>4, <1>5, <1>6, <1>11, AdvanceKeeps
    <2>2. \A r \in Relay : Completed(p[r], r, sn, phase', unsure')
      BY <1>5, <1>11 DEF Completed
    <2> QED
      BY <2>1, <2>2, <1>12
  <1> QED
    BY <1>10, <1>11

(* Cut off the unsure relays S, when no quiet one that answers is among    *)
(* them and any other has room for more than it sent of its last second.   *)
LEMMA CutOffKeeps ==
  ASSUME ReadIInv, phase = "sizes", NEW S, S \subseteq unsure,
         NEW sil, silent \subseteq sil, sil \subseteq Relay,
         NEW n \in 1 .. MaxPages, pages <= n,
         \A r \in unsure \ S : paging[r].pastSent < Room(r),
         \A r \in S : ~(Quiet(r) /\ r \notin sil /\ n < MaxPages /\ budget),
         Advance(CutOff(paging, S), page, dropped),
         seen' = seen, silent' = sil, pages' = n,
         UNCHANGED <<relayVars, budget, stopped>>
  PROVE  ReadIInv'
  <1> DEFINE p == CutOff(paging, S)
  <1>1. /\ TypeOK /\ PageInv /\ pages \in Nat /\ pages # 0
        /\ MaxPages \in Nat /\ n \in Nat
    BY ReadAssumption DEF ReadIInv, TypeOK, PageInv
  <1>2. ASSUME NEW r \in Relay
        PROVE  /\ p[r] \in Paging
               /\ r \in S => p[r].state = "cut_off" /\ p[r].capped
               /\ r \notin S => p[r] = paging[r]
               /\ p[r].largest = paging[r].largest
    <2>1. paging[r] \in Paging
      BY <1>1 DEF TypeOK
    <2>2. p[r] = IF r \in S THEN [paging[r] EXCEPT !.capped = TRUE, !.state = "cut_off"]
                 ELSE paging[r]
      BY DEF CutOff
    <2> HIDE DEF p
    <2>3. CASE r \in S
      <3>1. p[r] = [paging[r] EXCEPT !.capped = TRUE, !.state = "cut_off"]
        BY <2>2, <2>3
      <3>2. p[r] \in Paging /\ p[r].state = "cut_off" /\ p[r].capped = TRUE
            /\ p[r].largest = paging[r].largest
        BY <2>1, <3>1 DEF Paging, State
      <3> QED
        BY <2>3, <3>2
    <2>4. CASE r \notin S
      BY <2>1, <2>2, <2>4
    <2> QED
      BY <2>3, <2>4
  <1>3. p \in [Relay -> Paging]
    <2>1. p = [r \in Relay |-> p[r]]
      BY DEF CutOff
    <2> HIDE DEF p
    <2> QED
      BY <1>2, <2>1
  <1> HIDE DEF p
  <1>4. ASSUME NEW r \in Relay
        PROVE  /\ Paged(p[r], r) /\ Digested(p[r], r, seen, page, until)
               /\ Completed(p[r], r, seen, "page", {})
               /\ Answering(p[r], r, sil, n)
               /\ Reading(p[r], r, sil, n, budget)
    <2>1. RelayInv(r)
      BY DEF ReadIInv
    <2>2. CASE r \in S
      BY <2>2, <1>2 DEF Paged, Digested, Completed, Answering, Reading
    <2>3. CASE r \notin S
      <3>1. p[r] = paging[r]
        BY <2>3, <1>2
      <3>2. Paged(p[r], r) /\ Digested(p[r], r, seen, page, until)
        BY <2>1, <3>1 DEF RelayInv, Digesting
      <3>3. Completed(paging[r], r, seen, "sizes", unsure)
        BY <2>1 DEF RelayInv
      <3>4. Completed(p[r], r, seen, "page", {})
        BY <2>3, <3>1, <3>3 DEF Completed
      <3>5. Answering(p[r], r, sil, n) /\ Reading(p[r], r, sil, n, budget)
        BY <2>1, <3>1, <1>1 DEF RelayInv, Answering, Reading
      <3> QED
        BY <3>2, <3>4, <3>5
    <2> QED
      BY <2>2, <2>3
  <1>5. page \subseteq Event /\ \A e \in page : At[e] <= until
    BY <1>1 DEF PageInv, TypeOK, Digesting
  <1>6. Moved(p, seen)
    BY <1>1, <1>3, <1>4, <1>5, AdvanceKeeps DEF p
  <1>7. seen' \subseteq Event \ Dropped /\ silent' \subseteq Relay /\ pages' \in 1 .. MaxPages
    BY <1>1 DEF TypeOK
  <1>8. \A r \in Relay : /\ Paged(p[r], r)
                         /\ Completed(p[r], r, seen', phase', unsure')
                         /\ Answering(p[r], r, silent', pages')
                         /\ Reading(p[r], r, silent', pages', budget)
    BY <1>4 DEF Completed
  <1>9. Moved(p, seen') /\ phase # "done"
    BY <1>6
  <1> QED
    BY <1>3, <1>7, <1>8, <1>9, MovedKeeps

LEMMA AskSizesKeeps == ASSUME ReadIInv, AskSizes PROVE ReadIInv'
  <1> PICK answered \in IF Lossy THEN SUBSET Relay ELSE {Relay} :
        /\ pages' = pages + 1
        /\ silent' = silent \union (Relay \ answered)
        /\ LET sure == {r \in unsure \intersect answered : Size(r) > paging[r].pastSent}
           IN Advance(CutOff(paging, unsure \ sure), page, dropped)
    BY DEF AskSizes
  <1> DEFINE sure == {r \in unsure \intersect answered : Size(r) > paging[r].pastSent}
             S    == unsure \ sure
             sil  == silent \union (Relay \ answered)
  <1>1. /\ phase = "sizes" /\ ~Spent
        /\ UNCHANGED <<relayVars, seen, budget, stopped>>
    BY DEF AskSizes
  <1>2. TypeOK /\ pages \in Nat /\ pages < MaxPages /\ MaxPages \in Nat
    BY <1>1, ReadAssumption DEF ReadIInv, TypeOK, Spent
  <1>3. ASSUME NEW r \in Relay
        PROVE  /\ Size(r) <= Room(r) /\ Size(r) \in Nat /\ Room(r) \in Nat
               /\ site[r].others >= Room(r) => Size(r) = Room(r)
    <2>1. /\ Room(r) \in Nat /\ site[r].others \in Nat
          /\ Cardinality(held[r]) \in Nat
      BY <1>2, RoomIs, Events DEF TypeOK
    <2>2. Size(r) = IF Room(r) <= Cardinality(held[r]) + site[r].others THEN Room(r)
                    ELSE Cardinality(held[r]) + site[r].others
      BY <2>1, MinPair DEF Size
    <2> QED
      BY <2>1, <2>2
  <1>4. \A r \in Relay : paging[r].pastSent \in Nat
    BY <1>2 DEF TypeOK, Paging
  <1>5. unsure \subseteq Relay /\ silent \subseteq Relay /\ sil \subseteq Relay
        /\ silent \subseteq sil /\ S \subseteq unsure
    BY <1>2 DEF TypeOK
  <1>6. \A r \in unsure \ S : paging[r].pastSent < Room(r)
    BY <1>3, <1>4, <1>5
  <1>7. ASSUME NEW r \in S, Quiet(r), r \notin sil PROVE FALSE
    <2>1. paging[r].pastSent < Room(r)
      BY <1>1, <1>5, <1>7 DEF ReadIInv, RelayInv
    <2>2. Size(r) = Room(r)
      BY <1>3, <1>5, <1>7 DEF Quiet
    <2>3. r \in answered
      BY <1>5, <1>7
    <2> QED
      BY <2>1, <2>2, <2>3
  <1>8. pages + 1 \in 1 .. MaxPages /\ pages <= pages + 1
    BY <1>2
  <1>9. Advance(CutOff(paging, S), page, dropped)
    OBVIOUS
  <1> HIDE DEF sure, S
  <1> QED
    BY <1>1, <1>5, <1>6, <1>7, <1>8, <1>9, CutOffKeeps

LEMMA SizesUnaskedKeeps == ASSUME ReadIInv, SizesUnasked PROVE ReadIInv'
  <1>1. /\ phase = "sizes" /\ Spent /\ Advance(CutOff(paging, unsure), page, dropped)
        /\ UNCHANGED <<relayVars, silent, seen, pages, budget, stopped>>
    BY DEF SizesUnasked
  <1>2. /\ TypeOK /\ PageInv /\ pages \in 1 .. MaxPages /\ pages <= pages
        /\ silent \subseteq Relay
    BY <1>1, ReadAssumption DEF ReadIInv, TypeOK, PageInv
  <1>3. ~(pages < MaxPages /\ budget)
    BY <1>1, <1>2, ReadAssumption DEF Spent
  <1> QED
    BY <1>1, <1>2, <1>3, CutOffKeeps

(* What a window of seconds below the bound, asked of a relay read above   *)
(* the bound, leaves it read above, when it did not fill its room.         *)
LEMMA WindowReads ==
  ASSUME TypeOK, NEW lo \in Nat \ {0}, NEW a \in Replies(lo, until), NEW r \in Relay,
         first[r] \subseteq held[r], a[r].kind = "eose", Count(a[r]) < Room(r),
         Above(r, seen, until)
  PROVE  Above(r, seen \union AllOf(a), lo - 1)
  <1> DEFINE S == {e \in held[r] : At[e] \in lo .. until}
  <1>1. S \subseteq Event /\ site \in [Relay -> Site] /\ until \in Nat
    BY ReadAssumption DEF TypeOK, Forever
  <1>2. a[r].sent \in Newest(r, S)
    BY ReplyIs
  <1>3. a[r].sent = S
    <2> HIDE DEF S
    <2> QED
      BY <1>1, <1>2, NewestIs DEF Count
  <1>4. ASSUME NEW e \in Wanted(r), At[e] > lo - 1, e \notin seen
        PROVE  e \in AllOf(a)
    <2>1. e \in held[r] /\ e \in Event /\ e \notin Dropped /\ ~(At[e] > until)
      BY <1>4 DEF Wanted, Above, TypeOK
    <2>2. At[e] \in Nat
      BY <2>1, ReadAssumption
    <2>3. e \in S
      BY <2>1, <2>2, <1>1, <1>4
    <2>4. e \in Kept(a[r])
      BY <2>1, <2>3, <1>3 DEF Kept
    <2> QED
      BY <2>4 DEF AllOf
  <1> QED
    BY <1>4 DEF Above

(* A relay still open, asked for a window: it is open if it answered, and  *)
(* what is known of it is known of what it sent besides.                   *)
LEMMA ProbedKeeps ==
  ASSUME ReadIInv, phase \in {"above", "stuck"}, ~Spent,
         NEW lo \in Nat, NEW a \in Replies(lo, until), NEW r \in Relay,
         NEW q, q = Probed(a)[r], NEW sn, sn = seen \union AllOf(a)
  PROVE  /\ q \in Paging
         /\ Paged(q, r) /\ Digested(q, r, sn, page, until)
         /\ Completed(q, r, sn, "page", {})
         /\ Answering(q, r, silent \union Failed(a), pages + 1)
         /\ Reading(q, r, silent \union Failed(a), pages + 1, budget)
         /\ q.state = "open" => /\ paging[r].state = "open" /\ a[r].kind = "eose"
                                /\ q.largest = paging[r].largest
                                /\ q.reached = paging[r].reached
                                /\ q.capped = paging[r].capped
  <1> DEFINE p == paging[r]
             sil == silent \union Failed(a)
             snt == p.sent \/ a[r].sent # {}
  <1>1. /\ TypeOK /\ PageInv /\ RelayInv(r) /\ p \in Paging
        /\ pages \in Nat /\ pages # 0 /\ pages < MaxPages /\ MaxPages \in Nat
    BY ReadAssumption DEF ReadIInv, TypeOK, Spent, PageInv
  <1>2. /\ Paged(p, r) /\ Digested(p, r, seen, page, until)
        /\ Completed(p, r, seen, phase, unsure)
        /\ Answering(p, r, silent, pages) /\ Reading(p, r, silent, pages, budget)
    BY <1>1 DEF RelayInv, Digesting
  <1>3. r \notin sil => r \notin silent /\ a[r].kind = "eose"
    BY DEF Failed
  <1>4. q = CASE p.state = "open" /\ a[r].kind = "eose" -> [p EXCEPT !.sent = snt]
              [] p.state = "open" /\ a[r].kind # "eose" -> Stop(p, a[r])
              [] p.state = "unmet" /\ a[r].kind # "absent" -> Stop(p, a[r])
              [] OTHER -> p
    BY DEF Probed
  <1>5. snt \in BOOLEAN
    BY <1>1 DEF Paging
  <1> HIDE DEF snt
  <1>6. CASE p.state = "open" /\ a[r].kind = "eose"
    <2>1. q = [p EXCEPT !.sent = snt]
      BY <1>4, <1>6
    <2>2. /\ q \in Paging /\ q.state = "open" /\ q.largest = p.largest
          /\ q.reached = p.reached /\ q.past = p.past /\ q.capped = p.capped
      BY <2>1, <1>1, <1>5, <1>6 DEF Paging
    <2> HIDE DEF p
    <2>3. Digested(q, r, sn, page, until)
      BY <2>2, <1>2, <1>6 DEF Digested, Above
    <2>4. Paged(q, r) /\ Completed(q, r, sn, "page", {})
          /\ Answering(q, r, sil, pages + 1)
      BY <2>2, <1>2, <1>6 DEF Paged, Completed, Answering
    <2>5. Reading(q, r, sil, pages + 1, budget)
      BY <2>2, <1>1, <1>2, <1>3, <1>6 DEF Reading
    <2> QED
      BY <2>2, <2>3, <2>4, <2>5, <1>6 DEF p
  <1>7. CASE \/ p.state = "open" /\ a[r].kind # "eose"
             \/ p.state = "unmet" /\ a[r].kind # "absent"
    <2>1. q = Stop(p, a[r])
      BY <1>4, <1>7
    <2>2. q \in Paging /\ q.state \in {"cut_off", "no_answer"} /\ q.capped = p.capped
      BY <1>1, <2>1, StopIs
    <2>3. r \notin sil => p.state = "unmet"
      BY <1>3, <1>7
    <2> HIDE DEF p
    <2>4. Answering(q, r, sil, pages + 1)
      BY <2>2, <2>3, <1>1, <1>2, <1>3 DEF Answering
    <2>5. Reading(q, r, sil, pages + 1, budget)
      BY <2>2, <2>3, <1>1, <1>2, <1>3 DEF Reading
    <2> QED
      BY <2>2, <2>4, <2>5 DEF Paged, Digested, Completed
  <1>8. CASE \/ p.state \in {"complete", "cut_off", "no_answer"}
             \/ p.state = "unmet" /\ a[r].kind = "absent"
    <2>1. q = p
      BY <1>4, <1>8
    <2> HIDE DEF p
    <2>2. Completed(q, r, sn, "page", {})
      BY <2>1, <1>2 DEF Completed
    <2>3. Answering(q, r, sil, pages + 1)
      BY <2>1, <1>1, <1>2, <1>3, <1>8 DEF Answering
    <2>4. Reading(q, r, sil, pages + 1, budget)
      BY <2>1, <1>1, <1>2, <1>3, <1>8 DEF Reading
    <2> QED
      BY <2>1, <2>2, <2>3, <2>4, <1>1, <1>8 DEF Paged, Digested
  <1>9. p.state \in {"unmet", "open", "complete", "cut_off", "no_answer"}
    BY <1>1 DEF Paging, State
  <1> QED
    BY <1>6, <1>7, <1>8, <1>9

(* The relays once probed.                                                 *)
LEMMA ProbedAll ==
  ASSUME ReadIInv, phase \in {"above", "stuck"}, ~Spent,
         NEW lo \in Nat, NEW a \in Replies(lo, until), Asks(a),
         seen' = seen \union AllOf(a)
  PROVE  /\ Probed(a) \in [Relay -> Paging]
         /\ seen' \subseteq Event \ Dropped /\ silent' \subseteq Relay
         /\ pages' \in 1 .. MaxPages
         /\ UNCHANGED <<relayVars, budget, stopped>>
         /\ \A r \in Relay :
              /\ Paged(Probed(a)[r], r)
              /\ Digested(Probed(a)[r], r, seen', page, until)
              /\ \A ph, uns : Completed(Probed(a)[r], r, seen', ph, uns)
              /\ Answering(Probed(a)[r], r, silent', pages')
              /\ Reading(Probed(a)[r], r, silent', pages', budget)
              /\ Probed(a)[r].state = "open" =>
                   /\ a[r].kind = "eose"
                   /\ ~Probed(a)[r].capped => Above(r, seen, until)
  <1> DEFINE p == Probed(a)
  <1>1. /\ TypeOK /\ pages \in Nat /\ pages < MaxPages /\ MaxPages \in Nat
        /\ until \in Nat
    BY ReadAssumption DEF ReadIInv, TypeOK, Spent, Forever
  <1>2. /\ pages' = pages + 1 /\ silent' = silent \union Failed(a)
        /\ UNCHANGED <<relayVars, budget, stopped>>
    BY DEF Asks
  <1>3. seen' \subseteq Event \ Dropped
    BY <1>1, KeptIs DEF TypeOK
  <1>4. silent' \subseteq Relay /\ pages' \in 1 .. MaxPages
    BY <1>1, <1>2 DEF TypeOK, Failed
  <1>5. ASSUME NEW r \in Relay
        PROVE  /\ p[r] \in Paging
               /\ Paged(p[r], r) /\ Digested(p[r], r, seen', page, until)
               /\ Completed(p[r], r, seen', "page", {})
               /\ Answering(p[r], r, silent', pages')
               /\ Reading(p[r], r, silent', pages', budget)
               /\ p[r].state = "open" =>
                    a[r].kind = "eose" /\ (~p[r].capped => Above(r, seen, until))
    <2> DEFINE q == p[r]
    <2>1. q = Probed(a)[r]
      OBVIOUS
    <2> HIDE DEF p, q
    <2>2. /\ q \in Paging
          /\ Paged(q, r) /\ Digested(q, r, seen', page, until)
          /\ Completed(q, r, seen', "page", {})
          /\ Answering(q, r, silent', pages')
          /\ Reading(q, r, silent', pages', budget)
          /\ q.state = "open" => /\ paging[r].state = "open" /\ a[r].kind = "eose"
                                 /\ q.capped = paging[r].capped
      BY <2>1, <1>2, ProbedKeeps
    <2>3. RelayInv(r)
      BY DEF ReadIInv
    <2>4. Digested(paging[r], r, seen, page, until)
      BY <2>3 DEF RelayInv, Digesting
    <2>5. q.state = "open" /\ ~q.capped => Above(r, seen, until)
      BY <2>2, <2>4 DEF Digested
    <2> QED
      BY <2>2, <2>5 DEF q
  <1>6. p \in [Relay -> Paging]
    <2>1. p = [r \in Relay |-> p[r]]
      BY DEF Probed
    <2> HIDE DEF p
    <2> QED
      BY <1>5, <2>1
  <1>7. ASSUME NEW r \in Relay PROVE \A ph, uns : Completed(p[r], r, seen', ph, uns)
    BY <1>5 DEF Completed
  <1> HIDE DEF p
  <1>8. \A r \in Relay : /\ Paged(p[r], r)
                         /\ Digested(p[r], r, seen', page, until)
                         /\ \A ph, uns : Completed(p[r], r, seen', ph, uns)
                         /\ Answering(p[r], r, silent', pages')
                         /\ Reading(p[r], r, silent', pages', budget)
                         /\ p[r].state = "open" =>
                              /\ a[r].kind = "eose"
                              /\ ~p[r].capped => Above(r, seen, until)
    BY <1>5, <1>7
  <1> QED
    BY <1>2, <1>3, <1>4, <1>6, <1>8 DEF p

LEMMA AskAboveKeeps == ASSUME ReadIInv, AskAbove PROVE ReadIInv'
  <1> DEFINE T     == {At[e] : e \in page}
             floor == Min(T)
  <1>1. /\ phase = "above" /\ ~Spent /\ TypeOK /\ PageInv
        /\ page # {} /\ page \subseteq Event /\ \A e \in page : At[e] <= until
        /\ until \in Nat
    BY ReadAssumption DEF AskAbove, ReadIInv, PageInv, TypeOK, Digesting, Forever
  <1>2. /\ floor \in T /\ T \subseteq 1 .. LastSecond
        /\ \A e \in page : floor <= At[e]
    BY <1>1, Seconds
  <1>3. floor \in 1 .. LastSecond /\ floor + 1 \in Nat \ {0} /\ floor \in Nat
        /\ LastSecond \in Nat
    BY <1>2, ReadAssumption
  <1>4. PICK a \in Replies(floor + 1, until) :
          LET p     == Probed(a)
              above == {r \in Open(p) : Count(a[r]) >= p[r].largest}
              next  == IF above = {} THEN floor ELSE Max({p[r].reached : r \in above})
          IN /\ Asks(a)
             /\ seen' = seen \union AllOf(a)
             /\ Onward(p, page, next)
    BY DEF AskAbove
  <1> HIDE DEF T, floor
  <1> DEFINE p     == Probed(a)
             above == {r \in Open(p) : Count(a[r]) >= p[r].largest}
             R     == {p[r].reached : r \in above}
             next  == IF above = {} THEN floor ELSE Max(R)
             sn    == seen \union AllOf(a)
  <1>5. Asks(a) /\ seen' = sn /\ Onward(p, page, next)
    BY <1>4
  <1>6. /\ p \in [Relay -> Paging]
        /\ seen' \subseteq Event \ Dropped /\ silent' \subseteq Relay
        /\ pages' \in 1 .. MaxPages
        /\ UNCHANGED <<relayVars, budget, stopped>>
        /\ \A r \in Relay :
             /\ Paged(p[r], r)
             /\ Digested(p[r], r, seen', page, until)
             /\ \A ph, uns : Completed(p[r], r, seen', ph, uns)
             /\ Answering(p[r], r, silent', pages')
             /\ Reading(p[r], r, silent', pages', budget)
             /\ p[r].state = "open" =>
                  /\ a[r].kind = "eose"
                  /\ ~p[r].capped => Above(r, seen, until)
    BY <1>1, <1>3, <1>5, ProbedAll
  <1>7. ASSUME NEW r \in Relay, p[r].state = "open"
        PROVE  /\ p[r].reached \in floor .. LastSecond
               /\ a[r].kind = "eose"
               /\ p[r].largest \in Nat /\ p[r].largest <= Room(r)
               /\ ~p[r].capped => /\ Above(r, seen, until)
                                  /\ Above(r, sn, p[r].reached)
    <2>1. PICK e \in page : At[e] = p[r].reached
      BY <1>6, <1>7 DEF Digested
    <2>2. At[e] \in 1 .. LastSecond
      BY <1>1, ReadAssumption
    <2>3. p[r].reached \in floor .. LastSecond
      BY <2>1, <2>2, <1>2, <1>3
    <2>4. p[r].largest \in Nat /\ p[r].largest <= Room(r)
      BY <1>1, <1>6, <1>7, RoomIs, ShortIs DEF Paged, TypeOK
    <2>7. ~p[r].capped => Above(r, sn, p[r].reached)
      <3> HIDE DEF p, sn
      <3> QED
        BY <1>5, <1>6, <1>7 DEF Digested
    <2> QED
      BY <1>6, <1>7, <2>3, <2>4, <2>7
  <1>8. above \subseteq Relay
    BY DEF Open
  <1>9. /\ next \in floor .. LastSecond
        /\ \A r \in above : p[r].reached <= next
    <2>1. CASE above = {}
      BY <2>1, <1>3
    <2>2. CASE above # {}
      <3>1. \A x \in R : x \in floor .. LastSecond
        BY <1>7, <1>8 DEF Open
      <3>2. R # {}
        BY <2>2
      <3>6. \A x \in R : x \in Nat /\ x <= LastSecond
        <4> HIDE DEF R
        <4> QED
          BY <3>1, <1>3
      <3>3. Max(R) \in R /\ \A y \in R : y <= Max(R)
        <4> HIDE DEF R
        <4> QED
          BY <3>2, <3>6, <1>3, MaxIs
      <3>4. \A r \in above : p[r].reached \in R
        OBVIOUS
      <3>5. next = Max(R)
        BY <2>2
      <3> HIDE DEF R, next, above, p
      <3> QED
        BY <3>1, <3>3, <3>4, <3>5
    <2> QED
      BY <2>1, <2>2
  <1>10. \A r \in above : r \in Relay
    BY <1>8
  <1>11. ASSUME NEW r \in Relay, p[r].state = "open", ~p[r].capped
         PROVE  Above(r, sn, next)
    <2>1. CASE r \in above
      <3> HIDE DEF p, above, next, sn
      <3>1. /\ p[r].reached <= next /\ Above(r, sn, p[r].reached)
            /\ p[r].reached \in Nat /\ next \in Nat
        BY <2>1, <1>3, <1>7, <1>9, <1>11
      <3>2. \A e \in Wanted(r) : At[e] \in Nat
        BY <1>1, ReadAssumption DEF Wanted, TypeOK
      <3> QED
        BY <3>1, <3>2 DEF Above
    <2>2. CASE r \notin above
      <3>1. ~(Count(a[r]) >= p[r].largest)
        BY <2>2, <1>11 DEF Open
      <3> HIDE DEF p, above, next
      <3>6. Room(r) \in Nat
        BY <1>1, RoomIs DEF TypeOK
      <3>7. Count(a[r]) \in 0 .. Room(r)
        BY <1>1, ReplyIs
      <3>2. Count(a[r]) \in Nat /\ Room(r) \in Nat
        BY <3>6, <3>7
      <3>3. Count(a[r]) < Room(r)
        BY <3>1, <3>2, <1>7, <1>11
      <3>4. Above(r, sn, (floor + 1) - 1)
        BY <3>3, <1>1, <1>3, <1>7, <1>11, WindowReads DEF ReadIInv
      <3>5. \A e \in Wanted(r) : At[e] \in Nat
        BY <1>1, ReadAssumption DEF Wanted, TypeOK
      <3> HIDE DEF sn
      <3> QED
        BY <3>4, <3>5, <1>3, <1>9 DEF Above
    <2> QED
      BY <2>1, <2>2
  <1>12. next \in 1 .. LastSecond
    BY <1>3, <1>9
  <1> HIDE DEF p, next, sn, above
  <1>13. Moved(p, seen')
    BY <1>1, <1>5, <1>6, <1>11, <1>12, OnwardKeeps
  <1> QED
    BY <1>1, <1>6, <1>13, MovedKeeps

LEMMA AskStuckKeeps == ASSUME ReadIInv, AskStuck PROVE ReadIInv'
  <1>1. /\ phase = "stuck" /\ ~Spent /\ TypeOK /\ PageInv
        /\ until \in 1 .. LastSecond /\ LastSecond \in Nat /\ until \in Nat \ {0}
        /\ page \subseteq Event /\ \A e \in page : At[e] <= until
    <2>1. phase = "stuck" /\ ~Spent /\ TypeOK /\ PageInv
      BY DEF AskStuck, ReadIInv
    <2>2. until \in 1 .. LastSecond /\ page \subseteq Event /\ \A e \in page : At[e] <= until
      BY <2>1 DEF PageInv, TypeOK, Digesting
    <2> QED
      BY <2>1, <2>2, ReadAssumption
  <1>2. PICK a \in Replies(until, until) :
          LET p == Probed(a)
              there(r) == /\ r \in Open(p) /\ p[r].reached = until
                          /\ Count(a[r]) >= p[r].largest
          IN /\ Asks(a)
             /\ seen' = seen \union AllOf(a)
             /\ NextPage([r \in Relay |->
                   IF there(r) THEN [p[r] EXCEPT !.past = until, !.pastSent = Count(a[r])]
                   ELSE p[r]], until - 1)
    BY DEF AskStuck
  <1> DEFINE p == Probed(a)
             there(r) == /\ r \in Open(p) /\ p[r].reached = until
                         /\ Count(a[r]) >= p[r].largest
             q == [r \in Relay |->
                     IF there(r) THEN [p[r] EXCEPT !.past = until, !.pastSent = Count(a[r])]
                     ELSE p[r]]
             sn == seen \union AllOf(a)
             u == until - 1
  <1>3. Asks(a) /\ seen' = sn /\ NextPage(q, u)
    BY <1>2
  <1>4. /\ p \in [Relay -> Paging]
        /\ seen' \subseteq Event \ Dropped /\ silent' \subseteq Relay
        /\ pages' \in 1 .. MaxPages
        /\ UNCHANGED <<relayVars, budget, stopped>>
        /\ \A r \in Relay :
             /\ Paged(p[r], r)
             /\ Digested(p[r], r, seen', page, until)
             /\ \A ph, uns : Completed(p[r], r, seen', ph, uns)
             /\ Answering(p[r], r, silent', pages')
             /\ Reading(p[r], r, silent', pages', budget)
             /\ p[r].state = "open" =>
                  /\ a[r].kind = "eose"
                  /\ ~p[r].capped => Above(r, seen, until)
    BY <1>1, <1>3, ProbedAll
  <1>5. /\ paging' = q /\ until' = u /\ phase' = "page"
        /\ page' = {} /\ dropped' = FALSE /\ unsure' = {}
    BY <1>3 DEF NextPage
  <1> HIDE DEF p
  <1>6. ASSUME NEW r \in Relay
        PROVE  Room(r) \in Nat /\ Count(a[r]) \in 0 .. Room(r) /\ Count(a[r]) \in Nat
               /\ Short \in Nat
    <2>1. Room(r) \in Nat
      BY <1>1, RoomIs DEF TypeOK
    <2>2. Count(a[r]) \in 0 .. Room(r)
      BY <1>1, ReplyIs
    <2> QED
      BY <2>1, <2>2, ShortIs
  <1>7. ASSUME NEW r \in Relay
        PROVE  /\ q[r] \in Paging
               /\ q[r].state = p[r].state /\ q[r].largest = p[r].largest
               /\ q[r].sent = p[r].sent /\ q[r].capped = p[r].capped
               /\ there(r) => q[r].past = until /\ q[r].pastSent = Count(a[r])
               /\ ~there(r) => q[r] = p[r]
    <2>1. q[r] = IF there(r) THEN [p[r] EXCEPT !.past = until, !.pastSent = Count(a[r])]
                 ELSE p[r]
      OBVIOUS
    <2>2. p[r] \in Paging /\ until \in 0 .. LastSecond /\ Count(a[r]) \in Nat
      BY <1>1, <1>4, <1>6
    <2> HIDE DEF q, there
    <2> QED
      BY <2>1, <2>2 DEF Paging
  <1>8. q \in [Relay -> Paging]
    <2>1. q = [r \in Relay |-> q[r]]
      OBVIOUS
    <2> HIDE DEF q
    <2> QED
      BY <1>7, <2>1
  <1> HIDE DEF q
  <1>9. ASSUME NEW r \in Relay, p[r].state = "open"
        PROVE  /\ a[r].kind = "eose"
               /\ p[r].past = NoSecond
               /\ p[r].largest \in Nat /\ p[r].largest >= Short /\ p[r].largest <= Room(r)
               /\ p[r].reached \in Nat /\ p[r].reached <= until
               /\ ~p[r].capped => Above(r, seen, until) /\ Above(r, sn, p[r].reached)
               /\ Quiet(r) /\ p[r].largest < Room(r) =>
                    Cardinality(UpTo(r, until)) <= p[r].largest
    <2>1. PICK e \in page : At[e] = p[r].reached
      BY <1>4, <1>9 DEF Digested
    <2>2. p[r].reached \in Nat /\ p[r].reached <= until
      BY <2>1, <1>1, ReadAssumption
    <2>3. p[r].largest \in Nat /\ p[r].largest >= Short /\ p[r].largest <= Room(r)
      BY <1>4, <1>6, <1>9 DEF Paged
    <2> HIDE DEF sn
    <2> QED
      BY <2>2, <2>3, <1>3, <1>4, <1>9 DEF Digested
  <1>10. \A r \in Relay : \A e \in Wanted(r) : At[e] \in Nat
    BY <1>1, ReadAssumption DEF Wanted, TypeOK
  <1>11. ASSUME NEW r \in Relay, p[r].state = "open", ~p[r].capped, Count(a[r]) < Room(r)
         PROVE  Above(r, sn, u)
    BY <1>1, <1>9, <1>11, WindowReads DEF ReadIInv
  <1>12. ASSUME NEW r \in Relay, p[r].state = "open", ~p[r].capped, ~there(r)
         PROVE  Above(r, sn, u)
    <2>1. CASE p[r].reached # until
      <3>1. p[r].reached <= u
        BY <2>1, <1>1, <1>9, <1>12
      <3> HIDE DEF sn
      <3> QED
        BY <3>1, <1>1, <1>9, <1>10, <1>12 DEF Above
    <2>2. CASE p[r].reached = until
      <3>1. ~(Count(a[r]) >= p[r].largest)
        BY <2>2, <1>12 DEF Open
      <3>2. Count(a[r]) < Room(r)
        BY <3>1, <1>6, <1>9, <1>12
      <3> HIDE DEF sn, u
      <3> QED
        BY <3>2, <1>11, <1>12
    <2> QED
      BY <2>1, <2>2
  <1>13. ASSUME NEW r \in Relay, there(r), Quiet(r)
         PROVE  Count(a[r]) < Room(r) /\ UpTo(r, u) = {}
    <2> DEFINE S == {e \in held[r] : At[e] \in until .. until}
               H == {e \in held[r] : At[e] = until}
               V == UpTo(r, until)
    <2>1. p[r].state = "open" /\ Count(a[r]) >= p[r].largest
      BY <1>13 DEF Open
    <2>2. S = H /\ H \subseteq V /\ V \subseteq Event /\ UpTo(r, u) \subseteq V
      BY <1>1, ReadAssumption DEF UpTo, TypeOK
    <2>3. Cardinality(H) < Room(r)
      BY <1>1, <1>13 DEF Quiet
    <2>4. a[r].sent \subseteq S
      BY <1>1, ReplyIs
    <2>5. Cardinality(H) \in Nat /\ Cardinality(V) \in Nat
      BY <2>2, Events
    <2>6. Count(a[r]) <= Cardinality(H)
      BY <2>2, <2>4, Fewer DEF Count
    <2>7. Count(a[r]) < Room(r)
      BY <2>3, <2>5, <2>6, <1>6
    <2>8. Cardinality(V) <= Cardinality(H)
      BY <2>1, <2>5, <2>6, <2>7, <1>6, <1>9, <1>13
    <2>9. V = H
      BY <2>2, <2>8, Fewer
    <2>10. ASSUME NEW e \in UpTo(r, u) PROVE FALSE
      <3>1. At[e] = until
        BY <2>2, <2>9
      <3>2. At[e] \in 0 .. u
        BY DEF UpTo
      <3> QED
        BY <3>1, <3>2, <1>1
    <2> QED
      BY <2>7, <2>10
  <1>14. ASSUME NEW r \in Relay PROVE Asked(q[r], r, sn, u)
    <2>1. CASE there(r)
      <3>1. p[r].state = "open" /\ Count(a[r]) >= p[r].largest
        BY <2>1 DEF Open
      <3>2. Count(a[r]) >= Short
        BY <3>1, <1>6, <1>9
      <3>3. ~q[r].capped /\ Count(a[r]) < Room(r) => Above(r, sn, u)
        BY <3>1, <1>7, <1>11
      <3>4. Quiet(r) => Count(a[r]) < Room(r) /\ UpTo(r, u) = {}
        BY <2>1, <1>13
      <3>5. q[r].past = until /\ q[r].pastSent = Count(a[r]) /\ until # NoSecond
        BY <2>1, <1>1, <1>7 DEF NoSecond
      <3> HIDE DEF sn, u, there
      <3> QED
        BY <3>2, <3>3, <3>4, <3>5 DEF Asked
    <2>2. CASE ~there(r)
      <3>1. q[r] = p[r]
        BY <2>2, <1>7
      <3> HIDE DEF sn, u, there
      <3> QED
        BY <2>2, <3>1, <1>9, <1>12 DEF Asked
    <2> QED
      BY <2>1, <2>2
  <1>15. u \in 0 .. Forever
    BY <1>1 DEF Forever
  <1> HIDE DEF sn, u, there
  <1>16. Moved(p, seen')
    BY <1>3, <1>5, <1>7, <1>8, <1>14, <1>15 DEF Moved
  <1> QED
    BY <1>1, <1>4, <1>16, MovedKeeps

LEMMA ProbeUnaskedKeeps == ASSUME ReadIInv, ProbeUnasked PROVE ReadIInv'
  <1>1. /\ phase \in {"above", "stuck"} /\ NextPage(paging, until)
        /\ UNCHANGED <<relayVars, silent, seen, pages, budget, stopped>>
    BY DEF ProbeUnasked
  <1>2. /\ TypeOK /\ PageInv /\ paging \in [Relay -> Paging] /\ until \in 0 .. Forever
        /\ seen \subseteq Event \ Dropped /\ silent \subseteq Relay
        /\ pages \in 1 .. MaxPages
    BY <1>1, ReadAssumption DEF ReadIInv, TypeOK, PageInv
  <1>3. ASSUME NEW r \in Relay
        PROVE  /\ Paged(paging[r], r) /\ Digested(paging[r], r, seen, page, until)
               /\ Completed(paging[r], r, seen, phase', unsure')
               /\ Answering(paging[r], r, silent, pages)
               /\ Reading(paging[r], r, silent, pages, budget)
               /\ paging[r].state = "open" /\ ~paging[r].capped => Above(r, seen, until)
    <2>1. RelayInv(r)
      BY <1>1 DEF ReadIInv
    <2>2. Digested(paging[r], r, seen, page, until)
      BY <2>1, <1>1 DEF RelayInv, Digesting
    <2>3. Completed(paging[r], r, seen, phase', unsure')
      BY <2>1, <1>1 DEF RelayInv, Completed
    <2>4. paging[r].state = "open" /\ ~paging[r].capped => Above(r, seen, until)
      BY <2>2 DEF Digested
    <2> QED
      BY <2>1, <2>2, <2>3, <2>4 DEF RelayInv
  <1>4. Moved(paging, seen)
    BY <1>1, <1>2, <1>3, NextKeeps
  <1>5. /\ Moved(paging, seen') /\ phase # "done"
        /\ seen' \subseteq Event \ Dropped /\ silent' \subseteq Relay
        /\ pages' \in 1 .. MaxPages
        /\ UNCHANGED <<relayVars, budget, stopped>>
        /\ seen' = seen /\ silent' = silent /\ pages' = pages
    BY <1>1, <1>2, <1>4
  <1>6. \A r \in Relay : /\ Paged(paging[r], r)
                         /\ Completed(paging[r], r, seen', phase', unsure')
                         /\ Answering(paging[r], r, silent', pages')
                         /\ Reading(paging[r], r, silent', pages', budget)
    BY <1>3, <1>5
  <1> QED
    BY <1>2, <1>5, <1>6, MovedKeeps

LEMMA FinishKeeps == ASSUME ReadIInv, Finish PROVE ReadIInv'
  <1> DEFINE ends == pages > 0 /\ Open(paging) = {}
  <1>1. /\ phase = "page" /\ phase' = "done" /\ stopped' = ~ends
        /\ paging' = [r \in Relay |->
             LET p == paging[r] IN
             CASE p.state = "open" -> [p EXCEPT !.state = "cut_off"]
               [] p.state = "complete" /\ p.sent /\ DeclaredShort(r) ->
                    [p EXCEPT !.state = "cut_off", !.capped = TRUE]
               [] OTHER -> p]
        /\ UNCHANGED <<relayVars, silent, seen, pages, until, pageVars, budget>>
    BY DEF Finish
  <1>2. /\ TypeOK /\ PageInv /\ pages \in Nat
    <2>1. TypeOK /\ PageInv
      BY DEF Finish, ReadIInv
    <2> QED
      BY <2>1, ReadAssumption DEF TypeOK
  <1>3. /\ site' = site /\ first' = first /\ held' = held /\ silent' = silent
        /\ seen' = seen /\ pages' = pages /\ until' = until /\ budget' = budget
        /\ page' = page /\ dropped' = dropped /\ unsure' = unsure
    BY <1>1 DEF relayVars, pageVars
  <1>4. ASSUME NEW r \in Relay
        PROVE  /\ paging'[r] \in Paging
               /\ paging[r].state = "open" => paging'[r].state = "cut_off"
               /\ paging[r].state = "complete" /\ paging[r].sent /\ DeclaredShort(r) =>
                    paging'[r].state = "cut_off" /\ paging'[r].capped = TRUE
               /\ ~(paging[r].state = "open")
                  /\ ~(paging[r].state = "complete" /\ paging[r].sent /\ DeclaredShort(r)) =>
                    paging'[r] = paging[r]
    <2>1. paging[r] \in Paging
      BY <1>2 DEF TypeOK
    <2>2. paging'[r] =
             CASE paging[r].state = "open" -> [paging[r] EXCEPT !.state = "cut_off"]
               [] paging[r].state = "complete" /\ paging[r].sent /\ DeclaredShort(r) ->
                    [paging[r] EXCEPT !.state = "cut_off", !.capped = TRUE]
               [] OTHER -> paging[r]
      BY <1>1
    <2>3. CASE paging[r].state = "open"
      <3>1. paging'[r] = [paging[r] EXCEPT !.state = "cut_off"]
        BY <2>2, <2>3
      <3> QED
        BY <2>1, <2>3, <3>1 DEF Paging, State
    <2>4. CASE paging[r].state = "complete" /\ paging[r].sent /\ DeclaredShort(r)
      <3>1. paging'[r] = [paging[r] EXCEPT !.state = "cut_off", !.capped = TRUE]
        BY <2>2, <2>4
      <3>2. paging'[r] \in Paging /\ paging'[r].state = "cut_off" /\ paging'[r].capped = TRUE
        BY <2>1, <3>1 DEF Paging, State
      <3> QED
        BY <2>4, <3>2
    <2>5. CASE /\ ~(paging[r].state = "open")
               /\ ~(paging[r].state = "complete" /\ paging[r].sent /\ DeclaredShort(r))
      BY <2>1, <2>2, <2>5
    <2> QED
      BY <2>3, <2>4, <2>5
  <1>5. paging' \in [Relay -> Paging]
    <2>1. paging' = [r \in Relay |-> paging'[r]]
      BY <1>1
    <2> QED
      BY <2>1, <1>4
  <1>6. TypeOK'
    BY <1>1, <1>2, <1>3, <1>5 DEF TypeOK, Phase
  <1>7. \A r \in Relay : first'[r] \subseteq held'[r]
    BY <1>3 DEF ReadIInv
  <1>8. ASSUME NEW r \in Relay PROVE RelayInv(r)
    BY <1>1 DEF ReadIInv
  <1>9. Short > 1 => CompleteMeansAllRead'
    <2> SUFFICES ASSUME Short > 1, NEW r \in Relay, paging'[r].state = "complete",
                        site[r].cap >= Short \/ site[r].declares
                 PROVE  first[r] \ Dropped \subseteq seen
      BY <1>3 DEF CompleteMeansAllRead
    <2>1. paging[r].state = "complete" /\ ~(paging[r].sent /\ DeclaredShort(r))
      BY <1>4
    <2>2. Completed(paging[r], r, seen, "page", unsure)
      BY <1>1, <1>8 DEF RelayInv
    <2>3. Wanted(r) \subseteq seen \/ (paging[r].sent /\ Room(r) < Short)
      BY <2>1, <2>2 DEF Completed
    <2>4. ASSUME paging[r].sent, Room(r) < Short PROVE FALSE
      <3>1. site[r].cap < Short /\ site[r].cap \in Nat /\ Short \in Nat
        BY <2>4, <1>2, RoomIs, ShortIs DEF TypeOK
      <3> QED
        BY <3>1, <2>1, <2>4 DEF DeclaredShort
    <2> QED
      BY <2>3, <2>4 DEF Wanted
  <1>10. UntruncatedMeansEnded'
    <2> SUFFICES ASSUME ~Truncated', NEW r \in Relay, r \notin silent
                 PROVE  paging'[r].state = "complete"
      BY <1>3 DEF UntruncatedMeansEnded
    <2>1. ends /\ ~paging'[r].capped
      BY <1>1 DEF Truncated
    <2>2. paging[r].state # "open" /\ pages # 0
      BY <2>1, <1>2 DEF Open
    <2>3. Answering(paging[r], r, silent, pages)
      BY <1>8 DEF RelayInv
    <2>4. ~(paging[r].state = "complete" /\ paging[r].sent /\ DeclaredShort(r))
      BY <2>1, <1>4
    <2>5. paging'[r] = paging[r]
      BY <2>2, <2>4, <1>4
    <2> QED
      BY <2>1, <2>2, <2>3, <2>5 DEF Answering
  <1>11. SpreadRelayIsRead'
    <2> SUFFICES ASSUME ~stopped', ~Spent', NEW r \in Relay, r \notin silent, Quiet(r)
                 PROVE  paging'[r].state = "complete"
      BY <1>3 DEF SpreadRelayIsRead, Quiet, DeclaredShort, Room
    <2>1. ends
      BY <1>1
    <2>2. paging[r].state # "open" /\ pages # 0
      BY <2>1, <1>2 DEF Open
    <2>3. pages < MaxPages /\ budget
      BY <1>2, <1>3, ReadAssumption DEF Spent
    <2>4. paging[r].state = "complete"
      BY <2>2, <2>3, <1>8 DEF RelayInv, Reading
    <2>5. ~DeclaredShort(r)
      BY DEF Quiet
    <2> QED
      BY <2>4, <2>5, <1>4
  <1>12. DoneInv'
    BY <1>9, <1>10, <1>11 DEF DoneInv
  <1> QED
    BY <1>1, <1>6, <1>7, <1>12 DEF ReadIInv

(* Steps that leave the read where it is.                                  *)
LEMMA StillKeeps ==
  ASSUME ReadIInv,
         \/ BudgetSpent \/ UNCHANGED vars
         \/ \E r \in Relay, e \in Event : Publish(r, e)
  PROVE  ReadIInv'
  <1>1. /\ site' = site /\ first' = first /\ silent' = silent /\ paging' = paging
        /\ seen' = seen /\ pages' = pages /\ until' = until /\ phase' = phase
        /\ page' = page /\ dropped' = dropped /\ unsure' = unsure /\ stopped' = stopped
    BY DEF BudgetSpent, Publish, vars, relayVars, pageVars
  <1>2. budget' = budget \/ budget' = FALSE
    BY DEF BudgetSpent, Publish, vars
  <1>3. TypeOK
    BY DEF ReadIInv
  <1>4. held' \in [Relay -> SUBSET Event] /\ \A r \in Relay : held[r] \subseteq held'[r]
    <2>1. CASE BudgetSpent \/ UNCHANGED vars
      BY <2>1, <1>3 DEF BudgetSpent, vars, relayVars, TypeOK
    <2>2. CASE \E r \in Relay, e \in Event : Publish(r, e)
      <3>1. PICK r \in Relay, e \in Event : held' = [held EXCEPT ![r] = @ \union {e}]
        BY <2>2 DEF Publish
      <3> QED
        BY <3>1, <1>3 DEF TypeOK
    <2> QED
      BY <2>1, <2>2
  <1>5. TypeOK'
    BY <1>1, <1>2, <1>3, <1>4 DEF TypeOK
  <1>6. \A r \in Relay : first'[r] \subseteq held'[r]
    BY <1>1, <1>4 DEF ReadIInv
  <1>7. CASE phase = "done"
    <2>1. held' = held /\ budget' = budget
      BY <1>7 DEF BudgetSpent, Publish, vars, relayVars
    <2>2. (Short > 1 => CompleteMeansAllRead)'
      BY <1>1, <2>1 DEF ReadIInv, DoneInv, CompleteMeansAllRead
    <2>3. UntruncatedMeansEnded'
      BY <1>1, <2>1 DEF ReadIInv, DoneInv, UntruncatedMeansEnded, Truncated
    <2>4. SpreadRelayIsRead'
      BY <1>1, <2>1 DEF ReadIInv, DoneInv, SpreadRelayIsRead, Spent, DeclaredShort, Room
    <2> QED
      BY <1>1, <1>5, <1>6, <1>7, <2>2, <2>3, <2>4 DEF ReadIInv, DoneInv
  <1>8. CASE phase # "done"
    <2>1. ~stopped' /\ PageInv'
      BY <1>1, <1>8 DEF ReadIInv, PageInv
    <2>2. DoneInv'
      BY <1>1, <1>8 DEF DoneInv, CompleteMeansAllRead, UntruncatedMeansEnded, SpreadRelayIsRead
    <2>3. ASSUME NEW r \in Relay PROVE RelayInv(r)'
      <3>1. RelayInv(r)
        BY <1>8 DEF ReadIInv
      <3>2. Room(r)' = Room(r) /\ Wanted(r)' = Wanted(r)
        BY <1>1 DEF Room, Wanted
      <3>3. Quiet(r)' => Quiet(r) /\ held'[r] = held[r]
        <4>1. held'[r] = first[r] => held'[r] = held[r]
          BY <1>4 DEF ReadIInv
        <4> QED
          BY <4>1, <1>1 DEF Quiet, DeclaredShort, Room
      <3>4. Paged(paging[r], r)'
        BY <1>1, <3>1, <3>2 DEF RelayInv, Paged
      <3>5. phase = "page" => Asked(paging[r], r, seen, until)'
        <4>1. phase = "page" => Asked(paging[r], r, seen, until)
          BY <3>1 DEF RelayInv
        <4> QED
          BY <4>1, <1>1, <3>2, <3>3 DEF Asked, Above, UpTo
      <3>6. Digesting(phase) => Digested(paging[r], r, seen, page, until)'
        <4>1. Digesting(phase) => Digested(paging[r], r, seen, page, until)
          BY <3>1 DEF RelayInv
        <4> QED
          BY <4>1, <1>1, <3>2, <3>3 DEF Digested, Above, UpTo
      <3>7. Completed(paging[r], r, seen, phase, unsure)'
        BY <1>1, <3>1, <3>2 DEF RelayInv, Completed
      <3>8. Answering(paging[r], r, silent, pages)'
        BY <1>1, <3>1 DEF RelayInv, Answering
      <3>9. Reading(paging[r], r, silent, pages, budget)'
        BY <1>1, <1>2, <3>1, <3>3 DEF RelayInv, Reading
      <3>10. phase = "sizes" /\ r \in unsure /\ Quiet(r)' => paging[r].pastSent < Room(r)
        BY <3>1, <3>3 DEF RelayInv
      <3> QED
        BY <1>1, <3>2, <3>4, <3>5, <3>6, <3>7, <3>8, <3>9, <3>10 DEF RelayInv, Digesting
    <2> QED
      BY <1>5, <1>6, <2>1, <2>2, <2>3 DEF ReadIInv
  <1> QED
    BY <1>7, <1>8

LEMMA ReadInit == ASSUME Init PROVE ReadIInv
  <1>1. /\ site \in [Relay -> Site] /\ first \in [Relay -> SUBSET Event] /\ held = first
        /\ silent = {} /\ paging = [r \in Relay |-> Met] /\ seen = {} /\ pages = 0
        /\ until = Forever /\ phase = "page" /\ page = {} /\ dropped = FALSE
        /\ unsure = {} /\ budget = TRUE /\ stopped = FALSE
    BY DEF Init
  <1>2. Met \in Paging /\ Met.state = "unmet" /\ Met.past = NoSecond
    BY ReadAssumption DEF Met, Paging, State, NoSecond
  <1>3. TypeOK
    <2>1. paging \in [Relay -> Paging]
      BY <1>1, <1>2
    <2>2. pages \in 0 .. MaxPages /\ until \in 0 .. Forever
      BY <1>1, ReadAssumption DEF Forever
    <2>3. held \in [Relay -> SUBSET Event]
      BY <1>1
    <2> QED
      BY <1>1, <2>1, <2>2, <2>3 DEF TypeOK, Phase
  <1>4. PageInv /\ DoneInv
    BY <1>1 DEF PageInv, DoneInv, CompleteMeansAllRead, UntruncatedMeansEnded,
                SpreadRelayIsRead, Digesting
  <1>5. \A r \in Relay : RelayInv(r)
    BY <1>1, <1>2 DEF RelayInv, Paged, Asked, Digesting, Completed, Answering, Reading
  <1> QED
    BY <1>1, <1>3, <1>4, <1>5 DEF ReadIInv

LEMMA ReadStep == ASSUME ReadIInv, [Next]_vars PROVE ReadIInv'
  BY AskPageKeeps, AskSizesKeeps, SizesUnaskedKeeps, AskAboveKeeps, AskStuckKeeps,
     ProbeUnaskedKeeps, FinishKeeps, StillKeeps DEF Next, Done

-----------------------------------------------------------------------------
(* The theorems. *)

(* What is known of each relay's read holds at every step of it.           *)
THEOREM ReadInvariance == Spec => []ReadIInv
  BY ReadInit, ReadStep, PTL DEF Spec

(* Every variable keeps to the values the code gives it: a page of a relay *)
(* still open is of events it could read, and the bound never runs below 0.*)
THEOREM TypeCorrect == Spec => []TypeOK
  <1>1. ReadIInv => TypeOK
    BY DEF ReadIInv
  <1> QED
    BY <1>1, ReadInvariance, PTL

(* A relay called complete sent all it held, whatever it and the others    *)
(* hold and send, when a page that ends a read is more than one event: at  *)
(* `limit` 1 a second's first event would pass for all of it.              *)
THEOREM CompleteIsComplete == ASSUME Short > 1 PROVE Spec => []CompleteMeansAllRead
  <1>1. ReadIInv => CompleteMeansAllRead
    BY DEF ReadIInv, DoneInv
  <1> QED
    BY <1>1, ReadInvariance, PTL

(* A read that reports nothing truncated ended on every relay that         *)
(* answered.                                                               *)
THEOREM SilenceMeansEnded == Spec => []UntruncatedMeansEnded
  <1>1. ReadIInv => UntruncatedMeansEnded
    BY DEF ReadIInv, DoneInv
  <1> QED
    BY <1>1, ReadInvariance, PTL

(* A relay no second of which fills a page is read to its end beside any   *)
(* others, whatever they hold, send or are published.                      *)
THEOREM SpreadIsRead == Spec => []SpreadRelayIsRead
  <1>1. ReadIInv => SpreadRelayIsRead
    BY DEF ReadIInv, DoneInv
  <1> QED
    BY <1>1, ReadInvariance, PTL
====

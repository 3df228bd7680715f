------------------------ MODULE RevocationCheckProofs ------------------------
(***************************************************************************)
(* Proofs of RevocationCheck's safety properties, for any callers,         *)
(* sessions, periods and bounds.                                           *)
(*                                                                         *)
(* None of them is inductive by itself.  Inv adds what makes them so: what *)
(* the clocks can show, that the host's record and the history agree, that *)
(* every list held anywhere is an earlier state of that record and holds   *)
(* every end older than itself, that the lists on the way are in the order *)
(* they were made, and how old a list can be when it arrives.              *)
(***************************************************************************)
EXTENDS RevocationCheck, TLAPS

(* An earlier publication of the host and a later one. *)
Precedes(l, m) ==
    /\ l.at <= m.at
    /\ l.tokens \subseteq m.tokens
    /\ \A a \in Account : l.cutoffs[a] <= m.cutoffs[a]

(* A list the host published at some time up to now. *)
Published(l) ==
    /\ l \in List
    /\ Precedes(l, HostList)
    /\ \A s \in Session : endedAt[s] < l.at => Ends(l, s)

(* A copy made from such a list, and what its stamps can still say. *)
Stamped(k) ==
    /\ k \in Copy
    /\ Published(k.list)
    /\ k.received <= time
    /\ k.fetchedAt <= k.received /\ k.received <= k.fetchedAt + slept
    /\ config.fault # "wall" => k.wallAtFetch = k.received
    /\ StampTellsAge /\ StaleFrom = "fetch" => k.received <= k.list.at + Timeout

ClocksOK ==
    /\ time <= MaxTime
    /\ config.fault # "suspend" => slept = 0
    /\ config.fault # "wall" => lag = 0

HostOK ==
    /\ \A a \in Account : hostCutoff[a] <= time
    /\ \A s \in Session : endedAt[s] <= time \/ endedAt[s] = Never
    /\ \A s \in Session : Ends(HostList, s) <=> endedAt[s] # Never

LoadOK ==
    /\ ~CachedFeed => cachedList = NoCopy
    /\ \A c \in Caller : load[c].phase # "none" =>
          /\ load[c].startedAt <= clock
          /\ clock <= load[c].startedAt + Timeout
    /\ \A c \in Caller : load[c].phase = "answered" =>
          /\ Published(load[c].list)
          /\ ~CachedFeed => load[c].startedAt <= load[c].list.at
          /\ snapshot # NoCopy => Precedes(snapshot.list, load[c].list)
          /\ cachedList # NoCopy => Precedes(load[c].list, cachedList)

CopiesOK ==
    /\ cachedList # NoCopy => Published(cachedList)
    /\ snapshot # NoCopy => Stamped(snapshot)
    /\ snapshot # NoCopy /\ cachedList # NoCopy => Precedes(snapshot.list, cachedList)
    /\ \A c \in Caller : copy[c] # NoCopy => Stamped(copy[c])

AskOK ==
    /\ lastAsk <= time
    /\ config.fault # "wall" /\ inflight = Nobody /\ lastAsk > -Ttl - Retry =>
         \/ snapshot # NoCopy /\ lastAsk <= snapshot.received
         \/ failed.ever /\ lastAsk <= failed.wall
    /\ failed.ever /\ config.fault # "wall" => failed.wall <= failed.mono + slept

Inv == TypeOK /\ SingleFlight /\ ClocksOK /\ HostOK /\ LoadOK /\ CopiesOK /\ AskOK

-----------------------------------------------------------------------------
(* Types. *)

LEMMA ListType ==
    ASSUME TypeOK
    PROVE  HostList \in List
BY DEF TypeOK, HostList, List

LEMMA CopyType ==
    ASSUME TypeOK, NEW l \in List
    PROVE  ParseFeed(l) \in Copy
BY ConstantsAssumption DEF TypeOK, ParseFeed, Copy, List, clock, wall

(* The phases of a fetch. *)
LEMMA NoLoadType == NoLoad \in Load /\ NoLoad.phase = "none"
BY DEF NoLoad, Load

LEMMA AskedType ==
    ASSUME TypeOK
    PROVE  Asked \in Load /\ Asked.phase = "asked" /\ Asked.startedAt = clock
BY ConstantsAssumption DEF TypeOK, Asked, Load, clock

LEMMA AnsweredType ==
    ASSUME NEW f \in Load, NEW l \in List
    PROVE  /\ Answered(f, l) \in Load
           /\ Answered(f, l).phase = "answered"
           /\ Answered(f, l).list = l
           /\ Answered(f, l).startedAt = f.startedAt
BY DEF Answered, Load

LEMMA TypeInit == Init => TypeOK
BY ConstantsAssumption, NoLoadType DEF Init, TypeOK, Never

(* Every kind of value a call can be answered with. *)
LEMMA VerdictType ==
    ASSUME NEW k, NEW s
    PROVE  Verdict(k, s) \in {"live", "revoked", "unverified"}
BY DEF Verdict

(* What the end of a fetch does to the calls that wait on it. *)
LEMMA SettleType ==
    ASSUME TypeOK, NEW c \in Caller, Settle(c),
           snapshot' \in Copy \union {NoCopy},
           failed' \in [ever : BOOLEAN, mono : Int, wall : Int]
    PROVE  TypeOK'
<1>1. load' \in [Caller -> Load]
  BY NoLoadType DEF TypeOK, Settle
<1>2. copy' \in [Caller -> Copy \union {NoCopy}]
  BY DEF TypeOK, Settle
<1>3. pc' \in [Caller -> {"idle", "waiting", "judging", "done"}]
  BY DEF TypeOK, Settle
<1>4. waitOn' \in [Caller -> Caller \union {Nobody}]
  BY DEF TypeOK, Settle
<1>5. \A d \in Caller : load'[d].phase = "answered" => load'[d].list \in List
  BY NoLoadType DEF TypeOK, Settle
<1>6. QED
  BY <1>1, <1>2, <1>3, <1>4, <1>5 DEF TypeOK, Settle, clockVars, hostVars

LEMMA TypeStep == TypeOK /\ [Next]_vars => TypeOK'
<1> SUFFICES ASSUME TypeOK, [Next]_vars PROVE TypeOK'
  OBVIOUS
<1> USE ConstantsAssumption
<1>1. CASE Tick
  BY <1>1 DEF TypeOK, Tick, hostVars, loadVars, callVars
<1>2. CASE Suspend
  BY <1>2 DEF TypeOK, Suspend, hostVars, loadVars, callVars
<1>3. CASE StepWall
  BY <1>3 DEF TypeOK, StepWall, hostVars, loadVars, callVars
<1>4. ASSUME NEW s \in Session, EndSession(s) PROVE TypeOK'
  BY <1>4 DEF TypeOK, EndSession, clockVars, loadVars, callVars
<1>5. ASSUME NEW a \in Account, EndAccount(a) PROVE TypeOK'
  BY <1>5 DEF TypeOK, EndAccount, clockVars, loadVars, callVars
<1>6. ASSUME NEW c \in Caller, HostAnswers(c) PROVE TypeOK'
  <2>1. load' \in [Caller -> Load]
    BY <1>6, ListType, AnsweredType DEF TypeOK, HostAnswers
  <2>2. cachedList' \in List \union {NoCopy}
    BY <1>6, ListType DEF TypeOK, HostAnswers
  <2>3. \A d \in Caller : load'[d].phase = "answered" => load'[d].list \in List
    BY <1>6, ListType, AnsweredType DEF TypeOK, HostAnswers
  <2>4. QED
    BY <1>6, <2>1, <2>2, <2>3 DEF TypeOK, HostAnswers, clockVars, hostVars, callVars
<1>7. ASSUME NEW c \in Caller, CacheAnswers(c) PROVE TypeOK'
  <2>1. load' \in [Caller -> Load]
    BY <1>7, AnsweredType DEF TypeOK, CacheAnswers
  <2>2. \A d \in Caller : load'[d].phase = "answered" => load'[d].list \in List
    BY <1>7, AnsweredType DEF TypeOK, CacheAnswers
  <2>3. QED
    BY <1>7, <2>1, <2>2 DEF TypeOK, CacheAnswers, clockVars, hostVars, callVars
<1>8. ASSUME NEW c \in Caller, LoadSucceeds(c) PROVE TypeOK'
  <2>1. load[c].list \in List
    BY <1>8 DEF TypeOK, Load, LoadSucceeds
  <2>2. QED
    BY <1>8, <2>1, CopyType, SettleType DEF LoadSucceeds, TypeOK
<1>9. ASSUME NEW c \in Caller, LoadFails(c) PROVE TypeOK'
  <2>1. failed' \in [ever : BOOLEAN, mono : Int, wall : Int]
    BY <1>9 DEF LoadFails, TypeOK, clock, wall
  <2>2. QED
    BY <1>9, <2>1, SettleType DEF LoadFails, TypeOK
<1>10. ASSUME NEW c \in Caller, Judge(c) PROVE TypeOK'
  <2>1. Verdict(copy[c], SessionOf[c]) \in {"live", "revoked", "unverified"}
    BY VerdictType
  <2>2. QED
    BY <1>10, <2>1 DEF TypeOK, Judge, clockVars, hostVars, loadVars
<1>11. ASSUME NEW c \in Caller, CallUnchecked(c) PROVE TypeOK'
  BY <1>11 DEF TypeOK, CallUnchecked, clockVars, hostVars, loadVars
<1>12. ASSUME NEW c \in Caller, CallFromMemory(c) PROVE TypeOK'
  BY <1>12 DEF TypeOK, CallFromMemory, clockVars, hostVars, loadVars
<1>13. ASSUME NEW c \in Caller, CallWaits(c) PROVE TypeOK'
  BY <1>13, AskedType DEF TypeOK, CallWaits, clockVars, hostVars, loadVars
<1>14. CASE UNCHANGED vars
  BY <1>14 DEF TypeOK, vars, clockVars, hostVars, loadVars, callVars
<1>15. QED
  BY <1>1, <1>2, <1>3, <1>4, <1>5, <1>6, <1>7, <1>8, <1>9, <1>10, <1>11,
     <1>12, <1>13, <1>14 DEF Next

(* The type invariant holds for every value of the constants. *)
THEOREM TypeCorrect == Spec => []TypeOK
BY TypeInit, TypeStep, PTL DEF Spec

-----------------------------------------------------------------------------
(* One fetch at a time. *)

LEMMA SingleFlightStep ==
    TypeOK /\ SingleFlight /\ [Next]_vars => SingleFlight'
<1> SUFFICES ASSUME TypeOK, SingleFlight, [Next]_vars PROVE SingleFlight'
  OBVIOUS
<1> USE ConstantsAssumption DEF SingleFlight
<1>1. CASE UNCHANGED <<loadVars, callVars>>
  BY <1>1 DEF loadVars, callVars
<1>2. CASE Tick \/ Suspend \/ StepWall
  BY <1>1, <1>2 DEF Tick, Suspend, StepWall
<1>3. ASSUME NEW s \in Session, EndSession(s) PROVE SingleFlight'
  BY <1>1, <1>3 DEF EndSession
<1>4. ASSUME NEW a \in Account, EndAccount(a) PROVE SingleFlight'
  BY <1>1, <1>4 DEF EndAccount
<1>5. ASSUME NEW c \in Caller, HostAnswers(c) PROVE SingleFlight'
  BY <1>5 DEF HostAnswers, Answered, TypeOK, callVars
<1>6. ASSUME NEW c \in Caller, CacheAnswers(c) PROVE SingleFlight'
  BY <1>6 DEF CacheAnswers, Answered, TypeOK, callVars
<1>7. ASSUME NEW c \in Caller, Settle(c), load[c].phase # "none" PROVE SingleFlight'
  <2>1. inflight = c
    BY <1>7
  <2>2. \A d \in Caller : load'[d].phase = "none"
    BY <1>7, <2>1, NoLoadType DEF Settle, TypeOK
  <2>3. \A d \in Caller : pc'[d] # "waiting"
    BY <1>7, <2>1 DEF Settle, Waiters, TypeOK
  <2>4. QED
    BY <1>7, <2>2, <2>3 DEF Settle
<1>8. ASSUME NEW c \in Caller, LoadSucceeds(c) \/ LoadFails(c) PROVE SingleFlight'
  BY <1>7, <1>8 DEF LoadSucceeds, LoadFails
<1>9. ASSUME NEW c \in Caller, Judge(c) PROVE SingleFlight'
  BY <1>9 DEF Judge, TypeOK, loadVars
<1>10. ASSUME NEW c \in Caller, CallUnchecked(c) PROVE SingleFlight'
  BY <1>10 DEF CallUnchecked, TypeOK, loadVars
<1>11. ASSUME NEW c \in Caller, CallFromMemory(c) PROVE SingleFlight'
  BY <1>11 DEF CallFromMemory, TypeOK, loadVars
<1>12. ASSUME NEW c \in Caller, CallWaits(c) PROVE SingleFlight'
  <2>1. CASE inflight = Nobody
    BY <1>12, <2>1, AskedType DEF CallWaits, TypeOK
  <2>2. CASE inflight # Nobody
    BY <1>12, <2>2 DEF CallWaits, TypeOK, loadVars
  <2>3. QED
    BY <2>1, <2>2
<1>13. CASE UNCHANGED vars
  BY <1>1, <1>13 DEF vars
<1>14. QED
  BY <1>2, <1>3, <1>4, <1>5, <1>6, <1>8, <1>9, <1>10, <1>11, <1>12, <1>13
     DEF Next

(* Requests share one fetch, for any number of them. *)
THEOREM SharedFetch == Spec => []SingleFlight
<1>1. Init => SingleFlight
  BY ConstantsAssumption, NoLoadType DEF Init, SingleFlight
<1>2. QED
  BY <1>1, TypeCorrect, SingleFlightStep, PTL DEF Spec

-----------------------------------------------------------------------------
(* What the host publishes only grows. *)

LEMMA PrecedesTransitive ==
    ASSUME NEW l \in List, NEW m \in List, NEW n \in List,
           Precedes(l, m), Precedes(m, n)
    PROVE  Precedes(l, n)
<1>1. \A a \in Account : /\ l.cutoffs[a] \in Nat /\ m.cutoffs[a] \in Nat
                         /\ n.cutoffs[a] \in Nat
  BY DEF List
<1>2. l.at \in Nat /\ m.at \in Nat /\ n.at \in Nat
  BY DEF List
<1>3. QED
  BY <1>1, <1>2 DEF Precedes

LEMMA PrecedesReflexive ==
    ASSUME NEW l \in List
    PROVE  Precedes(l, l)
<1>1. l.at \in Nat /\ \A a \in Account : l.cutoffs[a] \in Nat
  BY DEF List
<1>2. QED
  BY <1>1 DEF Precedes

LEMMA EndsGrows ==
    ASSUME NEW l \in List, NEW m \in List, NEW s \in Session,
           Precedes(l, m), Ends(l, s)
    PROVE  Ends(m, s)
<1>1. AccountOf[s] \in Account /\ Iat[s] \in Nat
  BY ConstantsAssumption
<1>2. l.cutoffs[AccountOf[s]] \in Nat /\ m.cutoffs[AccountOf[s]] \in Nat
  BY <1>1 DEF List
<1>3. QED
  BY <1>1, <1>2 DEF Precedes, Ends

(* A step never takes back a moment, an end or the kind of fault. *)
Advances ==
    /\ config' = config
    /\ time <= time' /\ slept <= slept'
    /\ HostList' \in List /\ Precedes(HostList, HostList')
    /\ \A s \in Session : endedAt'[s] \in {endedAt[s], time}

LEMMA StepAdvances == TypeOK /\ HostOK /\ [Next]_vars => Advances
<1> SUFFICES ASSUME TypeOK, HostOK, [Next]_vars PROVE Advances
  OBVIOUS
<1>1. TypeOK'
  BY TypeStep
<1>2. HostList' \in List
  BY <1>1 DEF TypeOK, HostList, List
<1>3. ASSUME UNCHANGED <<config, hostVars>>, time' >= time, slept' >= slept
      PROVE  Advances
  BY <1>2, <1>3 DEF Advances, Precedes, HostList, TypeOK, hostVars
<1>4. CASE Tick \/ Suspend \/ StepWall
  BY <1>3, <1>4 DEF Tick, Suspend, StepWall, TypeOK
<1>5. ASSUME NEW s \in Session, EndSession(s) PROVE Advances
  BY <1>2, <1>5 DEF EndSession, clockVars, Advances, Precedes, HostList, TypeOK
<1>6. ASSUME NEW a \in Account, EndAccount(a) PROVE Advances
  BY <1>2, <1>6 DEF EndAccount, clockVars, Advances, Precedes, HostList, TypeOK
<1>7. ASSUME UNCHANGED <<config, clockVars, hostVars>> PROVE Advances
  BY <1>3, <1>7 DEF clockVars, TypeOK
<1>8. ASSUME NEW c \in Caller,
             \/ HostAnswers(c) \/ CacheAnswers(c) \/ LoadSucceeds(c) \/ LoadFails(c)
             \/ Judge(c) \/ CallUnchecked(c) \/ CallFromMemory(c) \/ CallWaits(c)
      PROVE  Advances
  BY <1>7, <1>8 DEF HostAnswers, CacheAnswers, LoadSucceeds, LoadFails, Settle,
     Judge, CallUnchecked, CallFromMemory, CallWaits
<1>9. CASE UNCHANGED vars
  BY <1>7, <1>9 DEF vars
<1>10. QED
  BY <1>4, <1>5, <1>6, <1>8, <1>9 DEF Next

-----------------------------------------------------------------------------
(* The clocks, and the host's record against the history. *)

LEMMA ClocksStep == TypeOK /\ ClocksOK /\ [Next]_vars => ClocksOK'
<1> SUFFICES ASSUME TypeOK, ClocksOK, [Next]_vars PROVE ClocksOK'
  OBVIOUS
<1> USE ConstantsAssumption
<1>1. CASE UNCHANGED <<config, clockVars>>
  BY <1>1 DEF ClocksOK, clockVars
<1>2. CASE Tick \/ Suspend \/ StepWall
  BY <1>2 DEF ClocksOK, Tick, Suspend, StepWall, TypeOK
<1>3. ASSUME NEW s \in Session, EndSession(s) PROVE ClocksOK'
  BY <1>1, <1>3 DEF EndSession
<1>4. ASSUME NEW a \in Account, EndAccount(a) PROVE ClocksOK'
  BY <1>1, <1>4 DEF EndAccount
<1>5. ASSUME NEW c \in Caller,
             \/ HostAnswers(c) \/ CacheAnswers(c) \/ LoadSucceeds(c) \/ LoadFails(c)
             \/ Judge(c) \/ CallUnchecked(c) \/ CallFromMemory(c) \/ CallWaits(c)
      PROVE  ClocksOK'
  BY <1>1, <1>5 DEF HostAnswers, CacheAnswers, LoadSucceeds, LoadFails, Settle,
     Judge, CallUnchecked, CallFromMemory, CallWaits
<1>6. CASE UNCHANGED vars
  BY <1>1, <1>6 DEF vars
<1>7. QED
  BY <1>2, <1>3, <1>4, <1>5, <1>6 DEF Next

LEMMA HostStep == TypeOK /\ ClocksOK /\ HostOK /\ [Next]_vars => HostOK'
<1> SUFFICES ASSUME TypeOK, ClocksOK, HostOK, [Next]_vars PROVE HostOK'
  OBVIOUS
<1> USE ConstantsAssumption
<1>1. ASSUME UNCHANGED hostVars, time' \in Nat, time' >= time PROVE HostOK'
  <2>1. \A s \in Session : Ends(HostList, s)' <=> Ends(HostList, s)
    BY <1>1 DEF Ends, HostList, hostVars
  <2>2. QED
    BY <1>1, <2>1 DEF HostOK, hostVars, TypeOK, Never
<1>2. CASE Tick \/ Suspend \/ StepWall
  BY <1>1, <1>2 DEF Tick, Suspend, StepWall, TypeOK
<1>3. ASSUME NEW s \in Session, EndSession(s) PROVE HostOK'
  <2>1. time # Never /\ time' = time /\ hostCutoff' = hostCutoff
    BY <1>3 DEF ClocksOK, Never, TypeOK, EndSession, clockVars
  <2>2. \A t \in Session : endedAt'[t] = IF t = s THEN time ELSE endedAt[t]
    BY <1>3 DEF EndSession, TypeOK
  <2>3. \A t \in Session : Ends(HostList, t)' <=> t = s \/ Ends(HostList, t)
    BY <1>3, <2>1 DEF EndSession, Ends, HostList
  <2>4. QED
    BY <2>1, <2>2, <2>3 DEF HostOK, TypeOK, Never
<1>4. ASSUME NEW a \in Account, EndAccount(a) PROVE HostOK'
  <2>1. \A s \in Session : Iat[s] \in Nat /\ AccountOf[s] \in Account
    OBVIOUS
  <2>2. time # Never
    BY DEF ClocksOK, Never, TypeOK
  <2>3. \A b \in Account : hostCutoff'[b] = IF b = a THEN time ELSE hostCutoff[b]
    BY <1>4 DEF EndAccount, TypeOK
  <2>4. time' = time /\ hostTokens' = hostTokens
    BY <1>4 DEF EndAccount, clockVars
  <2>5. \A b \in Account : hostCutoff'[b] <= time'
    BY <2>3, <2>4 DEF HostOK, TypeOK
  <2>6. \A s \in Session : endedAt'[s] <= time' \/ endedAt'[s] = Never
    BY <1>4, <2>4 DEF EndAccount, HostOK, TypeOK
  <2>7. ASSUME NEW s \in Session
        PROVE  Ends(HostList, s)' <=> endedAt'[s] # Never
    <3>1. CASE AccountOf[s] = a
      <4>1. Ends(HostList, s)' <=> s \in hostTokens \/ Iat[s] < time
        BY <2>3, <2>4, <3>1 DEF Ends, HostList
      <4>2. Ends(HostList, s) <=> s \in hostTokens \/ Iat[s] < hostCutoff[a]
        BY <3>1 DEF Ends, HostList
      <4>3. hostCutoff[a] < time /\ hostCutoff[a] \in Nat
        BY <1>4 DEF EndAccount, TypeOK
      <4>4. endedAt'[s] = IF Iat[s] < time /\ endedAt[s] = Never THEN time ELSE endedAt[s]
        BY <1>4, <3>1 DEF EndAccount
      <4>5. QED
        BY <2>1, <2>2, <4>1, <4>2, <4>3, <4>4 DEF HostOK, TypeOK
    <3>2. CASE AccountOf[s] # a
      BY <1>4, <2>1, <2>3, <2>4, <3>2 DEF EndAccount, HostOK, Ends, HostList
    <3>3. QED
      BY <3>1, <3>2
  <2>8. QED
    BY <2>5, <2>6, <2>7 DEF HostOK, Never
<1>5. ASSUME UNCHANGED <<clockVars, hostVars>> PROVE HostOK'
  BY <1>1, <1>5 DEF clockVars, TypeOK
<1>6. ASSUME NEW c \in Caller,
             \/ HostAnswers(c) \/ CacheAnswers(c) \/ LoadSucceeds(c) \/ LoadFails(c)
             \/ Judge(c) \/ CallUnchecked(c) \/ CallFromMemory(c) \/ CallWaits(c)
      PROVE  HostOK'
  BY <1>5, <1>6 DEF HostAnswers, CacheAnswers, LoadSucceeds, LoadFails, Settle,
     Judge, CallUnchecked, CallFromMemory, CallWaits
<1>7. CASE UNCHANGED vars
  BY <1>5, <1>7 DEF vars
<1>8. QED
  BY <1>2, <1>3, <1>4, <1>6, <1>7 DEF Next

-----------------------------------------------------------------------------
(* What is held stays true of what is held, whatever else happens. *)

PublishedNext(l) ==
    /\ l \in List
    /\ Precedes(l, HostList')
    /\ \A s \in Session : endedAt'[s] < l.at => Ends(l, s)

StampedNext(k) ==
    /\ k \in Copy
    /\ PublishedNext(k.list)
    /\ k.received <= time'
    /\ k.fetchedAt <= k.received /\ k.received <= k.fetchedAt + slept'
    /\ config.fault # "wall" => k.wallAtFetch = k.received
    /\ StampTellsAge /\ StaleFrom = "fetch" => k.received <= k.list.at + Timeout

LEMMA PublishedStays ==
    ASSUME TypeOK, Advances, NEW l, Published(l)
    PROVE  PublishedNext(l)
<1>1. l \in List /\ HostList \in List /\ HostList' \in List
  BY ListType DEF Published, Advances
<1>2. Precedes(l, HostList')
  BY <1>1, PrecedesTransitive DEF Published, Advances
<1>3. l.at <= time /\ l.at \in Nat
  BY <1>1 DEF Published, Precedes, HostList, List
<1>4. \A s \in Session : endedAt'[s] < l.at => Ends(l, s)
  BY <1>3 DEF Published, Advances, TypeOK
<1>5. QED
  BY <1>1, <1>2, <1>4 DEF PublishedNext

LEMMA StampedStays ==
    ASSUME TypeOK, Advances, TypeOK', NEW k, Stamped(k)
    PROVE  StampedNext(k)
<1>1. k.received \in Nat /\ k.fetchedAt \in Int
  BY DEF Stamped, Copy
<1>2. PublishedNext(k.list)
  BY PublishedStays DEF Stamped
<1>3. k.received <= time' /\ k.received <= k.fetchedAt + slept'
  BY <1>1 DEF Stamped, Advances, TypeOK
<1>4. QED
  BY <1>2, <1>3 DEF Stamped, StampedNext

HeldOK == LoadOK /\ CopiesOK /\ AskOK

(* What a step leaves alone of the lists and copies held. *)
LEMMA HeldStays ==
    ASSUME Inv, TypeOK', Advances
    PROVE  /\ cachedList # NoCopy /\ cachedList' = cachedList => Published(cachedList)'
           /\ snapshot # NoCopy /\ snapshot' = snapshot => Stamped(snapshot)'
           /\ \A c \in Caller : copy[c] # NoCopy /\ copy'[c] = copy[c] => Stamped(copy[c])'
           /\ \A c \in Caller : load[c].phase = "answered" /\ load'[c] = load[c]
                => Published(load[c].list)'
<1> USE DEF Inv
<1>1. ASSUME NEW l, Published(l) PROVE PublishedNext(l)
  BY <1>1, PublishedStays
<1>2. ASSUME NEW k, Stamped(k) PROVE StampedNext(k)
  BY <1>2, StampedStays
<1>3. cachedList # NoCopy /\ cachedList' = cachedList => Published(cachedList)'
  BY <1>1 DEF CopiesOK, Published, PublishedNext
<1>4. snapshot # NoCopy /\ snapshot' = snapshot => Stamped(snapshot)'
  BY <1>2 DEF CopiesOK, Stamped, StampedNext, Published, PublishedNext, Advances, StampTellsAge
<1>5. \A c \in Caller : copy[c] # NoCopy /\ copy'[c] = copy[c] => Stamped(copy[c])'
  BY <1>2 DEF CopiesOK, Stamped, StampedNext, Published, PublishedNext, Advances, StampTellsAge
<1>6. \A c \in Caller : load[c].phase = "answered" /\ load'[c] = load[c]
        => Published(load[c].list)'
  BY <1>1 DEF LoadOK, Published, PublishedNext
<1>7. QED
  BY <1>3, <1>4, <1>5, <1>6

(* A step that touches no list, stamp or fetch. *)
LEMMA ElsewhereStep ==
    ASSUME Inv, TypeOK', Advances,
           UNCHANGED <<cachedList, snapshot, failed, loadVars, copy>>,
           \A c \in Caller : load[c].phase # "none" =>
              load[c].startedAt <= clock' /\ clock' <= load[c].startedAt + Timeout
    PROVE  HeldOK'
<1> USE DEF Inv
<1>1. LoadOK'
  BY HeldStays DEF LoadOK, loadVars
<1>2. CopiesOK'
  BY HeldStays DEF CopiesOK
<1>3. AskOK'
  BY DEF AskOK, loadVars, Advances, TypeOK
<1>4. QED
  BY <1>1, <1>2, <1>3 DEF HeldOK

LEMMA HeldStep ==
    ASSUME Inv, TypeOK', SingleFlight', ClocksOK', Advances, [Next]_vars
    PROVE  HeldOK'
<1> USE ConstantsAssumption DEF Inv
<1>1. ASSUME UNCHANGED <<clockVars, cachedList, snapshot, failed, loadVars, copy>>
      PROVE  HeldOK'
  BY <1>1, ElsewhereStep DEF clockVars, clock, LoadOK
<1>2. CASE Tick
  <2>1. \A c \in Caller : load[c].phase # "none" =>
           load[c].startedAt <= clock' /\ clock' <= load[c].startedAt + Timeout
    <3>1. clock' = clock + 1
      BY <1>2 DEF Tick, clock, TypeOK
    <3>2. clock \in Int /\ \A c \in Caller : load[c].startedAt \in Int
      BY DEF TypeOK, clock, Load
    <3>3. QED
      BY <1>2, <3>1, <3>2 DEF Tick, Overdue, LoadOK
  <2>2. QED
    BY <1>2, <2>1, ElsewhereStep DEF Tick, callVars
<1>3. CASE Suspend
  <2>1. clock' = clock
    BY <1>3 DEF Suspend, clock, TypeOK
  <2>2. QED
    BY <1>3, <2>1, ElsewhereStep DEF Suspend, callVars, LoadOK
<1>4. CASE StepWall
  BY <1>4, ElsewhereStep DEF StepWall, callVars, LoadOK, clock
<1>5. ASSUME NEW s \in Session, EndSession(s) PROVE HeldOK'
  BY <1>1, <1>5 DEF EndSession, callVars
<1>6. ASSUME NEW a \in Account, EndAccount(a) PROVE HeldOK'
  BY <1>1, <1>6 DEF EndAccount, callVars
<1>7. ASSUME NEW c \in Caller, CallUnchecked(c) PROVE HeldOK'
  BY <1>1, <1>7 DEF CallUnchecked
<1>8. CASE UNCHANGED vars
  BY <1>1, <1>8 DEF vars, callVars
<1>9. ASSUME NEW c \in Caller, HostAnswers(c) PROVE HeldOK'
  <2>1. /\ UNCHANGED <<config, clockVars, hostVars, snapshot, failed, inflight, lastAsk, copy>>
        /\ cachedList' = IF CachedFeed THEN HostList ELSE cachedList
        /\ clock' = clock
    BY <1>9 DEF HostAnswers, callVars, clockVars, clock
  <2>2. HostList' = HostList /\ HostList.at = time
    BY <2>1 DEF HostList, hostVars, clockVars
  <2>3. HostList \in List /\ Precedes(HostList, HostList)
    BY ListType, PrecedesReflexive
  <2>4. Published(HostList) /\ Published(HostList)'
    <3>1. \A s \in Session : endedAt[s] < time => Ends(HostList, s)
      BY DEF HostOK, Never, ClocksOK, TypeOK
    <3>2. Published(HostList)
      BY <2>2, <2>3, <3>1 DEF Published
    <3>3. QED
      BY <2>1, <2>2, <3>2, PublishedStays DEF Published, PublishedNext
  <2>5. load'[c].phase = "answered" /\ load'[c].list = HostList
        /\ load'[c].startedAt = load[c].startedAt
    BY <1>9, AnsweredType, ListType DEF HostAnswers, TypeOK
  <2>6. \A d \in Caller : d # c => load'[d].phase = "none"
    BY <1>9 DEF HostAnswers, SingleFlight, TypeOK
  <2>7. load[c].startedAt <= clock /\ clock <= load[c].startedAt + Timeout /\ clock <= time
        /\ load[c].startedAt \in Int
    BY <1>9 DEF HostAnswers, LoadOK, clock, TypeOK, Load
  <2>8. snapshot # NoCopy => Precedes(snapshot.list, HostList)
    BY DEF CopiesOK, Stamped, Published
  <2>9. LoadOK'
    <3>1. ~CachedFeed => cachedList' = NoCopy
      BY <2>1 DEF LoadOK
    <3>2. load[c].startedAt <= time
      BY <2>7 DEF clock, TypeOK
    <3>3. cachedList' # NoCopy => Precedes(HostList, cachedList')
      BY <2>1, <2>3 DEF LoadOK
    <3>4. QED
      BY <2>1, <2>2, <2>4, <2>5, <2>6, <2>7, <2>8, <3>1, <3>2, <3>3 DEF LoadOK
  <2>10. CopiesOK'
    <3>1. cachedList' # NoCopy => Published(cachedList)'
      BY <2>1, <2>2, <2>4, HeldStays DEF Published
    <3>2. snapshot' # NoCopy => Stamped(snapshot)'
      BY <2>1, HeldStays
    <3>3. \A d \in Caller : copy'[d] # NoCopy => Stamped(copy[d])'
      BY <2>1, HeldStays
    <3>4. snapshot' # NoCopy /\ cachedList' # NoCopy => Precedes(snapshot'.list, cachedList')
      BY <2>1, <2>8 DEF CopiesOK
    <3>5. QED
      BY <3>1, <3>2, <3>3, <3>4 DEF CopiesOK
  <2>11. AskOK'
    BY <2>1 DEF AskOK, clockVars
  <2>12. QED
    BY <2>9, <2>10, <2>11 DEF HeldOK
<1>10. ASSUME NEW c \in Caller, CacheAnswers(c) PROVE HeldOK'
  <2>1. /\ UNCHANGED <<config, clockVars, hostVars, cachedList, snapshot, failed,
                       inflight, lastAsk, copy>>
        /\ cachedList # NoCopy
        /\ clock' = clock
    BY <1>10 DEF CacheAnswers, callVars, clockVars, clock
  <2>2. cachedList \in List
    BY <2>1 DEF TypeOK
  <2>3. load'[c].phase = "answered" /\ load'[c].list = cachedList
        /\ load'[c].startedAt = load[c].startedAt
    BY <1>10, <2>2, AnsweredType DEF CacheAnswers, TypeOK
  <2>4. \A d \in Caller : d # c => load'[d].phase = "none"
    BY <1>10 DEF CacheAnswers, SingleFlight, TypeOK
  <2>5. load[c].startedAt <= clock /\ clock <= load[c].startedAt + Timeout
    BY <1>10 DEF CacheAnswers, LoadOK
  <2>6. LoadOK'
    BY <2>1, <2>2, <2>3, <2>4, <2>5, HeldStays, PrecedesReflexive DEF LoadOK, CopiesOK
  <2>7. CopiesOK'
    BY <2>1, HeldStays DEF CopiesOK
  <2>8. AskOK'
    BY <2>1 DEF AskOK, clockVars
  <2>9. QED
    BY <2>6, <2>7, <2>8 DEF HeldOK
<1>11. ASSUME UNCHANGED <<config, clockVars, hostVars, cachedList, snapshot, failed, loadVars>>,
              \A c \in Caller : copy'[c] \in {copy[c], snapshot, NoCopy}
       PROVE  HeldOK'
  <2>1. LoadOK'
    BY <1>11, HeldStays DEF LoadOK, loadVars, clockVars, clock
  <2>2. \A c \in Caller : copy'[c] # NoCopy => Stamped(copy[c])'
    BY <1>11, HeldStays DEF CopiesOK, Stamped, Published, HostList, Ends, clockVars,
       hostVars, StampTellsAge
  <2>3. CopiesOK'
    BY <1>11, <2>2, HeldStays DEF CopiesOK
  <2>4. AskOK'
    BY <1>11 DEF AskOK, loadVars, clockVars
  <2>5. QED
    BY <2>1, <2>3, <2>4 DEF HeldOK
<1>12. ASSUME NEW c \in Caller, CallFromMemory(c) PROVE HeldOK'
  BY <1>11, <1>12 DEF CallFromMemory, TypeOK
<1>13. ASSUME NEW c \in Caller, Judge(c) PROVE HeldOK'
  BY <1>11, <1>13 DEF Judge, TypeOK
<1>14. ASSUME NEW c \in Caller, CallWaits(c) PROVE HeldOK'
  <2>1. CASE inflight # Nobody
    BY <1>11, <1>14, <2>1 DEF CallWaits
  <2>2. CASE inflight = Nobody
    <3>1. /\ UNCHANGED <<config, clockVars, hostVars, cachedList, snapshot, failed, copy>>
          /\ inflight' = c /\ lastAsk' = time
          /\ clock' = clock
      BY <1>14, <2>2 DEF CallWaits, SingleFlight, clockVars, clock
    <3>2. load'[c].phase = "asked" /\ load'[c].startedAt = clock
      BY <1>14, <2>2, AskedType DEF CallWaits, SingleFlight, TypeOK
    <3>3. \A d \in Caller : d # c => load'[d].phase = "none"
      BY <1>14, <2>2 DEF CallWaits, SingleFlight, TypeOK
    <3>4. clock \in Int
      BY DEF clock, TypeOK
    <3>5. LoadOK'
      BY <3>1, <3>2, <3>3, <3>4 DEF LoadOK
    <3>6. CopiesOK'
      BY <3>1, HeldStays DEF CopiesOK
    <3>7. AskOK'
      BY <3>1 DEF AskOK, TypeOK, clockVars
    <3>8. QED
      BY <3>5, <3>6, <3>7 DEF HeldOK
  <2>3. QED
    BY <2>1, <2>2
(* The end of a fetch, whatever it leaves in memory. *)
<1>15. ASSUME NEW c \in Caller, Settle(c), load[c].phase # "none",
              snapshot' # NoCopy => Stamped(snapshot)',
              snapshot' # NoCopy /\ cachedList # NoCopy => Precedes(snapshot'.list, cachedList),
              AskOK'
       PROVE  HeldOK'
  <2>1. UNCHANGED <<config, clockVars, hostVars, cachedList>>
    BY <1>15 DEF Settle
  <2>2. \A d \in Caller : load'[d].phase = "none"
    BY <1>15, NoLoadType DEF Settle, SingleFlight, TypeOK
  <2>3. LoadOK'
    BY <2>1, <2>2 DEF LoadOK
  <2>4. \A d \in Caller : copy'[d] \in {copy[d], snapshot'}
    BY <1>15 DEF Settle
  <2>5. \A d \in Caller : copy'[d] # NoCopy => Stamped(copy[d])'
    BY <1>15, <2>4, HeldStays DEF Stamped, Published, HostList, Ends, StampTellsAge
  <2>6. CopiesOK'
    BY <1>15, <2>1, <2>5, HeldStays DEF CopiesOK
  <2>7. QED
    BY <1>15, <2>3, <2>6 DEF HeldOK
<1>16. ASSUME NEW c \in Caller, LoadSucceeds(c) PROVE HeldOK'
  <2>1. /\ load[c].phase = "answered" /\ load[c].list \in List
        /\ Published(load[c].list)
    BY <1>16 DEF LoadSucceeds, LoadOK, TypeOK
  <2>2. /\ UNCHANGED <<config, clockVars, hostVars, cachedList, lastAsk, failed>>
        /\ snapshot' = ParseFeed(load[c].list)
        /\ inflight' = Nobody
    BY <1>16 DEF LoadSucceeds, Settle
  <2>3. /\ snapshot' \in Copy
        /\ snapshot'.list = load[c].list
        /\ snapshot'.received = time
        /\ snapshot'.fetchedAt = time - slept
        /\ snapshot'.wallAtFetch = time - lag
    BY <2>1, <2>2, CopyType DEF ParseFeed, clock, wall
  <2>4. Published(snapshot'.list)
    BY <2>1, <2>3
  <2>5. StampTellsAge /\ StaleFrom = "fetch" => time <= load[c].list.at + Timeout
    <3>1. SUFFICES ASSUME StampTellsAge, StaleFrom = "fetch"
                   PROVE  time <= load[c].list.at + Timeout
      OBVIOUS
    <3>2. slept = 0 /\ ~CachedFeed
      BY <3>1 DEF StampTellsAge, ClocksOK
    <3>3. load[c].startedAt <= load[c].list.at /\ clock <= load[c].startedAt + Timeout
      BY <2>1, <3>2 DEF LoadOK
    <3>4. clock = time /\ load[c].startedAt \in Int /\ load[c].list.at \in Int
      BY <2>1, <3>2 DEF clock, TypeOK, Load, List
    <3>5. QED
      BY <3>3, <3>4 DEF TypeOK
  <2>6. Stamped(snapshot)'
    <3>1. time' = time /\ slept' = slept /\ config' = config
      BY <2>2 DEF clockVars
    <3>2. Published(snapshot.list)'
      BY <2>2, <2>4 DEF Published, HostList, Ends, clockVars, hostVars
    <3>3. config.fault # "wall" => lag = 0
      BY DEF ClocksOK
    <3>4. QED
      BY <2>3, <2>5, <3>1, <3>2, <3>3 DEF Stamped, TypeOK, StampTellsAge
  <2>7. cachedList # NoCopy => Precedes(snapshot'.list, cachedList)
    BY <2>1, <2>3 DEF LoadOK
  <2>8. AskOK'
    BY <2>2, <2>3, NoCopyAssumption DEF AskOK, clockVars
  <2>9. QED
    BY <1>15, <1>16, <2>6, <2>7, <2>8 DEF LoadSucceeds
<1>17. ASSUME NEW c \in Caller, LoadFails(c) PROVE HeldOK'
  <2>1. /\ UNCHANGED <<config, clockVars, hostVars, cachedList, lastAsk, snapshot>>
        /\ failed' = [ever |-> TRUE, mono |-> time - slept, wall |-> time - lag]
    BY <1>17 DEF LoadFails, Settle, clock, wall
  <2>2. AskOK'
    BY <2>1 DEF AskOK, ClocksOK, clockVars, TypeOK
  <2>3. QED
    BY <1>15, <1>17, <2>1, <2>2, HeldStays DEF LoadFails, CopiesOK
<1>18. QED
  BY <1>2, <1>3, <1>4, <1>5, <1>6, <1>7, <1>8, <1>9, <1>10, <1>12, <1>13, <1>14,
     <1>16, <1>17 DEF Next

LEMMA InvInit == Init => Inv
<1> SUFFICES ASSUME Init PROVE Inv
  OBVIOUS
<1> USE ConstantsAssumption
<1>1. TypeOK
  BY TypeInit
<1>2. SingleFlight
  BY NoLoadType DEF Init, SingleFlight
<1>3. ClocksOK
  BY DEF Init, ClocksOK
<1>4. HostOK
  <2>1. \A s \in Session : Iat[s] \in Nat /\ AccountOf[s] \in Account
    OBVIOUS
  <2>2. QED
    BY <2>1 DEF Init, HostOK, HostList, Ends
<1>5. LoadOK
  BY NoLoadType DEF Init, LoadOK
<1>6. CopiesOK
  BY DEF Init, CopiesOK
<1>7. AskOK
  BY DEF Init, AskOK
<1>8. QED
  BY <1>1, <1>2, <1>3, <1>4, <1>5, <1>6, <1>7 DEF Inv

LEMMA InvStep == Inv /\ [Next]_vars => Inv'
<1> SUFFICES ASSUME Inv, [Next]_vars PROVE Inv'
  OBVIOUS
<1>1. TypeOK' /\ SingleFlight' /\ ClocksOK' /\ HostOK' /\ Advances
  BY TypeStep, SingleFlightStep, ClocksStep, HostStep, StepAdvances DEF Inv
<1>2. HeldOK'
  BY <1>1, HeldStep
<1>3. QED
  BY <1>1, <1>2 DEF Inv, HeldOK

(* The inductive invariant of the check holds throughout, for any callers, *)
(* sessions, periods, outages and clocks.                                  *)
THEOREM Invariance == Spec => []Inv
BY InvInit, InvStep, PTL DEF Spec

-----------------------------------------------------------------------------
(* The properties, each from Inv. *)

(* Only a judging call answers, and by the copy it took. *)
LEMMA AnswersJudge ==
    ASSUME TypeOK, [Next]_vars, NEW c \in Caller, Answers(c)
    PROVE  verdict'[c] = Verdict(copy[c], SessionOf[c])
<1> USE DEF Answers
<1>1. pc' # pc
  OBVIOUS
<1>2. ~UNCHANGED vars /\ ~Tick /\ ~Suspend /\ ~StepWall
  BY <1>1 DEF vars, callVars, Tick, Suspend, StepWall
<1>3. /\ ~\E s \in Session : EndSession(s)
      /\ ~\E a \in Account : EndAccount(a)
  BY <1>1 DEF EndSession, EndAccount, callVars
<1>4. ASSUME NEW d \in Caller PROVE ~HostAnswers(d) /\ ~CacheAnswers(d)
  BY <1>1 DEF HostAnswers, CacheAnswers, callVars
<1>5. ASSUME NEW d \in Caller PROVE ~LoadSucceeds(d) /\ ~LoadFails(d)
  BY DEF LoadSucceeds, LoadFails, Settle
<1>6. ASSUME NEW d \in Caller
      PROVE  ~CallUnchecked(d) /\ ~CallFromMemory(d) /\ ~CallWaits(d)
  BY DEF CallUnchecked, CallFromMemory, CallWaits, MayCall, TypeOK
<1>7. ASSUME NEW d \in Caller, Judge(d)
      PROVE  verdict'[c] = Verdict(copy[c], SessionOf[c])
  BY <1>7 DEF Judge, TypeOK
<1>8. QED
  BY <1>2, <1>3, <1>4, <1>5, <1>6, <1>7 DEF Next

(* A read is refused only for a session the host ended. *)
THEOREM RefusedReadsWereEnded == Spec => RefusedReadWasEnded
<1>1. ASSUME Inv, [Next]_vars, NEW c \in Caller, Answers(c), Refuses(verdict'[c], "read")
      PROVE  endedAt[SessionOf[c]] # Never
  <2>1. Verdict(copy[c], SessionOf[c]) = "revoked"
    BY <1>1, AnswersJudge DEF Inv, Refuses
  <2>2. copy[c] # NoCopy /\ Ends(copy[c].list, SessionOf[c])
    BY <2>1 DEF Verdict
  <2>3. copy[c].list \in List /\ Precedes(copy[c].list, HostList)
    BY <1>1, <2>2 DEF Inv, CopiesOK, Stamped, Published
  <2>4. SessionOf[c] \in Session
    BY ConstantsAssumption
  <2>5. Ends(HostList, SessionOf[c])
    BY <1>1, <2>2, <2>3, <2>4, EndsGrows, ListType DEF Inv
  <2>6. QED
    BY <1>1, <2>4, <2>5 DEF Inv, HostOK
<1>2. Inv /\ [Next]_vars =>
        (\A c \in Caller : Answers(c) /\ Refuses(verdict'[c], "read") =>
           endedAt[SessionOf[c]] # Never)
  BY <1>1
<1>3. QED
  BY <1>2, Invariance, PTL DEF Spec, RefusedReadWasEnded

(* No write is let through past the bound for a session that ended. *)
THEOREM AdmittedWritesAreVouched == Spec => AdmittedWriteIsVouched
<1>1. ASSUME Inv, [Next]_vars, NEW c \in Caller, StampTellsAge, Admits(c, "write")
      PROVE  time <= endedAt[SessionOf[c]] + Exposure
  <2> USE ConstantsAssumption
  <2> DEFINE s == SessionOf[c]
             k == copy[c]
  <2>1. Verdict(k, s) = "live"
    BY <1>1, AnswersJudge, VerdictType DEF Inv, Refuses, Admits
  <2>2. k # NoCopy /\ ~Ends(k.list, s) /\ ~TooOld(k)
    BY <2>1 DEF Verdict
  <2>3. Stamped(k) /\ k \in Copy
    BY <1>1, <2>2 DEF Inv, CopiesOK, Stamped
  <2>4. s \in Session /\ endedAt[s] \in Nat
    BY <1>1 DEF Inv, TypeOK
  <2>5. k.list.at <= endedAt[s]
    BY <2>2, <2>3, <2>4 DEF Stamped, Published, Copy, List
  <2>6. /\ k.list.at \in Nat /\ k.received \in Nat
        /\ k.fetchedAt \in Int /\ k.wallAtFetch \in Int
    BY <2>3 DEF Copy, List
  <2>7. time \in Nat /\ lag \in 0 .. MaxLag /\ slept \in Nat
    BY <1>1 DEF Inv, TypeOK
  <2>8. CASE StaleFrom = "fetch"
    <3>1. slept = 0
      BY <1>1, <2>8 DEF StampTellsAge, Inv, ClocksOK
    <3>2. clock - k.fetchedAt <= MaxStale
      BY <2>2, <2>6, <2>7, <2>8 DEF TooOld, Since, Larger, clock, wall
    <3>3. k.fetchedAt <= k.received /\ k.received <= k.list.at + Timeout
      BY <1>1, <2>3, <2>6, <2>8, <3>1 DEF Stamped
    <3>4. QED
      <4>1. time <= k.list.at + MaxStale + Timeout
        BY <2>6, <2>7, <3>1, <3>2, <3>3 DEF clock
      <4>2. Exposure = MaxStale + Timeout
        BY <2>8 DEF Exposure
      <4>3. QED
        BY <2>4, <2>5, <2>6, <2>7, <4>1, <4>2
  <2>9. CASE StaleFrom # "fetch"
    <3>1. wall - k.list.at <= MaxStale
      BY <2>2, <2>3, <2>6, <2>7, <2>9 DEF TooOld, Larger, clock, wall, Copy
    <3>2. time <= k.list.at + MaxStale + MaxLag
      BY <2>6, <2>7, <3>1 DEF wall
    <3>3. Exposure = MaxStale + MaxLag
      BY <2>9 DEF Exposure
    <3>4. QED
      BY <2>4, <2>5, <2>6, <2>7, <3>2, <3>3
  <2>10. QED
    BY <2>8, <2>9
<1>2. Inv /\ [Next]_vars =>
        (\A c \in Caller : StampTellsAge /\ Admits(c, "write") =>
           time <= endedAt[SessionOf[c]] + Exposure)
  BY <1>1
<1>3. QED
  BY <1>2, Invariance, PTL DEF Spec, AdmittedWriteIsVouched

(* What replaces the copy in memory ends every session the copy ended. *)
THEOREM CopiesNeverForget == Spec => CopyNeverForgets
<1>1. ASSUME Inv, [Next]_vars, snapshot # NoCopy, snapshot' # snapshot
      PROVE  /\ snapshot' # NoCopy
             /\ snapshot'.list.at >= snapshot.list.at
             /\ \A s \in Session : Ends(snapshot.list, s) => Ends(snapshot'.list, s)
  <2>1. PICK c \in Caller : LoadSucceeds(c)
    BY <1>1 DEF Next, Tick, Suspend, StepWall, EndSession, EndAccount, HostAnswers,
       CacheAnswers, LoadFails, Judge, CallUnchecked, CallFromMemory, CallWaits, vars
  <2>2. load[c].phase = "answered" /\ load[c].list \in List
    BY <1>1, <2>1 DEF LoadSucceeds, Inv, TypeOK
  <2>3. snapshot' \in Copy /\ snapshot'.list = load[c].list
    BY <1>1, <2>1, <2>2, CopyType DEF LoadSucceeds, ParseFeed, Inv
  <2>4. snapshot.list \in List /\ Precedes(snapshot.list, snapshot'.list)
    BY <1>1, <2>2, <2>3 DEF Inv, LoadOK, CopiesOK, Stamped, Published
  <2>5. QED
    BY <2>2, <2>3, <2>4, EndsGrows, NoCopyAssumption DEF Precedes, List
<1>2. Inv /\ [Next]_vars =>
        (snapshot # NoCopy /\ snapshot' # snapshot =>
           /\ snapshot' # NoCopy
           /\ snapshot'.list.at >= snapshot.list.at
           /\ \A s \in Session : Ends(snapshot.list, s) => Ends(snapshot'.list, s))
  BY <1>1
<1>3. QED
  BY <1>2, Invariance, PTL DEF Spec, CopyNeverForgets

(* Two fetches begin at least the shorter period apart. *)
THEOREM HostIsAskedOncePerPeriod == Spec => HostAskedOncePerPeriod
<1>1. ASSUME Inv, [Next]_vars, inflight = Nobody, inflight' # Nobody,
             config.fault # "wall"
      PROVE  time - lastAsk >= (IF Ttl <= Retry THEN Ttl ELSE Retry)
  <2> USE ConstantsAssumption
  <2>1. PICK c \in Caller : CallWaits(c)
    BY <1>1 DEF Next, Tick, Suspend, StepWall, EndSession, EndAccount, HostAnswers,
       CacheAnswers, LoadSucceeds, LoadFails, Settle, Judge, CallUnchecked,
       CallFromMemory, vars, loadVars
  <2>2. inflight = Nobody /\ ~FreshCopy /\ ~BackingOff
    BY <1>1, <2>1 DEF CallWaits
  <2>3. lag = 0 /\ time \in Nat /\ slept \in Nat /\ lastAsk \in Int
    BY <1>1 DEF Inv, ClocksOK, TypeOK
  <2>4. CASE lastAsk <= -Ttl - Retry
    BY <2>2, <2>3, <2>4
  <2>5. CASE snapshot # NoCopy /\ lastAsk <= snapshot.received
    <3>1. /\ snapshot.received \in Nat /\ snapshot.fetchedAt \in Int
          /\ snapshot.wallAtFetch = snapshot.received
          /\ snapshot.received <= snapshot.fetchedAt + slept
      BY <1>1, <2>5 DEF Inv, CopiesOK, Stamped, Copy
    <3>2. time - snapshot.received >= Ttl
      BY <2>2, <2>3, <2>5, <3>1 DEF FreshCopy, Since, Larger, clock, wall
    <3>3. QED
      BY <2>2, <2>3, <2>5, <3>1, <3>2
  <2>6. CASE failed.ever /\ lastAsk <= failed.wall
    <3>1. failed.wall \in Int /\ failed.mono \in Int /\ failed.wall <= failed.mono + slept
      BY <1>1, <2>6 DEF Inv, AskOK, TypeOK
    <3>2. time - failed.wall >= Retry
      BY <2>2, <2>3, <2>6, <3>1 DEF BackingOff, Since, Larger, clock, wall
    <3>3. QED
      BY <2>2, <2>3, <2>6, <3>1, <3>2
  <2>7. QED
    BY <1>1, <2>2, <2>3, <2>4, <2>5, <2>6 DEF Inv, AskOK
<1>2. Inv /\ [Next]_vars =>
        (inflight = Nobody /\ inflight' # Nobody /\ config.fault # "wall" =>
           time - lastAsk >= (IF Ttl <= Retry THEN Ttl ELSE Retry))
  BY <1>1
<1>3. QED
  BY <1>2, Invariance, PTL DEF Spec, HostAskedOncePerPeriod

=============================================================================

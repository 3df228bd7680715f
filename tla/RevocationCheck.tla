--------------------------- MODULE RevocationCheck ---------------------------
(***************************************************************************)
(* The session-revocation check of auth-core/src/revocation.ts: one        *)
(* process-wide copy of the auth host's list of ended sessions, fetched on *)
(* demand and shared by every request the process serves.                  *)
(*                                                                         *)
(* JavaScript runs one callback at a time, so an action is what runs       *)
(* between two awaits.  The awaits that matter are the fetch (several      *)
(* requests share one) and the digest of the feed key: the copy a request  *)
(* read before them is the copy it judges by after them.                   *)
(*                                                                         *)
(* Three clocks run: `time` is real time (the host's), the process has a   *)
(* wall clock that can be stepped (time - lag) and a monotonic clock that  *)
(* stops while the machine is suspended (time - slept).                    *)
(***************************************************************************)
EXTENDS Integers, FiniteSets

CONSTANTS
    Caller,     \* requests the process may be serving at once
    Session,    \* session tokens the host has issued
    SessionOf,  \* the session a caller's requests carry
    Account,    \* accounts (an audience's handles follow the same rule)
    AccountOf,  \* the account of a session: claims.sub
    Iat,        \* the time a session was issued at: claims.iat
    Ttl,        \* ttlMs
    MaxStale,   \* maxStaleMs
    Retry,      \* retryMs
    Timeout,    \* timeoutMs
    Skew,       \* skewMs
    StaleFrom,  \* staleFrom: "fetch" or "at"
    Faults,     \* what may go wrong with the process clocks
    CachedFeed, \* whether a cache between the two may serve the list again
    MaxTime,    \* bound: real time stops here
    MaxLag,     \* bound: how far the wall clock may be set back
    Nobody,     \* no fetch in flight
    NoCopy      \* no list held

ASSUME ConstantsAssumption ==
    /\ SessionOf \in [Caller -> Session]
    /\ AccountOf \in [Session -> Account]
    /\ Iat \in [Session -> Nat]
    /\ Ttl \in Nat \ {0} /\ MaxStale \in Nat /\ Retry \in Nat \ {0}
    /\ Timeout \in Nat \ {0} /\ Skew \in Nat
    /\ MaxTime \in Nat /\ MaxLag \in Nat
    /\ StaleFrom \in {"fetch", "at"}
    /\ CachedFeed \in BOOLEAN
    /\ Faults \subseteq {"none", "suspend", "wall"}
    /\ Nobody \notin Caller

(* What the feed publishes: the ended tokens, a cutoff per account, and    *)
(* the time it was made.                                                   *)
List == [tokens : SUBSET Session, cutoffs : [Account -> Nat], at : Nat]

(* A list held in memory, with its fetch stamped on both process clocks.   *)
(* `received` is history: the real time it arrived.                        *)
Copy == [list : List, fetchedAt : Int, wallAtFetch : Int,
         ageAtFetch : Int, received : Nat]

ASSUME NoCopyAssumption == NoCopy \notin Copy /\ NoCopy \notin List

VARIABLES
    config,     \* the credential the check has, and how the clocks misbehave
    time, lag, slept,
    hostTokens, hostCutoff,  \* the host's record of ended sessions
    endedAt,    \* history: when the host ended a session (MaxTime + 1: never)
    cachedList, \* the list a cache in between last passed on
    snapshot,   \* the copy in memory, or NoCopy
    failed,     \* when a fetch last failed, on both clocks; `ever` FALSE: none
    inflight,   \* the caller whose fetch is shared, or Nobody
    lastAsk,    \* history: when a fetch last began (before it: long ago)
    load,       \* a caller's own fetch: its phase, start and answer
    pc, waitOn, copy, verdict   \* the calls of status()

hostVars  == <<hostTokens, hostCutoff, endedAt>>
clockVars == <<time, lag, slept>>
loadVars  == <<inflight, load, lastAsk>>
callVars  == <<pc, waitOn, copy, verdict>>
vars == <<config, clockVars, hostVars, cachedList, snapshot, failed,
          loadVars, callVars>>

Never == MaxTime + 1

(* performance.now() and Date.now() of the process. *)
clock == time - slept
wall  == time - lag

Larger(a, b) == IF a >= b THEN a ELSE b

(* Time since a moment stamped on both clocks: the longer reading. *)
Since(mono, wallThen) == Larger(clock - mono, wall - wallThen)

NoLoad == [phase |-> "none", startedAt |-> 0, list |-> NoCopy]
Asked  == [phase |-> "asked", startedAt |-> clock, list |-> NoCopy]

Answered(f, l) == [phase |-> "answered", startedAt |-> f.startedAt, list |-> l]

(* The list the host would answer with now. *)
HostList == [tokens |-> hostTokens, cutoffs |-> hostCutoff, at |-> time]

-----------------------------------------------------------------------------
(* Reading a copy. *)

(* Mutant of Ends: `iat <= cutoff`, ending a session issued at the cutoff. *)
EndsInclusive(l, s) == s \in l.tokens \/ Iat[s] <= l.cutoffs[AccountOf[s]]

(* A session the list ends: its token by name, or its account by a cutoff  *)
(* the session was issued before.                                          *)
Ends(l, s) == s \in l.tokens \/ Iat[s] < l.cutoffs[AccountOf[s]]

(* parseFeed: the copy a list becomes, stamped when its body was read. *)
ParseFeed(l) == [list |-> l, fetchedAt |-> clock, wallAtFetch |-> wall,
                 ageAtFetch |-> wall - l.at, received |-> time]

(* Mutant of TooOld: the monotonic clock alone, which sleeps. *)
TooOldMonotonic(k) == k.ageAtFetch + (clock - k.fetchedAt) > MaxStale

(* tooOld: whether a copy cannot vouch for a session. *)
TooOld(k) ==
    IF StaleFrom = "fetch"
    THEN Since(k.fetchedAt, k.wallAtFetch) > MaxStale
    ELSE \/ k.list.at > wall + Skew
         \/ Larger(k.ageAtFetch + (clock - k.fetchedAt), wall - k.list.at) > MaxStale

(* status, once the copy is in hand. *)
Verdict(k, s) ==
    IF k = NoCopy THEN "unverified"
    ELSE IF Ends(k.list, s) THEN "revoked"
    ELSE IF TooOld(k) THEN "unverified" ELSE "live"

(* refuses: a request is refused when its session is revoked, and when it  *)
(* writes and the session is unverified.                                   *)
Refuses(v, method) == v = "revoked" \/ (v = "unverified" /\ method = "write")

(* current, before it awaits: the copy is inside its period, or a fetch    *)
(* failed so recently that the host is not asked again.                    *)
FreshCopy == snapshot # NoCopy /\ Since(snapshot.fetchedAt, snapshot.wallAtFetch) < Ttl

(* Mutant of BackingOff: a failure is not remembered. *)
NoBackOff == FALSE

BackingOff == failed.ever /\ Since(failed.mono, failed.wall) < Retry

-----------------------------------------------------------------------------
Init ==
    /\ config \in [credential : {"token", "developing", "absent"},
                   fault : Faults]
    /\ time = 0 /\ lag = 0 /\ slept = 0
    /\ hostTokens = {}
    /\ hostCutoff = [a \in Account |-> 0]
    /\ endedAt = [s \in Session |-> Never]
    /\ cachedList = NoCopy
    /\ snapshot = NoCopy
    /\ failed = [ever |-> FALSE, mono |-> 0, wall |-> 0]
    /\ inflight = Nobody
    /\ lastAsk = -Ttl - Retry
    /\ load = [c \in Caller |-> NoLoad]
    /\ pc = [c \in Caller |-> "idle"]
    /\ waitOn = [c \in Caller |-> Nobody]
    /\ copy = [c \in Caller |-> NoCopy]
    /\ verdict = [c \in Caller |-> "none"]

(* The abort timer runs on the monotonic clock: it lets no fetch outlive   *)
(* timeoutMs of that clock.                                                *)
Overdue(c) == load[c].phase # "none" /\ clock - load[c].startedAt >= Timeout

Tick ==
    /\ time < MaxTime
    /\ \A c \in Caller : ~Overdue(c)
    /\ time' = time + 1
    /\ UNCHANGED <<config, lag, slept, hostVars, cachedList, snapshot, failed,
                   loadVars, callVars>>

(* The machine is suspended for a while: real time and the wall clock move *)
(* on, the monotonic clock does not.                                       *)
Suspend ==
    /\ config.fault = "suspend"
    /\ time < MaxTime
    /\ time' = time + 1
    /\ slept' = slept + 1
    /\ UNCHANGED <<config, lag, hostVars, cachedList, snapshot, failed,
                   loadVars, callVars>>

(* The wall clock is stepped: set back, or put right again. *)
StepWall ==
    /\ config.fault = "wall"
    /\ \E l \in 0 .. MaxLag : l # lag /\ lag' = l
    /\ UNCHANGED <<config, time, slept, hostVars, cachedList, snapshot, failed,
                   loadVars, callVars>>

-----------------------------------------------------------------------------
(* The auth host. *)

(* One session ends: signed out, or replaced. *)
EndSession(s) ==
    /\ endedAt[s] = Never /\ Iat[s] <= time
    /\ hostTokens' = hostTokens \union {s}
    /\ endedAt' = [endedAt EXCEPT ![s] = time]
    /\ UNCHANGED <<config, clockVars, hostCutoff, cachedList, snapshot, failed,
                   loadVars, callVars>>

(* An account signs out everywhere: every session issued before now ends. *)
EndAccount(a) ==
    /\ hostCutoff[a] < time
    /\ hostCutoff' = [hostCutoff EXCEPT ![a] = time]
    /\ endedAt' = [s \in Session |->
                     IF AccountOf[s] = a /\ Iat[s] < time /\ endedAt[s] = Never
                     THEN time ELSE endedAt[s]]
    /\ UNCHANGED <<config, clockVars, hostTokens, cachedList, snapshot, failed,
                   loadVars, callVars>>

(* The request of a fetch reaches the host, which answers with its list. *)
HostAnswers(c) ==
    /\ load[c].phase = "asked"
    /\ load' = [load EXCEPT ![c] = Answered(@, HostList)]
    /\ cachedList' = IF CachedFeed THEN HostList ELSE cachedList
    /\ UNCHANGED <<config, clockVars, hostVars, snapshot, failed,
                   inflight, lastAsk, callVars>>

(* A cache in between answers with the list it last passed on. *)
CacheAnswers(c) ==
    /\ cachedList # NoCopy
    /\ load[c].phase = "asked"
    /\ load' = [load EXCEPT ![c] = Answered(@, cachedList)]
    /\ UNCHANGED <<config, clockVars, hostVars, cachedList, snapshot, failed,
                   inflight, lastAsk, callVars>>

-----------------------------------------------------------------------------
(* status() and current(), up to the first await. *)

MayCall(c) == pc[c] \in {"idle", "done"} /\ Iat[SessionOf[c]] <= time

(* No credential: there is no feed to ask. *)
CallUnchecked(c) ==
    /\ MayCall(c) /\ config.credential # "token"
    /\ pc' = [pc EXCEPT ![c] = "done"]
    /\ verdict' = [verdict EXCEPT ![c] =
                     IF config.credential = "developing" THEN "live" ELSE "unverified"]
    /\ UNCHANGED <<config, clockVars, hostVars, cachedList, snapshot, failed,
                   loadVars, waitOn, copy>>

(* The copy in memory answers, or there is none to be had yet. *)
CallFromMemory(c) ==
    /\ MayCall(c) /\ config.credential = "token"
    /\ FreshCopy \/ BackingOff
    /\ pc' = [pc EXCEPT ![c] = "judging"]
    /\ copy' = [copy EXCEPT ![c] = snapshot]
    /\ verdict' = [verdict EXCEPT ![c] = "none"]
    /\ UNCHANGED <<config, clockVars, hostVars, cachedList, snapshot, failed,
                   loadVars, waitOn>>

(* Mutant of CallWaits: no sharing, every call that finds the copy old     *)
(* starts a fetch of its own.                                              *)
CallWaitsAlone(c) ==
    /\ MayCall(c) /\ config.credential = "token"
    /\ ~FreshCopy /\ ~BackingOff
    /\ pc' = [pc EXCEPT ![c] = "waiting"]
    /\ verdict' = [verdict EXCEPT ![c] = "none"]
    /\ inflight' = c
    /\ lastAsk' = time
    /\ load' = [load EXCEPT ![c] = Asked]
    /\ waitOn' = [waitOn EXCEPT ![c] = c]
    /\ UNCHANGED <<config, clockVars, hostVars, cachedList, snapshot, failed, copy>>

(* A fetch is needed: `inflight ??= load()` starts one or joins the one    *)
(* that is running, and the call waits on it.                              *)
CallWaits(c) ==
    /\ MayCall(c) /\ config.credential = "token"
    /\ ~FreshCopy /\ ~BackingOff
    /\ pc' = [pc EXCEPT ![c] = "waiting"]
    /\ verdict' = [verdict EXCEPT ![c] = "none"]
    /\ \/ /\ inflight = Nobody
          /\ inflight' = c
          /\ lastAsk' = time
          /\ load' = [load EXCEPT ![c] = Asked]
          /\ waitOn' = [waitOn EXCEPT ![c] = c]
       \/ /\ inflight # Nobody
          /\ waitOn' = [waitOn EXCEPT ![c] = inflight]
          /\ UNCHANGED loadVars
    /\ UNCHANGED <<config, clockVars, hostVars, cachedList, snapshot, failed, copy>>

-----------------------------------------------------------------------------
(* The fetch settles, and every call that awaited it resumes with the copy *)
(* then in memory.                                                         *)

(* Mutant of Waiters: only the call that started the fetch is resumed. *)
WaitersOwn(c) == {d \in Caller : pc[d] = "waiting" /\ d = c}

Waiters(c) == {d \in Caller : pc[d] = "waiting" /\ waitOn[d] = c}

Settle(c) ==
    /\ inflight' = Nobody
    /\ load' = [load EXCEPT ![c] = NoLoad]
    /\ pc' = [d \in Caller |-> IF d \in Waiters(c) THEN "judging" ELSE pc[d]]
    /\ copy' = [d \in Caller |-> IF d \in Waiters(c) THEN snapshot' ELSE copy[d]]
    /\ waitOn' = [d \in Caller |-> IF d \in Waiters(c) THEN Nobody ELSE waitOn[d]]
    /\ UNCHANGED <<config, clockVars, hostVars, cachedList, lastAsk, verdict>>

LoadSucceeds(c) ==
    /\ load[c].phase = "answered"
    /\ snapshot' = ParseFeed(load[c].list)
    /\ failed' = failed
    /\ Settle(c)

(* Mutant of LoadFails: a failed fetch stamps the old copy anew. *)
LoadFailsRestamps(c) ==
    /\ load[c].phase # "none"
    /\ snapshot' = IF snapshot = NoCopy THEN NoCopy
                   ELSE [snapshot EXCEPT !.fetchedAt = clock, !.wallAtFetch = wall]
    /\ failed' = [ever |-> TRUE, mono |-> clock, wall |-> wall]
    /\ Settle(c)

(* An error, a refusal, a body that cannot be read in full, or the abort.  *)
LoadFails(c) ==
    /\ load[c].phase # "none"
    /\ snapshot' = snapshot
    /\ failed' = [ever |-> TRUE, mono |-> clock, wall |-> wall]
    /\ Settle(c)

(* status() after its digests: the call answers from the copy it took. *)
Judge(c) ==
    /\ pc[c] = "judging"
    /\ pc' = [pc EXCEPT ![c] = "done"]
    /\ verdict' = [verdict EXCEPT ![c] = Verdict(copy[c], SessionOf[c])]
    /\ copy' = [copy EXCEPT ![c] = NoCopy]
    /\ UNCHANGED <<config, clockVars, hostVars, cachedList, snapshot, failed,
                   loadVars, waitOn>>

-----------------------------------------------------------------------------
Next ==
    \/ Tick
    \/ Suspend
    \/ StepWall
    \/ \E s \in Session : EndSession(s)
    \/ \E a \in Account : EndAccount(a)
    \/ \E c \in Caller :
         \/ HostAnswers(c)
         \/ CacheAnswers(c)
         \/ LoadSucceeds(c)
         \/ LoadFails(c)
         \/ Judge(c)
         \/ CallUnchecked(c)
         \/ CallFromMemory(c)
         \/ CallWaits(c)

Spec == Init /\ [][Next]_vars

(* A fetch settles, by its answer or by its abort timer, and a resumed     *)
(* call runs: the event loop starves neither.  Callers and the host are    *)
(* under no obligation.                                                    *)
Fairness == \A c \in Caller : WF_vars(LoadFails(c)) /\ WF_vars(Judge(c))

FairSpec == Spec /\ Fairness

-----------------------------------------------------------------------------
(* Properties. *)

Load == [phase : {"none", "asked", "answered"}, startedAt : Int, list : List \union {NoCopy}]

(* Every variable keeps its type. *)
TypeOK ==
    /\ config \in [credential : {"token", "developing", "absent"},
                   fault : Faults]
    /\ time \in Nat /\ lag \in 0 .. MaxLag /\ slept \in Nat
    /\ hostTokens \in SUBSET Session
    /\ hostCutoff \in [Account -> Nat]
    /\ endedAt \in [Session -> Nat]
    /\ cachedList \in List \union {NoCopy}
    /\ snapshot \in Copy \union {NoCopy}
    /\ failed \in [ever : BOOLEAN, mono : Int, wall : Int]
    /\ inflight \in Caller \union {Nobody}
    /\ lastAsk \in Int
    /\ load \in [Caller -> Load]
    /\ \A c \in Caller : load[c].phase = "answered" => load[c].list \in List
    /\ pc \in [Caller -> {"idle", "waiting", "judging", "done"}]
    /\ waitOn \in [Caller -> Caller \union {Nobody}]
    /\ copy \in [Caller -> Copy \union {NoCopy}]
    /\ verdict \in [Caller -> {"none", "live", "revoked", "unverified"}]

(* One fetch at a time serves the whole process: whoever needs a newer     *)
(* list joins the fetch that is running, and nobody waits on a fetch that  *)
(* has already settled (`inflight ??= load()`, cleared in its finally).    *)
SingleFlight ==
    /\ \A c \in Caller : load[c].phase # "none" <=> inflight = c
    /\ \A c \in Caller : pc[c] = "waiting" => waitOn[c] = inflight /\ inflight # Nobody

(* The copy in memory never forgets: what replaces it was published no     *)
(* earlier and ends every session the old copy ended, so a session once    *)
(* refused is refused by every later reading of the copy.  This needs one  *)
(* fetch at a time: two could settle in the other order.                   *)
CopyNeverForgets ==
    [][ snapshot # NoCopy /\ snapshot' # snapshot =>
          /\ snapshot' # NoCopy
          /\ snapshot'.list.at >= snapshot.list.at
          /\ \A s \in Session : Ends(snapshot.list, s) => Ends(snapshot'.list, s) ]_vars

Answers(c) == pc[c] = "judging" /\ pc'[c] = "done"
Admits(c, method) == Answers(c) /\ ~Refuses(verdict'[c], method)

(* How long an ended session may still be let write: a copy vouches for    *)
(* maxStaleMs, and was made up to one fetch before it was stamped; read    *)
(* from the list's own time, the wall clock's lag comes on top.            *)
Exposure == MaxStale + (IF StaleFrom = "fetch" THEN Timeout ELSE MaxLag)

(* The age of a copy counts from its arrival only where nothing delays a   *)
(* list on its way: no cache, and no pause of this machine.                *)
StampTellsAge == StaleFrom = "fetch" => ~CachedFeed /\ config.fault # "suspend"

(* No write is let through for a session the host ended longer ago than    *)
(* the bound, whatever the outage, the sharing of fetches, the wall clock  *)
(* or the wait between reading the copy and judging by it.                 *)
AdmittedWriteIsVouched ==
    [][ \A c \in Caller : StampTellsAge /\ Admits(c, "write") =>
          time <= endedAt[SessionOf[c]] + Exposure ]_vars

(* A read is refused only for a session the host did end: an outage, a     *)
(* cutoff equal to the time of issue or another session's end never        *)
(* refuses one ("Reads keep working through an outage of the auth host").  *)
RefusedReadWasEnded ==
    [][ \A c \in Caller : Answers(c) /\ Refuses(verdict'[c], "read") =>
          endedAt[SessionOf[c]] # Never ]_vars

(* The host is asked at most once per period, however many requests find   *)
(* the copy old at the same moment and however often it fails ("fetches    *)
(* that list at most once per ttlMs per process"); with the wall clock     *)
(* stepped forward a copy may look older than it is.                       *)
HostAskedOncePerPeriod ==
    [][ inflight = Nobody /\ inflight' # Nobody /\ config.fault # "wall" =>
          time - lastAsk >= (IF Ttl <= Retry THEN Ttl ELSE Retry) ]_vars

(* Every call is answered: a host that never answers, and a fetch shared   *)
(* with others, delay a request but never hang it.                         *)
CallsAreAnswered ==
    \A c \in Caller : (pc[c] \in {"waiting", "judging"}) ~> (pc[c] = "done")
=============================================================================

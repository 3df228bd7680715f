------------------------------ MODULE ReadPages ------------------------------
(***************************************************************************)
(* readPages of nostr-core/src/pages.ts: a read paged with `until` to its  *)
(* end on every relay, whatever page size each one caps at.  Relays answer *)
(* newest first up to a cap the reader does not know; a page is the union  *)
(* of what they send, and only how many events each relay sent is told.    *)
(*                                                                         *)
(* One request and the code that digests its answer are one action.  A     *)
(* relay names itself and counts what it sends, as queryEvents reports it. *)
(***************************************************************************)
EXTENDS Integers, FiniteSets, FiniteSetsExt

CONSTANTS
    Relay,
    Event,
    At,         \* created_at of an event
    LastSecond, \* bound: the newest second
    Dropped,    \* events the reader verifies and rejects
    Limit,      \* limit: events asked for per page
    MinPage,    \* MIN_PAGE: the smallest cap a relay is taken to have
    MaxEvents,  \* maxEvents: distinct events read before the read stops
    MaxPages,   \* maxPages: requests made before the read stops
    Caps,       \* caps a relay may have
    Others,     \* numbers of other events of the filter's kinds it may hold
    Lossy,      \* whether a relay may fail to answer
    MaxLate     \* bound: events published while the read runs

ASSUME ReadAssumption ==
    /\ LastSecond \in Nat /\ At \in [Event -> 1 .. LastSecond]
    /\ IsFiniteSet(Event)
    /\ Dropped \subseteq Event
    /\ {Limit, MinPage, MaxEvents, MaxPages} \subseteq Nat \ {0}
    /\ Caps \subseteq Nat \ {0} /\ Others \subseteq Nat
    /\ Lossy \in BOOLEAN /\ MaxLate \in Nat

Forever  == LastSecond + 1   \* no bound yet
NoSecond == 0

State  == {"unmet", "open", "complete", "cut_off", "no_answer"}
Paging == [state : State, largest : Nat, sent : BOOLEAN, reached : 0 .. LastSecond,
           past : 0 .. LastSecond, pastSent : Nat, capped : BOOLEAN]
Site   == [cap : Caps, others : Others, declares : BOOLEAN]
Phase  == {"page", "sizes", "above", "stuck", "done"}

VARIABLES
    site,     \* a relay's cap, what else it holds, whether it declares its cap
    first,    \* what it held when the read began
    held,     \* what it holds
    silent,   \* the relays that failed to answer a request
    paging,   \* relays: one relay's read across the pages
    seen,     \* the events read
    pages,    \* requests made
    until,    \* the bound the next page asks at
    phase,    \* the request to make next
    page,     \* the events of the page being digested
    dropped,  \* whether it held events the reader drops
    unsure,   \* the relays whose last second may hold more
    budget,   \* whether the shared budget has requests left
    stopped   \* truncated, by a bound

relayVars == <<site, first, held>>
pageVars == <<page, dropped, unsure>>
vars == <<relayVars, silent, paging, seen, pages, until, phase, pageVars, budget, stopped>>

Short   == Min({MinPage, Limit})
Room(r) == Min({Limit, site[r].cap})

(* A page size declared below the one that ends a read. *)
DeclaredShort(r) == site[r].declares /\ site[r].cap < Short

Met == [state |-> "unmet", largest |-> 0, sent |-> FALSE, reached |-> NoSecond,
        past |-> NoSecond, pastSent |-> 0, capped |-> FALSE]

Open(p) == {r \in Relay : p[r].state = "open"}

Init ==
    /\ site \in [Relay -> Site]
    /\ first \in [Relay -> SUBSET Event]
    /\ held = first
    /\ silent = {}
    /\ paging = [r \in Relay |-> Met]
    /\ seen = {}
    /\ pages = 0
    /\ until = Forever
    /\ phase = "page"
    /\ page = {} /\ dropped = FALSE /\ unsure = {}
    /\ budget = TRUE
    /\ stopped = FALSE

-----------------------------------------------------------------------------
(* The relays. *)

(* What a relay may send of S: its newest, up to its cap or the limit. *)
Newest(r, S) ==
    {P \in SUBSET S : /\ Cardinality(P) = Min({Room(r), Cardinality(S)})
                      /\ \A e \in P, f \in S \ P : At[f] <= At[e]}

Answer == [kind : {"absent", "stopped", "eose"}, sent : SUBSET Event]
Absent == [kind |-> "absent", sent |-> {}]

(* Its answer for the seconds lo to hi: all of it, part of it, or none. *)
Answers(r, lo, hi) ==
    LET pagesOf == Newest(r, {e \in held[r] : At[e] \in lo .. hi}) IN
    [kind : {"eose"}, sent : pagesOf]
    \union IF ~Lossy THEN {}
           ELSE {Absent} \union [kind : {"stopped"}, sent : pagesOf \union {{}}]

Replies(lo, hi) ==
    {a \in [Relay -> UNION {Answers(r, lo, hi) : r \in Relay}] :
        \A r \in Relay : a[r] \in Answers(r, lo, hi)}

(* Mutant of Kept: nothing a relay sends is checked. *)
KeptUnchecked(a) == a.sent

Kept(a) == a.sent \ Dropped

Count(a) == Cardinality(a.sent)
AllOf(a) == UNION {Kept(a[r]) : r \in Relay}
Failed(a) == {r \in Relay : a[r].kind # "eose"}

(* An event is published on a relay while the read runs. *)
Publish(r, e) ==
    /\ phase # "done"
    /\ e \notin held[r]
    /\ MapThenSumSet(LAMBDA q : Cardinality(held[q] \ first[q]), Relay) < MaxLate
    /\ held' = [held EXCEPT ![r] = @ \union {e}]
    /\ UNCHANGED <<site, first, silent, paging, seen, pages, until, phase, pageVars,
                   budget, stopped>>


-----------------------------------------------------------------------------
(* What the reader makes of an answer. *)

Spent == pages >= MaxPages \/ ~budget

(* stop: a relay that did not answer stays stopped. *)
Stop(p, a) == [p EXCEPT !.state = IF p.sent \/ a.sent # {} THEN "cut_off" ELSE "no_answer"]

(* The second of the k-th newest event of S. *)
SecondOf(S, k) ==
    CHOOSE s \in {At[e] : e \in S} :
        /\ Cardinality({e \in S : At[e] > s}) < k
        /\ k <= Cardinality({e \in S : At[e] >= s})

(* Mutant of Digest: whatever comes after the first page counts against a  *)
(* relay, whether or not its own page sat at one second.                   *)
DigestSuspicious(p, a, pg) ==
    LET n == Count(a)
        q == [p EXCEPT !.sent = @ \/ n > 0, !.past = NoSecond,
                       !.capped = @ \/ (until # Forever /\ n > 0)]
    IN IF n = 0 \/ n < Short \/ n < p.largest
       THEN [q EXCEPT !.state = IF q.capped THEN "cut_off" ELSE "complete"]
       ELSE IF Kept(a) = {}
       THEN [q EXCEPT !.state = "cut_off", !.largest = n, !.capped = TRUE]
       ELSE [q EXCEPT !.state = "open", !.largest = n,
                      !.reached = SecondOf(pg, Cardinality(Kept(a)))]

(* A page ends the relay's read if it is empty, under the smallest page or *)
(* shorter than one it sent before.  A relay asked below a second its last *)
(* page sat wholly at held what it sends now then, and did not send it.    *)
Digest(p, a, pg) ==
    LET n == Count(a)
        q == [p EXCEPT !.sent = @ \/ n > 0,
                       !.capped = @ \/ (p.past # NoSecond /\ n > 0),
                       !.past = NoSecond]
    IN IF n = 0 \/ n < Short \/ n < p.largest
       THEN [q EXCEPT !.state = IF q.capped THEN "cut_off" ELSE "complete"]
       ELSE IF Kept(a) = {}
       THEN [q EXCEPT !.state = "cut_off", !.largest = n, !.capped = TRUE]
       ELSE [q EXCEPT !.state = "open", !.largest = n,
                      !.reached = SecondOf(pg, Cardinality(Kept(a)))]

(* A relay first met after page 1 missed what the pages before it asked. *)
Reads(p, a, pg) ==
    IF \/ p.state \in {"complete", "cut_off", "no_answer"}
       \/ p.state = "unmet" /\ a.kind = "absent"
    THEN p
    ELSE IF a.kind # "eose" \/ (p.state = "unmet" /\ pages > 0) THEN Stop(p, a)
    ELSE Digest(p, a, pg)

(* Nothing below a second its last page sat wholly at: whether that second *)
(* held more is not known.                                                 *)
Unsure(a) == {r \in Open(paging) : /\ a[r].kind = "eose" /\ Count(a[r]) = 0
                                   /\ paging[r].past # NoSecond
                                   /\ paging[r].pastSent > 1}

(* What comes next: the next page at a bound, or another request first. *)
NextPage(p, u) ==
    /\ paging' = p /\ until' = u /\ phase' = "page"
    /\ page' = {} /\ dropped' = FALSE /\ unsure' = {}

AskFirst(ph, p, pg, drop, uns) ==
    /\ paging' = p /\ until' = until /\ phase' = ph
    /\ page' = pg /\ dropped' = drop /\ unsure' = uns

(* Stuck at the bound: the second itself is probed. *)
Onward(p, pg, next) ==
    IF next # until THEN NextPage(p, next) ELSE AskFirst("stuck", p, pg, FALSE, {})

StepPast(p, s) ==
    [r \in Relay |-> IF r \in Open(p)
                     THEN [p[r] EXCEPT !.past = s, !.pastSent = p[r].largest] ELSE p[r]]

(* Mutant of Advance: the next page asks at the page's oldest second,      *)
(* whichever relay sent it.                                                *)
AdvanceAtOldest(p, pg, drop) ==
    LET top   == Max({At[e] : e \in pg})
        floor == Min({At[e] : e \in pg})
    IN CASE Open(p) = {} -> NextPage(p, until)
         [] Open(p) # {} /\ top = floor ->
              IF drop /\ until # top THEN NextPage(p, top)
              ELSE NextPage(StepPast(p, top), top - 1)
         [] Open(p) # {} /\ top # floor -> Onward(p, pg, floor)

(* The rest of a page's turn, once every relay's answer is digested. *)
Advance(p, pg, drop) ==
    LET top   == Max({At[e] : e \in pg})
        floor == Min({At[e] : e \in pg})
    IN CASE Open(p) = {} -> NextPage(p, until)
         [] Open(p) # {} /\ top = floor ->
              IF drop /\ until # top THEN NextPage(p, top)
              ELSE NextPage(StepPast(p, top), top - 1)
         [] Open(p) # {} /\ top # floor ->
              IF \E r \in Open(p) : p[r].reached > floor
              THEN AskFirst("above", p, pg, FALSE, {})
              ELSE Onward(p, pg, floor)

Asks(a) ==
    /\ pages' = pages + 1
    /\ silent' = silent \union Failed(a)
    /\ UNCHANGED <<relayVars, budget, stopped>>

-----------------------------------------------------------------------------
(* The read. *)

(* A page, asked of every relay. *)
AskPage ==
    /\ phase = "page" /\ ~Spent /\ Cardinality(seen) < MaxEvents
    /\ pages = 0 \/ Open(paging) # {}
    /\ \E a \in Replies(0, until) :
         LET p  == [r \in Relay |-> Reads(paging[r], a[r], AllOf(a))]
             drop == \E r \in Open(p) : a[r].sent \intersect Dropped # {}
         IN /\ Asks(a)
            /\ seen' = seen \union AllOf(a)
            /\ IF Unsure(a) # {}
               THEN AskFirst("sizes", p, AllOf(a), drop, Unsure(a))
               ELSE Advance(p, AllOf(a), drop)

(* Mutant of CutOff: the relay is cut off and the read does not say so. *)
CutOffSilently(p, S) ==
    [r \in Relay |-> IF r \in S THEN [p[r] EXCEPT !.state = "cut_off"] ELSE p[r]]

(* pageSizes: a relay that sends no more of the kinds alone than it sent   *)
(* of its last second is cut off; so are all when no request is left.      *)
CutOff(p, S) ==
    [r \in Relay |-> IF r \in S THEN [p[r] EXCEPT !.capped = TRUE, !.state = "cut_off"]
                     ELSE p[r]]

Size(r) == Min({Room(r), Cardinality(held[r]) + site[r].others})

AskSizes ==
    /\ phase = "sizes" /\ ~Spent
    /\ \E answered \in IF Lossy THEN SUBSET Relay ELSE {Relay} :
         /\ pages' = pages + 1
         /\ silent' = silent \union (Relay \ answered)
         /\ LET sure == {r \in unsure \intersect answered : Size(r) > paging[r].pastSent}
            IN Advance(CutOff(paging, unsure \ sure), page, dropped)
    /\ UNCHANGED <<relayVars, seen, budget, stopped>>

SizesUnasked ==
    /\ phase = "sizes" /\ Spent
    /\ Advance(CutOff(paging, unsure), page, dropped)
    /\ UNCHANGED <<relayVars, silent, seen, pages, budget, stopped>>

(* probe: what each relay still open sent in a window of seconds. *)
Probed(a) ==
    [r \in Relay |->
        LET p == paging[r] IN
        CASE p.state = "open" /\ a[r].kind = "eose" -> [p EXCEPT !.sent = @ \/ a[r].sent # {}]
          [] p.state = "open" /\ a[r].kind # "eose" -> Stop(p, a[r])
          [] p.state = "unmet" /\ a[r].kind # "absent" -> Stop(p, a[r])
          [] OTHER -> p]

(* The seconds above the page's oldest: a relay that sent its whole page   *)
(* there has not been read below its own oldest.                           *)
AskAbove ==
    LET floor == Min({At[e] : e \in page}) IN
    /\ phase = "above" /\ ~Spent
    /\ \E a \in Replies(floor + 1, until) :
         LET p     == Probed(a)
             above == {r \in Open(p) : Count(a[r]) >= p[r].largest}
             next  == IF above = {} THEN floor ELSE Max({p[r].reached : r \in above})
         IN /\ Asks(a)
            /\ seen' = seen \union AllOf(a)
            /\ Onward(p, page, next)

(* The second the read is stuck at: it steps past it. *)
AskStuck ==
    /\ phase = "stuck" /\ ~Spent
    /\ \E a \in Replies(until, until) :
         LET p == Probed(a)
             there(r) == /\ r \in Open(p) /\ p[r].reached = until
                         /\ Count(a[r]) >= p[r].largest
         IN /\ Asks(a)
            /\ seen' = seen \union AllOf(a)
            /\ NextPage([r \in Relay |->
                  IF there(r) THEN [p[r] EXCEPT !.past = until, !.pastSent = Count(a[r])]
                  ELSE p[r]], until - 1)

ProbeUnasked ==
    /\ phase \in {"above", "stuck"} /\ Spent
    /\ NextPage(paging, until)
    /\ UNCHANGED <<relayVars, silent, seen, pages, budget, stopped>>

(* The read is over: past a bound a relay still open is cut off, and so is *)
(* a complete one that declares a page below the one that ends a read.     *)
Finish ==
    LET bounded == Spent \/ Cardinality(seen) >= MaxEvents
        ends    == pages > 0 /\ Open(paging) = {}
    IN
    /\ phase = "page" /\ (ends \/ bounded)
    /\ phase' = "done"
    /\ stopped' = ~ends
    /\ paging' = [r \in Relay |->
         LET p == paging[r] IN
         CASE p.state = "open" -> [p EXCEPT !.state = "cut_off"]
           [] p.state = "complete" /\ p.sent /\ DeclaredShort(r) ->
                [p EXCEPT !.state = "cut_off", !.capped = TRUE]
           [] OTHER -> p]
    /\ UNCHANGED <<relayVars, silent, seen, pages, until, pageVars, budget>>

(* Other reads take the last requests of a shared budget. *)
BudgetSpent ==
    /\ budget /\ Lossy /\ phase # "done"
    /\ budget' = FALSE
    /\ UNCHANGED <<relayVars, silent, paging, seen, pages, until, phase, pageVars, stopped>>

Done == phase = "done" /\ UNCHANGED vars

Next ==
    \/ \E r \in Relay, e \in Event : Publish(r, e)
    \/ AskPage \/ AskSizes \/ SizesUnasked \/ AskAbove \/ AskStuck \/ ProbeUnasked
    \/ Finish \/ BudgetSpent \/ Done

Spec == Init /\ [][Next]_vars

-----------------------------------------------------------------------------
(* Properties. *)

Truncated == stopped \/ \E r \in Relay : paging[r].capped

TypeOK ==
    /\ site \in [Relay -> Site]
    /\ first \in [Relay -> SUBSET Event] /\ held \in [Relay -> SUBSET Event]
    /\ silent \subseteq Relay
    /\ paging \in [Relay -> Paging]
    /\ seen \subseteq Event \ Dropped
    /\ pages \in 0 .. MaxPages
    /\ until \in 0 .. Forever
    /\ phase \in Phase
    /\ page \subseteq Event /\ dropped \in BOOLEAN /\ unsure \subseteq Relay
    /\ budget \in BOOLEAN /\ stopped \in BOOLEAN

(* A relay whose read is complete sent all it held: "complete: it sent all *)
(* it holds for the filter", whatever the other relays hold and send, when *)
(* its cap is not below MIN_PAGE without its declaring so.                 *)
CompleteMeansAllRead ==
    phase = "done" =>
        \A r \in Relay : /\ paging[r].state = "complete"
                         /\ site[r].cap >= Short \/ site[r].declares
                         => first[r] \ Dropped \subseteq seen

(* A read that was not truncated ended on every relay that answered every  *)
(* request: no relay is cut off unless something says why.                 *)
UntruncatedMeansEnded ==
    phase = "done" /\ ~Truncated =>
        \A r \in Relay \ silent : paging[r].state = "complete"

(* A relay whose events no second holds a page of, that sends the reader   *)
(* nothing it drops, has more of the kinds to send and is published        *)
(* nothing while it is read, is read to its end whatever the others hold   *)
(* and are published: their floods cut off their own read only.            *)
SpreadRelayIsRead ==
    phase = "done" /\ ~stopped /\ ~Spent =>
        \A r \in Relay \ silent :
            /\ held[r] = first[r] /\ held[r] \intersect Dropped = {}
            /\ ~DeclaredShort(r)
            /\ site[r].others >= Room(r)
            /\ \A s \in 1 .. LastSecond : Cardinality({e \in held[r] : At[e] = s}) < Room(r)
            => paging[r].state = "complete"
=============================================================================

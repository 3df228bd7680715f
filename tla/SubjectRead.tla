------------------------------ MODULE SubjectRead ------------------------------
(***************************************************************************)
(* What the relays hold for one filter: readRelay and readSubject of       *)
(* relay-filter/src/paged-read.ts, by which the attestation index reads an *)
(* address.  Each relay is paged on a socket of its own, which may end at  *)
(* any frame, while events are published; a read of all is complete when   *)
(* the read floor of relays ended and none was cut off.                    *)
(*                                                                         *)
(* A relay's own cap is no smaller than a page, as paged-read.ts takes it  *)
(* to be (:5), and it drops nothing while it is read.                      *)
(***************************************************************************)
EXTENDS Integers, FiniteSetsExt

CONSTANTS
    Relay, Event,
    At,          \* the second each event is dated
    Contents,    \* what the relays may hold when the read begins
    PAGE_LIMIT, MAX_PAGES, WRITE_QUORUM,
    MaxLate      \* bound: events published meanwhile

VARIABLES
    holds,   \* what each relay holds
    before,  \* what it held when the read began
    page,    \* the pages it has answered
    until,   \* the oldest second it has sent
    events,  \* what it has sent
    state,   \* how its read ended
    late     \* how many events were published meanwhile

vars == <<holds, before, page, until, events, state, late>>

Newest == 1000  \* no `until` yet: after every second

Init ==
    /\ holds \in Contents /\ before = holds
    /\ page = [r \in Relay |-> 0] /\ until = [r \in Relay |-> Newest]
    /\ events = [r \in Relay |-> {}]
    /\ state = [r \in Relay |-> "reading"]
    /\ late = 0

-----------------------------------------------------------------------------
(* Mutant of Served: what is left is asked for below the oldest second.    *)
ServedBelow(r) == {e \in holds[r] : At[e] < until[r]}

(* What the next request asks for; `until` is inclusive.                   *)
Served(r) == {e \in holds[r] : At[e] <= until[r]}

(* The newest of it, up to a page; a relay breaks ties as it likes.        *)
Answers(r) ==
    {P \in kSubset(Min({PAGE_LIMIT, Cardinality(Served(r))}), Served(r)) :
        \A e \in P, f \in Served(r) \ P : At[e] >= At[f]}

Sends(r, some) ==
    /\ events' = [events EXCEPT ![r] = @ \union some]
    /\ until' = [until EXCEPT ![r] = Min({@} \union {At[e] : e \in some})]

Ends(r, how) == state' = [state EXCEPT ![r] = how]

(* EOSE after a whole page: a short one is the last; a full one with       *)
(* nothing new, or the last allowed, cuts the read off.                    *)
EndsPage(r) ==
    /\ state[r] = "reading"
    /\ page' = [page EXCEPT ![r] = @ + 1]
    /\ \E P \in Answers(r) :
        /\ Sends(r, P)
        /\ Ends(r, IF Cardinality(P) < PAGE_LIMIT THEN "complete"
                   ELSE IF P \subseteq events[r] \/ page'[r] >= MAX_PAGES THEN "cut_off"
                   ELSE "reading")
    /\ UNCHANGED <<holds, before, late>>

(* The deadline, CLOSED, an error or a drop, after part of a page.         *)
stop(r) ==
    /\ state[r] = "reading"
    /\ \E P \in Answers(r) : \E some \in SUBSET P : Sends(r, some)
    /\ Ends(r, IF events'[r] = {} THEN "no_answer" ELSE "cut_off")
    /\ UNCHANGED <<holds, before, page, late>>

Publish(r) ==
    /\ late < MaxLate /\ late' = late + 1
    /\ \E e \in Event \ holds[r] : holds' = [holds EXCEPT ![r] = @ \union {e}]
    /\ UNCHANGED <<before, page, until, events, state>>

Next == \E r \in Relay : EndsPage(r) \/ stop(r) \/ Publish(r)

Spec == Init /\ [][Next]_vars

-----------------------------------------------------------------------------
Ended(how) == {r \in Relay : state[r] = how}

floor == Max({1, Cardinality(Relay) - WRITE_QUORUM + 1})

(* readSubject's answer, once every relay's read has ended.                *)
complete == Ended("reading") = {} /\ Cardinality(Ended("complete")) >= floor /\ Ended("cut_off") = {}

(* A read that is called complete has every event that a write quorum of   *)
(* the relays held when it began, whatever shares its second, whichever    *)
(* relays stop at which frame and whatever is published meanwhile          *)
(* (paged-read.ts:117-121).                                                *)
CompleteMissesNoQuorum ==
    complete => \A e \in Event :
        Cardinality({r \in Relay : e \in before[r]}) >= WRITE_QUORUM
            => \E r \in Relay : e \in events[r]
=============================================================================

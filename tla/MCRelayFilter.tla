---------------------------- MODULE MCRelayFilter ----------------------------
(***************************************************************************)
(* What the relay filter knows: AttestationIndex, whose reads of an        *)
(* address are complete or not, or one such read, SubjectRead of three     *)
(* relays.  A behaviour is about one of them, chosen at the start.         *)
(***************************************************************************)
EXTENDS MCAttestationIndex

CONSTANTS
    Relay, Event, At, Contents, PAGE_LIMIT, MAX_PAGES, WRITE_QUORUM, MaxLate,
    r1, r2, r3, e1, e2, g2, h2, e3

VARIABLES subject, holds, before, page, until, events, state, late

Subject == INSTANCE SubjectRead

readVars == <<holds, before, page, until, events, state, late>>
filterVars == <<vars, subject, readVars>>

(* Three events of one second, one before it and one after; a relay holds  *)
(* none, a page of them or more, a second of which fills a page or not.    *)
MCAt == e1 :> 1 @@ e2 :> 2 @@ g2 :> 2 @@ h2 :> 2 @@ e3 :> 3
MCContents ==
    {r1 :> S @@ r2 :> T @@ r3 :> U :
        S \in {{e1, e3}, {e1, e2, g2}, {e1, g2, e3}, {e1, e2, g2, h2}},
        T \in {{}, {e1, g2, e3}}, U \in {{e1, e2, g2}}}

(* What the proofs ask of the constants: the relays and the events are     *)
(* finitely many, and no event is dated after every second.                *)
ASSUME SubjectAssumption ==
    /\ IsFiniteSet(Relay) /\ IsFiniteSet(Event)
    /\ At \in [Event -> 0 .. Subject!Newest] /\ Contents \subseteq [Relay -> SUBSET Event]
    /\ PAGE_LIMIT \in Nat /\ WRITE_QUORUM \in Int

NoIndex ==
    /\ held = {} /\ signed = [c \in Copy |-> "unchecked"]
    /\ bonds = [a \in Address |-> NoBond] /\ chainDown = {} /\ refused = {} /\ unread = {}
    /\ cover = 1 /\ refreshing = {} /\ due = {} /\ reads = [a \in Address |-> 0]
    /\ published = {} /\ ahead = Ahead /\ first = [a \in Address |-> {}] /\ answered = {}
NoRead ==
    /\ holds = [r \in Relay |-> {}] /\ before = holds /\ events = holds
    /\ page = [r \in Relay |-> 0] /\ until = page
    /\ state = [r \in Relay |-> "reading"] /\ late = 0

OfIndex(Step) == subject = "index" /\ Step /\ UNCHANGED <<subject, readVars>>

FilterInit ==
    \/ subject = "index" /\ Init /\ NoRead
    \/ subject = "read" /\ Subject!Init /\ NoIndex

FilterNext ==
    \/ OfIndex(Next)
    \/ subject = "read" /\ Subject!Next /\ UNCHANGED <<vars, subject>>

(* AttestationIndex's own.                                                 *)
FilterFairness ==
    /\ WF_filterVars(OfIndex(\E r \in refreshing : Sign(r) \/ Verify(r)))
    /\ \A a \in Address : SF_filterVars(OfIndex(SweepNext(a)))
    /\ WF_filterVars(OfIndex(\E a \in Address : ReadAnswers(a)))
    /\ WF_filterVars(OfIndex(Interval))

FilterSpec == FilterInit /\ [][FilterNext]_filterVars /\ FilterFairness

(* SubjectRead's own.                                                      *)
CompleteMissesNoQuorum == subject = "read" => Subject!CompleteMissesNoQuorum
=============================================================================

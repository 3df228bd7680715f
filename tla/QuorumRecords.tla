---------------------------- MODULE QuorumRecords ----------------------------
(***************************************************************************)
(* A revocation written with publishToQuorum (chat-core/src/read.ts) and   *)
(* read with recordReads (chat-core/src/records.ts).  The writer counts    *)
(* the reference relays that hold it; a reader asks its relays once and    *)
(* says "live" only at the read floor.  Relays answer both at any time, or *)
(* never, and some say OK and keep nothing.                                *)
(*                                                                         *)
(* The record is one revocation of one binding, told apart from nothing    *)
(* else a relay holds; how a relay is paged to its end is ReadPages.       *)
(***************************************************************************)
EXTENDS Integers, FiniteSets

CONSTANTS
    Relay,
    Reference,    \* reference: the relays a write is counted over
    Home,         \* to: the writer's own relays
    Asked,        \* the relays a lookup asks
    Forgetfuls,   \* which relays may be those that say OK and keep nothing
    Attempts,     \* attempts
    Reader        \* the recordReads objects, each with its one lookup

ASSUME RelayAssumption ==
    /\ IsFiniteSet(Relay)
    /\ Reference \subseteq Asked /\ Asked \subseteq Relay /\ Asked # {}
    /\ Home \subseteq Relay
    /\ \A S \in Forgetfuls : S \subseteq Relay

ASSUME WriterAssumption == Attempts \in Nat \ {0}

WRITE_QUORUM == 2

Ending  == {"complete", "capped", "stopped", "silent"}
Answer  == {"unasked", "asked"} \union Ending
Verdict == {"none", "unknown", "revoked", "live", "short"}
Stage   == {"idle", "publish", "acks", "readBack", "published", "not yet published"}

VARIABLES
    readsBack, \* whether the writer gave a readBack, or takes an OK
    forgetful, \* the relays that say OK and keep nothing
    store,   \* the relays that serve the record
    flight,  \* the relays it was sent to and is not at: on its way, refused or lost
    stage,   \* where publishToQuorum is
    attempt, \* i
    left,    \* the reference relays not counted yet
    ok,      \* the relays whose OK came in time
    held,    \* the reference relays counted
    answer,  \* how each relay answered a reader's lookup
    found,   \* whether the lookup returned the revocation
    verdict, \* what liveness said
    began,   \* history: the relays asked that served it when the lookup began
    after    \* history: whether the write had been reported published by then

options   == <<readsBack, forgetful>>
writeVars == <<stage, attempt, left, ok, held>>
relayVars == <<store, flight>>
readVars  == <<answer, found, verdict, began, after>>
vars == <<options, relayVars, writeVars, readVars>>

Unread == [r \in Asked |-> "unasked"]

(* A writer that takes an OK trusts the reference relays to keep what they *)
(* accept.                                                                 *)
Trusted == readsBack \/ forgetful \cap Reference = {}

Init ==
    /\ readsBack \in BOOLEAN /\ forgetful \in Forgetfuls /\ Trusted
    /\ store = {} /\ flight = {}
    /\ stage = "idle" /\ attempt = 0
    /\ left = {} /\ ok = {} /\ held = {}
    /\ answer = [q \in Reader |-> Unread]
    /\ found = [q \in Reader |-> FALSE]
    /\ verdict = [q \in Reader |-> "none"]
    /\ began = [q \in Reader |-> {}]
    /\ after = [q \in Reader |-> FALSE]

-----------------------------------------------------------------------------
(* The writer.                                                             *)

Start ==
    /\ stage = "idle"
    /\ stage' = "publish"
    /\ UNCHANGED <<attempt, left, ok, held, relayVars, readVars, options>>

(* Mutant of Publish: a write given up is sent again in the background.    *)
PublishOn ==
    /\ stage \in {"publish", "not yet published"}
    /\ left' = Reference \ held
    /\ flight' = flight \union left'
    /\ ok' = {}
    /\ stage' = "acks"
    /\ UNCHANGED <<attempt, held, store, readVars, options>>

(* The first attempt goes to every relay, a retry to those not counted.    *)
Publish ==
    /\ stage = "publish"
    /\ left' = Reference \ held
    /\ flight' = flight \union IF attempt = 0 THEN Home \union Reference ELSE left'
    /\ ok' = {}
    /\ stage' = "acks"
    /\ UNCHANGED <<attempt, held, store, readVars, options>>

(* The end of an attempt: enough relays counted, or another attempt left.  *)
SettleIf(enough, again) ==
    /\ stage' = IF enough THEN "published" ELSE IF again THEN "publish" ELSE "not yet published"
    /\ attempt' = IF ~enough /\ again THEN attempt + 1 ELSE attempt

Settle(h) == SettleIf(Cardinality(h) >= WRITE_QUORUM, attempt + 1 < Attempts)

Counted == IF readsBack THEN held ELSE held \union (left \cap ok)

(* publish returns: every relay sent OK, refused, or ran out of time.      *)
Acks ==
    /\ stage = "acks"
    /\ held' = Counted
    /\ IF readsBack /\ left # {}
         THEN stage' = "readBack" /\ UNCHANGED attempt
         ELSE Settle(held')
    /\ UNCHANGED <<left, ok, relayVars, readVars, options>>

(* One relay is asked alone; a read that fails does not count.             *)
Serves(r) == r \in store

ReadBack(r) ==
    /\ stage = "readBack" /\ r \in left
    /\ \/ held' = held
       \/ Serves(r) /\ held' = held \union {r}
    /\ left' = left \ {r}
    /\ IF left' = {} THEN Settle(held') ELSE UNCHANGED <<stage, attempt>>
    /\ UNCHANGED <<ok, relayVars, readVars, options>>

-----------------------------------------------------------------------------
(* The relays.                                                             *)

(* A relay says OK, heard if publish still waits; the OK may be lost.      *)
SaysOk(r) == \/ ok' = ok
             \/ stage = "acks" /\ ok' = ok \union {r}

Keep(r) ==
    /\ r \in flight \ forgetful
    /\ flight' = flight \ {r} /\ store' = store \union {r}
    /\ SaysOk(r)
    /\ UNCHANGED <<stage, attempt, left, held, readVars, options>>

Forget(r) ==
    /\ r \in flight \cap forgetful
    /\ flight' = flight \ {r}
    /\ SaysOk(r)
    /\ UNCHANGED <<stage, attempt, left, held, store, readVars, options>>

-----------------------------------------------------------------------------
(* The readers.                                                            *)

Look(q) ==
    /\ answer[q] = Unread /\ verdict[q] = "none"
    /\ answer' = [answer EXCEPT ![q] = [r \in Asked |-> "asked"]]
    /\ began' = [began EXCEPT ![q] = store \cap Asked]
    /\ after' = [after EXCEPT ![q] = stage = "published"]
    /\ UNCHANGED <<found, verdict, relayVars, writeVars, options>>

(* A relay paged to a short page sent all it holds; one that filled a page *)
(* or stopped may have sent the record; a silent one sent nothing.         *)
Sends(r, a) ==
    CASE a = "complete" -> {(r \in store)}
      [] a \in {"capped", "stopped"} -> {FALSE, (r \in store)}
      [] OTHER -> {FALSE}

RelayAnswers(q, r) ==
    /\ answer[q][r] = "asked"
    /\ \E a \in Ending : \E sent \in Sends(r, a) :
         /\ answer' = [answer EXCEPT ![q] = [@ EXCEPT ![r] = a]]
         /\ found' = [found EXCEPT ![q] = @ \/ sent]
    /\ UNCHANGED <<verdict, began, after, relayVars, writeVars, options>>

readState(a) == CASE a = "complete" -> "complete"
                  [] a \in {"capped", "stopped"} -> "cut_off"
                  [] OTHER -> "no_answer"

(* Mutant of Ended: what a cut-off relay sent is taken for all it holds.   *)
CutOffAnswers(q, s) ==
    {r \in Asked : IF s = "complete" THEN answer[q][r] \in {"complete", "capped", "stopped"}
                   ELSE s = "no_answer" /\ answer[q][r] = "silent"}

(* The relays whose read of the lookup ended as s.                         *)
Ended(q, s) == {r \in Asked : readState(answer[q][r]) = s}

readFloor(asked) == IF asked - WRITE_QUORUM + 1 > 1 THEN asked - WRITE_QUORUM + 1 ELSE 1

meetsReadFloor(q) ==
    /\ Ended(q, "cut_off") = {}
    /\ Cardinality(Ended(q, "complete")) >= readFloor(Cardinality(Asked))

(* Some relay sent EOSE, after a full page too.                            *)
Answered(q) == \E r \in Asked : answer[q][r] \in {"complete", "capped"}

(* What liveness says of the binding once the lookup has every answer.     *)
Liveness(q) ==
    IF ~Answered(q) THEN "unknown"
    ELSE IF found[q] THEN "revoked"
    ELSE IF meetsReadFloor(q) THEN "live" ELSE "short"

Judge(q) ==
    /\ verdict[q] = "none" /\ \A r \in Asked : answer[q][r] \in Ending
    /\ verdict' = [verdict EXCEPT ![q] = Liveness(q)]
    /\ UNCHANGED <<answer, found, began, after, relayVars, writeVars, options>>

-----------------------------------------------------------------------------
Next ==
    \/ Start \/ Publish \/ Acks
    \/ \E r \in Relay : ReadBack(r) \/ Keep(r) \/ Forget(r)
    \/ \E q \in Reader : Look(q) \/ Judge(q)
    \/ \E q \in Reader : \E r \in Asked : RelayAnswers(q, r)

Spec == Init /\ [][Next]_vars

-----------------------------------------------------------------------------
TypeOK ==
    /\ readsBack \in BOOLEAN /\ forgetful \subseteq Relay
    /\ store \subseteq Relay /\ flight \subseteq Relay
    /\ stage \in Stage /\ attempt \in 0 .. Attempts - 1
    /\ left \subseteq Reference /\ ok \subseteq Relay /\ held \subseteq Reference
    /\ answer \in [Reader -> [Asked -> Answer]]
    /\ found \in [Reader -> BOOLEAN]
    /\ verdict \in [Reader -> Verdict]
    /\ began \in [Reader -> SUBSET Asked]
    /\ after \in [Reader -> BOOLEAN]

(* A write reported published is served by WRITE_QUORUM of the reference   *)
(* relays, whatever was refused, lost or forgotten and however attempts    *)
(* overlapped with late deliveries (read.ts:130-146).                      *)
PublishedIsHeld ==
    stage = "published" => Cardinality(store \cap Reference) >= WRITE_QUORUM

(* A binding called live was served as revoked by fewer than WRITE_QUORUM  *)
(* of the relays asked when the lookup began: one silent or cut-off relay  *)
(* never hides what two hold (read.ts:79-87, records.ts:168-175).          *)
LiveMissesNoQuorum ==
    \A q \in Reader : verdict[q] = "live" => Cardinality(began[q]) < WRITE_QUORUM

(* The two together: no lookup begun after publishToQuorum returned        *)
(* "published" calls the binding live (read.ts:72-76).                     *)
RevocationHolds == \A q \in Reader : after[q] => verdict[q] # "live"

(* What the writer knows, of the steps publishToQuorum goes through.       *)
Known == CASE stage = "idle" -> "idle"
           [] stage \in {"published", "not yet published"} -> stage
           [] OTHER -> "writing"

Begun == [q \in Reader |-> IF answer[q] = Unread THEN "none"
                           ELSE IF after[q] THEN "after" ELSE "before"]

Promise == INSTANCE RevocationRecord WITH write <- Known, lookup <- Begun, said <- verdict

(* Relays, attempts, lost OKs and cut-off reads add up to what the writer  *)
(* and the readers were promised of one record: it is reported once, a     *)
(* lookup begun after "published" never says live, and none says revoked   *)
(* of a record that was never written (read.ts:130-176, records.ts:87-89). *)
KeepsPromise == Promise!Spec

=============================================================================

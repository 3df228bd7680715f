----------------------------- MODULE PledgeState -----------------------------
(***************************************************************************)
(* classifyState of pledge-core/src/state.ts: what a pledge is, from the   *)
(* outcomes, the abandonment and the clock of whoever asks.  Outcomes are  *)
(* heard in any order and date themselves as their signers like; each is   *)
(* of this pledge and signed by whom it names, its resolver or not.        *)
(*                                                                         *)
(* A pledge that resolves at a block does once the chain the caller passes *)
(* has it; the block's own time is taken to be past by then.               *)
(***************************************************************************)
EXTENDS Integers, Sequences, Functions

CONSTANTS
    Resolves,  \* resolves_at, when it is a time
    Expires,   \* expires_at
    Windows,   \* dispute_window_ends_at of the outcomes
    LastTime,  \* bound: when the clock stops
    MaxHeard   \* bound: outcomes heard

VARIABLES
    mechanism, \* resolution.mechanism
    disputes,  \* whether the pledge has a dispute mechanism
    atBlock,   \* whether resolves_at is a block
    now,
    mined,     \* whether the chain passed has that block
    heard,     \* the outcomes, in the order they are passed
    abandoned  \* whether the swearer's abandonment is passed

pledge == <<mechanism, disputes, atBlock>>
vars == <<pledge, now, mined, heard, abandoned>>

Signer  == {"counterparty", "swearer", "deterministic"}
Outcome == [by : Signer, says : {"kept", "broken"}, at : 0 .. LastTime, window : Windows]
Status  == {"pending", "resolvable", "kept", "broken", "disputed", "expired_unresolved"}

-----------------------------------------------------------------------------
(* Mutant of InForce: a signed outcome counts however late it is dated.    *)
InForceLate(o) == o.at <= now

(* Not dated ahead of the clock, and if it is signed before expires_at.    *)
InForce(o) == o.at <= now /\ (o.by # "deterministic" => o.at < Expires)

Settles(o) ==
    o.by = IF mechanism = "counterparty_signs" THEN "counterparty" ELSE "deterministic"

CounterClaims(o) == mechanism = "counterparty_signs" /\ o.by = "swearer"

Settling(s) == {i \in DOMAIN s : InForce(s[i]) /\ Settles(s[i])}

(* Mutant of Earliest: the first one passed settles.                       *)
FirstPassed(s) == CHOOSE i \in Settling(s) : \A j \in Settling(s) : i <= j

(* The earliest settling outcome; the first one passed of two at one time. *)
Earliest(s) ==
    CHOOSE i \in Settling(s) : \A j \in Settling(s) :
        s[i].at < s[j].at \/ (s[i].at = s[j].at /\ i <= j)

(* An outcome in force disputes the settling one: the swearer's always,    *)
(* the resolver's own only when dated before the window ends.              *)
Disputes(other, o) ==
    /\ other.says # o.says
    /\ CounterClaims(other) \/ (Settles(other) /\ other.at < o.window)

(* A dispute nothing can settle times out at expires_at.                   *)
Disputed == IF ~disputes /\ now >= Expires THEN "expired_unresolved" ELSE "disputed"

ByTime ==
    IF now >= Expires THEN "expired_unresolved"
    ELSE IF IF atBlock THEN mined ELSE now >= Resolves THEN "resolvable" ELSE "pending"

classifyState(s) ==
    IF abandoned THEN "broken"
    ELSE IF Settling(s) = {} THEN ByTime
    ELSE LET o == s[Earliest(s)] IN
         IF \E j \in DOMAIN s : InForce(s[j]) /\ Disputes(s[j], o) THEN Disputed ELSE o.says

status == classifyState(heard)

-----------------------------------------------------------------------------
Init ==
    /\ mechanism \in {"counterparty_signs", "deterministic"}
    /\ disputes \in BOOLEAN /\ atBlock \in BOOLEAN
    /\ now = 0 /\ mined = FALSE
    /\ heard = <<>> /\ abandoned = FALSE

Hear(o) ==
    /\ Len(heard) < MaxHeard
    /\ heard' = Append(heard, o)
    /\ UNCHANGED <<pledge, now, mined, abandoned>>

Abandon ==
    /\ ~abandoned /\ abandoned' = TRUE
    /\ UNCHANGED <<pledge, now, mined, heard>>

Mine ==
    /\ atBlock /\ ~mined /\ mined' = TRUE
    /\ UNCHANGED <<pledge, now, heard, abandoned>>

Tick ==
    /\ now < LastTime /\ now' = now + 1
    /\ UNCHANGED <<pledge, mined, heard, abandoned>>

Next ==
    \/ \E o \in Outcome : Hear(o)
    \/ Abandon \/ Mine \/ Tick

Spec == Init /\ [][Next]_vars

-----------------------------------------------------------------------------
TypeOK ==
    /\ heard \in Seq(Outcome) /\ Len(heard) <= MaxHeard
    /\ now \in 0 .. LastTime
    /\ mined \in BOOLEAN /\ abandoned \in BOOLEAN
    /\ status \in Status

Last(s) == s[Len(s)]

Reordered(s) == {[i \in DOMAIN s |-> s[p[i]]] : p \in Bijection(DOMAIN s, DOMAIN s)}

(* The comment of classifyState: "the order the caller passes them in must *)
(* not change the state (same inputs, same classification)"                *)
(* (state.ts:59-60; README.md:164, "in any order").                        *)
OrderDoesNotMatter == \A s \in Reordered(heard) : classifyState(s) = status

(* The order outcomes are passed in tells apart only settling outcomes     *)
(* dated at one second: with those apart, it never changes the state.      *)
OrderOnlyBreaksTies ==
    (\A i, j \in Settling(heard) : heard[i].at = heard[j].at => heard[i] = heard[j])
        => OrderDoesNotMatter

(* The swearer never gets a pledge out of what it is but into a dispute,   *)
(* or into what a dispute times out to: no counter-claim settles, and none *)
(* undoes one (state.ts:44-48, 83-87).                                     *)
SwearerOnlyDisputes ==
    [][heard' # heard /\ Last(heard').by = "swearer" => status' \in {status, Disputed}]_vars

(* Once a pledge that its counterparty settles has expired, time alone     *)
(* does not change what it is: nothing already heard comes into force      *)
(* later (state.ts:35-43).                                                 *)
ExpiryIsFinal ==
    [][Tick /\ now >= Expires /\ mechanism = "counterparty_signs" => status' = status]_vars

(* At expires_at a pledge is decided, and one that nothing can settle a    *)
(* dispute of is not disputed (state.ts:94-101, 118-120).                  *)
ExpiryDecides ==
    now >= Expires => status \notin {"pending", "resolvable"}
                      /\ (~disputes => status # "disputed")

(* When the window of the settling outcome has closed, its resolver's      *)
(* later outcomes change nothing (state.ts:83-93).                         *)
WindowCloses ==
    [][heard' # heard /\ Settles(Last(heard')) /\ Settling(heard) # {}
       => LET o == Last(heard')  settling == heard[Earliest(heard)] IN
          o.at > settling.at /\ o.at >= settling.window => status' = status]_vars

=============================================================================

------------------------------ MODULE DecisionCache ------------------------------
(***************************************************************************)
(* Who is let in: filterEvent of relay-filter/src/filter.ts or assertOc of *)
(* gate/src/core.ts, over their TtlLru caches.  Callers look a key up and  *)
(* answers come in any order, while its bond is spent and the chain API    *)
(* refuses, is cut short or fails.  The gate gives a lookup up at its      *)
(* deadline; the filter's ends by the SDK's own, taken to be as long.      *)
(*                                                                         *)
(* Keys share nothing but the room in the cache: the model is of one, and  *)
(* its entry may be evicted for others' at any time.  The options of the   *)
(* callers differ in failOpen alone, which is no part of the signature the *)
(* filter's callers share a cache by; the gate's share one options object. *)
(***************************************************************************)
EXTENDS Integers

CONSTANTS
    Caller,
    Opens,    \* the filter's callers that pass failOpen, when some do
    Ttl,      \* cacheTtlMs
    ErrorTtl, \* LOOKUP_ERROR_TTL_MS
    Deadline, \* lookupTimeoutMs
    LastTime  \* bound: when the clock stops

Never == -99   \* a time before any other

VARIABLES
    gate,       \* the gate, or the filter
    failOpen,   \* the callers that pass it
    entry,      \* the cache's entry of the key: its decision, and until when
    now,
    bonded,     \* whether the key's bond stands
    lastBonded, \* when it last stood
    lastDown,   \* when a lookup last failed
    call        \* callers: the decision being made, or made last

config == <<gate, failOpen>>
clock  == <<now, bonded, lastBonded>>
vars   == <<config, entry, clock, lastDown, call>>

Faults   == {"refused", "incomplete", "down"}
Decision == {"ok", "bad", "refused", "incomplete", "fail_open", "error", "timeout"}
NoEntry  == [says |-> "nothing", expires |-> Never]
Done(d)  == [step |-> "done", says |-> d]

Init ==
    /\ gate \in BOOLEAN
    /\ failOpen \in {{}, IF gate THEN Caller ELSE Opens}
    /\ entry = NoEntry /\ now = 0
    /\ bonded \in BOOLEAN /\ lastBonded = IF bonded THEN 0 ELSE Never
    /\ lastDown = Never
    /\ call = [c \in Caller |-> [step |-> "idle"]]

Looking(c) == call[c].step \in {"looking", "read"}
Due(c) == Looking(c) /\ now = call[c].started + Deadline

-----------------------------------------------------------------------------
(* Time, the chain and the other keys.                                     *)

Move ==
    /\ bonded' = ~bonded /\ lastBonded' = now
    /\ UNCHANGED <<config, entry, now, lastDown, call>>

Tick ==
    /\ now < LastTime /\ \A c \in Caller : ~Due(c)
    /\ now' = now + 1
    /\ lastBonded' = IF bonded THEN now' ELSE lastBonded
    /\ UNCHANGED <<config, entry, bonded, lastDown, call>>

Evict ==
    /\ entry # NoEntry /\ entry' = NoEntry
    /\ UNCHANGED <<config, clock, lastDown, call>>

-----------------------------------------------------------------------------
(* Mutant of Fresh: an entry stays until it is evicted.                    *)
NeverStale == entry # NoEntry

Fresh == now <= entry.expires

(* A caller asks: of the cache, which drops what has expired, else of the  *)
(* chain.                                                                  *)
Ask(c) ==
    /\ ~Looking(c)
    /\ call' = [call EXCEPT ![c] =
         IF Fresh THEN Done(entry.says) ELSE [step |-> "looking", started |-> now]]
    /\ entry' = IF Fresh THEN entry ELSE NoEntry
    /\ UNCHANGED <<config, clock, lastDown>>

Reads(c) ==
    /\ call[c].step = "looking"
    /\ \E v \in {IF bonded THEN "ok" ELSE "bad"} \union Faults :
         call' = [call EXCEPT ![c] = [step |-> "read", started |-> @.started, read |-> v]]
    /\ UNCHANGED <<config, entry, clock, lastDown>>

(* Mutant of Decided: whatever keeps the chain from being read fails open. *)
DecidedOpen(c, v) ==
    IF v \in {"ok", "bad"} THEN v ELSE IF c \in failOpen THEN "fail_open" ELSE "error"

(* failOpen covers a chain that is down, never one that answered.          *)
Decided(c, v) ==
    CASE v = "down"       -> IF c \in failOpen THEN "fail_open" ELSE "error"
      [] v = "incomplete" -> IF gate THEN "error" ELSE "incomplete"
      [] OTHER            -> v

(* The filter keeps what is no verdict for a moment, the gate not at all.  *)
Kept(d) ==
    IF d \in {"ok", "bad"} THEN [says |-> d, expires |-> now + Ttl]
    ELSE IF gate THEN entry ELSE [says |-> d, expires |-> now + ErrorTtl]

Answers(c) ==
    LET d == Decided(c, call[c].read) IN
    /\ call[c].step = "read"
    /\ call' = [call EXCEPT ![c] = Done(d)]
    /\ entry' = Kept(d)
    /\ lastDown' = IF call[c].read = "down" THEN now ELSE lastDown
    /\ UNCHANGED <<config, clock>>

(* The gate's deadline: closed, and what is read later is dropped.         *)
TimesOut(c) ==
    /\ gate /\ Due(c)
    /\ call' = [call EXCEPT ![c] = Done("timeout")]
    /\ UNCHANGED <<config, entry, clock, lastDown>>

Next ==
    \/ Move \/ Tick \/ Evict
    \/ \E c \in Caller : Ask(c)
    \/ \E c \in Caller : Reads(c)
    \/ \E c \in Caller : Answers(c)
    \/ \E c \in Caller : TimesOut(c)

Spec == Init /\ [][Next]_vars

-----------------------------------------------------------------------------
TypeOK ==
    /\ now \in 0 .. LastTime /\ lastBonded \in {Never} \union 0 .. now
    /\ lastDown \in {Never} \union 0 .. now
    /\ entry = NoEntry \/ entry.says \in Decision
    /\ entry.expires <= now + Ttl \/ entry.expires <= now + ErrorTtl
    /\ \A c \in Caller : /\ call[c].step = "done" => call[c].says \in Decision
                         /\ Looking(c) => now \in call[c].started .. call[c].started + Deadline

Serves(c, d) == call'[c] # call[c] /\ call'[c] = Done(d)

(* Whoever is let in by a verdict had a bond at most one lookup and one    *)
(* stay in the cache ago, however lookups of one key race and answer out   *)
(* of order (filter.ts:15-20).                                             *)
AllowIsRecent ==
    [][\A c \in Caller : Serves(c, "ok") => lastBonded >= now - Ttl - Deadline]_vars

(* Whoever is let in without a verdict is let in because a lookup of the   *)
(* key failed a moment before, and by the gate only because his own did:   *)
(* no refusal, no read cut short and no deadline of the gate's opens       *)
(* (filter.ts:125-158, core.ts:331-381).                                   *)
FailOpenIsBrief ==
    [][\A c \in Caller : Serves(c, "fail_open")
           => lastDown' >= now - (IF gate THEN 0 ELSE ErrorTtl)]_vars

(* FilterOptions.failOpen: "Default `false`, we fail closed"               *)
(* (types.ts:46-47): a caller that does not pass it lets nobody in while   *)
(* the verifier is unreachable.                                            *)
ClosedByDefault ==
    [][\A c \in Caller : Serves(c, "fail_open") => c \in failOpen]_vars
=============================================================================

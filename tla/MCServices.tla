------------------------------ MODULE MCServices ------------------------------
(***************************************************************************)
(* What clients make of services that fail: VaultPull of three blobs by    *)
(* two workers, StampUpgrade with three calendars, DecisionCache with two  *)
(* callers, or TabSession with one tab of two accounts, whose operations   *)
(* overlap.  The four share nothing: a behaviour is about one of them,     *)
(* chosen at the start.                                                    *)
(***************************************************************************)
EXTENDS Integers, FiniteSets, TLC

CONSTANTS
    Blob, Concurrency, MaxChanges, MaxPulls,
    Calendar, MinSuccesses, Height,
    Caller, Opens, Ttl, ErrorTtl, Deadline, LastTime,
    Tab, Account, Token, Owner, Slot, Pinner, Hint, Overlap, MaxLoads, NoValue

CONSTANTS A, B, a1, b1

VARIABLES
    subject,
    stored, gone, refs, listed, cursor, at, out, failed, refused, result, cache, changes, pulls,
    block, shown, status, receipts, merged, blockHeight, doing, answer, ripe, told,
    gate, failOpen, entry, now, bonded, lastBonded, lastDown, call,
    honours, cookie, live, issued, pin, page, pageStatus, tabPinned, task, loads

Vault == INSTANCE VaultPull
Stamp == INSTANCE StampUpgrade
Cache == INSTANCE DecisionCache
Tabs  == INSTANCE TabSession WITH shown <- page, status <- pageStatus, None <- NoValue

vaultVars == <<stored, gone, refs, listed, cursor, at, out, failed, refused, result, cache, changes, pulls>>
stampVars == <<block, shown, status, receipts, merged, blockHeight, doing, answer, ripe, told>>
cacheVars == <<gate, failOpen, entry, now, bonded, lastBonded, lastDown, call>>
tabVars   == <<honours, cookie, live, issued, pin, page, pageStatus, tabPinned, task, loads>>
vars == <<subject, vaultVars, stampVars, cacheVars, tabVars>>

MCOwner == a1 :> A @@ b1 :> B

(* What the proofs ask of the constants: a vault is finite, no block is at *)
(* height None and no submission does without a receipt, times are lengths.*)
VaultBounds == IsFiniteSet(Blob) /\ Concurrency \in Nat
StampBounds == Height \subseteq Nat \ {0} /\ MinSuccesses \in Nat \ {0}
CacheTimes  == Ttl \in Nat /\ ErrorTtl \in Nat /\ Deadline \in Nat /\ LastTime \in Nat

ASSUME ServicesAssumption == VaultBounds /\ StampBounds /\ CacheTimes

NoVault ==
    /\ stored = [b \in Blob |-> 0] /\ gone = {} /\ refs = <<>> /\ listed = stored /\ cursor = 0
    /\ at = [w \in 1 .. Concurrency |-> 0] /\ out = stored /\ failed = {} /\ refused = FALSE
    /\ result = "none" /\ cache = stored /\ changes = 0 /\ pulls = 0
NoStamp ==
    /\ block = [c \in Calendar |-> 0] /\ shown = {} /\ status = "none" /\ receipts = {}
    /\ merged = {} /\ blockHeight = 0 /\ doing = "idle" /\ answer = [c \in Calendar |-> "none"]
    /\ ripe = FALSE /\ told = "nothing"
NoCache ==
    /\ gate = FALSE /\ failOpen = {} /\ entry = Cache!NoEntry /\ now = 0 /\ bonded = FALSE
    /\ lastBonded = Cache!Never /\ lastDown = Cache!Never
    /\ call = [c \in Caller |-> [step |-> "idle"]]
NoTab == Tabs!Init /\ honours = FALSE

Init ==
    \/ subject = "vault" /\ Vault!Init /\ NoStamp /\ NoCache /\ NoTab
    \/ subject = "stamp" /\ Stamp!Init /\ NoVault /\ NoCache /\ NoTab
    \/ subject = "cache" /\ Cache!Init /\ NoVault /\ NoStamp /\ NoTab
    \/ subject = "tab" /\ Tabs!Init /\ NoVault /\ NoStamp /\ NoCache

OfStamp(Step) == subject = "stamp" /\ Step /\ UNCHANGED <<subject, vaultVars, cacheVars, tabVars>>
OfTab(Step)   == subject = "tab" /\ Step /\ UNCHANGED <<subject, vaultVars, stampVars, cacheVars>>

Next ==
    \/ subject = "vault" /\ Vault!Next /\ UNCHANGED <<subject, stampVars, cacheVars, tabVars>>
    \/ OfStamp(Stamp!Next)
    \/ subject = "cache" /\ Cache!Next /\ UNCHANGED <<subject, vaultVars, stampVars, tabVars>>
    \/ OfTab(Tabs!Next)

(* StampUpgrade's own, and TabSession's.                                   *)
Fairness ==
    /\ \A c \in Calendar : WF_vars(OfStamp(Stamp!Fails(c)))
    /\ WF_vars(OfStamp(Stamp!Begin)) /\ WF_vars(OfStamp(Stamp!Submitted))
    /\ SF_vars(OfStamp(Stamp!Upgraded))
    /\ \A t \in Tab, k \in Slot :
         WF_vars(OfTab(Tabs!MeFails(t, k))) /\ WF_vars(OfTab(Tabs!Resumes(t, k)))

Spec == Init /\ [][Next]_vars /\ Fairness

(* Their properties, as each module states them.                           *)
PullIsWhole == Vault!PullIsWhole

OnlyDeletedIsLost    == Vault!OnlyDeletedIsLost
AnchoredIsNotPending == Stamp!AnchoredIsNotPending
AllowIsRecent        == Cache!AllowIsRecent
FailOpenIsBrief      == Cache!FailOpenIsBrief
=============================================================================

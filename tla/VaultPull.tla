------------------------------- MODULE VaultPull -------------------------------
(***************************************************************************)
(* A pull of the vault: fetchBlobs of vault-core/src/sync.ts, and the      *)
(* cache that vault-cli keeps of what it returns.  Workers take the listed *)
(* blobs from one cursor; meanwhile other devices write and delete blobs,  *)
(* and any fetch may fail, be refused or find its blob gone.               *)
(*                                                                         *)
(* A worker's next blob is taken in the turn that settles its last one.    *)
(* NotSignedIn and SyncNotPaid go one way: they are "refused".             *)
(***************************************************************************)
EXTENDS Integers, Sequences, FiniteSets, SequencesExt

CONSTANTS
    Blob,
    Concurrency, \* the fetches at once
    MaxChanges, \* bound: writes and deletions by other devices
    MaxPulls    \* bound: pulls

Worker == 1 .. Concurrency

None == 0

VARIABLES
    stored, \* blobs: the version the server has, or None
    gone,   \* blobs deleted since the listing
    refs,   \* the listing
    listed, \* blobs: the version listed
    cursor, \* refs taken
    at,     \* workers: the ref being fetched, or None
    out,    \* blobs: the version fetched, or None
    failed, \* the refs that could not be read, and why
    refused, \* whether a session's end was met
    result, \* of the last pull
    cache,  \* blobs: the version the CLI keeps
    changes, pulls \* how many there were

server == <<stored, gone, changes>>
pull   == <<refs, listed, cursor, at, out, failed, refused, result, cache>>
vars   == <<server, pull, pulls>>

Nothing == [b \in Blob |-> None]

(* The cache is as login left it.                                          *)
Init ==
    /\ stored \in [Blob -> {None, 1}] /\ gone = {}
    /\ refs = <<>> /\ listed = Nothing /\ cursor = 0
    /\ at = [w \in Worker |-> None]
    /\ out = Nothing /\ failed = {} /\ refused = FALSE
    /\ result = "none" /\ cache = stored
    /\ changes = 0 /\ pulls = 0

Pulling == result = "pulling"

-----------------------------------------------------------------------------
(* Other devices, until the last pull ends.                                *)

Change ==
    /\ Pulling \/ pulls < MaxPulls
    /\ changes < MaxChanges /\ changes' = changes + 1
    /\ UNCHANGED <<pull, pulls>>

Put(b) ==
    /\ Change
    /\ stored' = [stored EXCEPT ![b] = @ + 1] /\ UNCHANGED gone

Delete(b) ==
    /\ stored[b] # None /\ Change
    /\ stored' = [stored EXCEPT ![b] = None] /\ gone' = gone \union {b}

-----------------------------------------------------------------------------
(* fetchBlobs.                                                             *)

(* Mutant of Outcome: what could be read is returned.                      *)
WhatWasRead(no, bad) == IF no THEN "refused" ELSE "whole"

Outcome(no, bad) == IF no THEN "refused" ELSE IF bad # {} THEN "unread" ELSE "whole"

(* Mutant of Kept: what a pull could read replaces the cache.              *)
KeptPartly(res) == IF res \in {"whole", "unread"} THEN out' ELSE cache

(* pullCache: what is returned is written; of what is thrown, nothing.     *)
Kept(res) == IF res = "whole" THEN out' ELSE cache

(* listBlobs, and the workers' first refs.                                 *)
Begin ==
    /\ ~Pulling /\ pulls < MaxPulls /\ pulls' = pulls + 1
    /\ refs' = SetToSeq({b \in Blob : stored[b] # None})
    /\ listed' = stored /\ gone' = {}
    /\ at' = [w \in Worker |-> IF w <= Len(refs') THEN w ELSE None]
    /\ cursor' = Cardinality({w \in Worker : at'[w] # None})
    /\ out' = Nothing /\ failed' = {} /\ refused' = FALSE
    /\ result' = IF refs' = <<>> THEN "whole" ELSE "pulling"
    /\ cache' = Kept(result')
    /\ UNCHANGED <<stored, changes>>

(* A worker takes the next ref; the last one to stop ends the pull.        *)
Takes(w) ==
    /\ at' = [at EXCEPT ![w] = IF cursor < Len(refs) THEN cursor + 1 ELSE None]
    /\ cursor' = IF cursor < Len(refs) THEN cursor + 1 ELSE cursor
    /\ result' = IF \A v \in Worker : at'[v] = None THEN Outcome(refused', failed') ELSE result
    /\ cache' = Kept(result')
    /\ UNCHANGED <<server, refs, listed, pulls>>

(* fetchBlob: the blob, or null when it is gone.                           *)
Fetched(w) ==
    /\ at[w] # None
    /\ out' = [out EXCEPT ![refs[at[w]]] = stored[refs[at[w]]]]
    /\ UNCHANGED <<failed, refused>>
    /\ Takes(w)

Fails(w, why) ==
    /\ at[w] # None
    /\ failed' = failed \union {[ref |-> at[w], reason |-> why]}
    /\ refused' = (refused \/ why = "refused")
    /\ UNCHANGED out
    /\ Takes(w)

Next ==
    \/ \E b \in Blob : Put(b)
    \/ \E b \in Blob : Delete(b)
    \/ Begin
    \/ \E w \in Worker : Fetched(w)
    \/ \E w \in Worker, why \in {"failed", "refused"} : Fails(w, why)

Spec == Init /\ [][Next]_vars

-----------------------------------------------------------------------------
TypeOK ==
    /\ cursor \in 0 .. Len(refs) /\ at \in [Worker -> 0 .. Len(refs)]
    /\ \A f \in failed : f.ref \in 1 .. cursor
    /\ {stored, listed, out, cache} \subseteq [Blob -> 0 .. MaxChanges + 1]
    /\ result \in {"none", "pulling", "whole", "unread", "refused"}

(* A pull that returns has each listed blob as it was listed or later,     *)
(* unless it was deleted since, whatever the workers met and in whatever   *)
(* order: a partial pull is never taken for the vault (sync.ts:163-170).   *)
PullIsWhole ==
    result = "whole" => \A b \in ToSet(refs) : out[b] >= listed[b] \/ b \in gone

(* A session's end, or unpaid sync, met partway is what the pull throws,   *)
(* among whatever other failures (sync.ts:168-170).                        *)
RefusalIsSaid ==
    result \in {"whole", "unread"} => \A f \in failed : f.reason = "failed"

(* The cache loses a blob only to its deletion, however many pulls fail    *)
(* partway (vault-cli/src/cli.ts:49-56).                                   *)
OnlyDeletedIsLost ==
    [][\A b \in Blob : cache[b] # None /\ cache'[b] = None
           => stored[b] = None \/ b \in gone \/ listed[b] = None]_vars
=============================================================================

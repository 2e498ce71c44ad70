------------------------------ MODULE SharedCache ------------------------------
(***************************************************************************)
(* The shared cache (drivers/cache/redis.cache.ts) around one key, and     *)
(* the admin writes that invalidate it (catalogCache.service.ts). A read   *)
(* that misses builds the value from the database and stores it only while *)
(* the epoch it read first is current; an invalidation advances the epoch, *)
(* deletes, and confirms. An invalidation that fails is remembered by its  *)
(* process alone, whose reads miss until a replay of it succeeds.          *)
(*                                                                         *)
(* The value of the key is the version of the row it is built from. Redis  *)
(* keeps the epoch: it is neither evicted nor lost with a restart.         *)
(***************************************************************************)
EXTENDS Naturals, FiniteSets

CONSTANTS
    CacheWorkers,  \* processes
    SweepSlots,    \* invalidations a process may have in progress
    SweepsFail,    \* "never", "alone": while its process runs no other one, or "any"
    MaxVersions,   \* bound on writes
    MaxEpochs      \* bound on epochs

Uncached == 0

ASSUME CacheAssumption ==
    /\ SweepsFail \in {"never", "alone", "any"}
    /\ MaxVersions \in Nat /\ MaxEpochs \in Nat

VARIABLES
    version,      \* of the row in the database
    epoch,        \* Redis: advanced by every invalidation
    entry,        \* Redis: the cached version, or Uncached
    unconfirmed,  \* processes whose invalidation Redis never confirmed
    owing,        \* processes with a committed write that is not yet invalidated
    batch,        \* processes with an invalidation that starts in the next tick
    sweep,        \* invalidations in progress
    fill          \* the read that builds the value, one per process

cacheVars == <<version, epoch, entry, unconfirmed, owing, batch, sweep, fill>>

NoSweep == [step |-> "idle", replay |-> FALSE]
NoFill == [step |-> "idle", epoch |-> 0, value |-> Uncached]

CacheTypeOK ==
    /\ version \in 1..(MaxVersions + 1) /\ epoch \in 0..MaxEpochs /\ entry \in 0..version
    /\ unconfirmed \subseteq CacheWorkers /\ owing \subseteq CacheWorkers /\ batch \subseteq CacheWorkers
    /\ \A p \in CacheWorkers :
         /\ fill[p].step \in {"idle", "epoch", "build", "store", "eval"} /\ fill[p].value \in 0..version
         /\ \A s \in SweepSlots : sweep[p][s].step \in {"idle", "advance", "unlink", "confirm"}

CacheInit ==
    /\ version = 1 /\ epoch = 0 /\ entry = Uncached
    /\ unconfirmed = {} /\ owing = {} /\ batch = {}
    /\ sweep = [p \in CacheWorkers |-> [s \in SweepSlots |-> NoSweep]]
    /\ fill = [p \in CacheWorkers |-> NoFill]

Sweeping(p) == {s \in SweepSlots : sweep[p][s].step # "idle"}
SweepTo(p, s, step) == sweep' = [sweep EXCEPT ![p][s].step = step]
SweepEnds(p, s) == sweep' = [sweep EXCEPT ![p][s] = NoSweep]
FillTo(p, step) == fill' = [fill EXCEPT ![p].step = step]
FillEnds(p) == fill' = [fill EXCEPT ![p] = NoFill]

-------------------------------------------------------------------------------
(* A write, and the invalidation it asks for: requests of one tick share one. *)

\* A process commits no second write before it invalidated the first: as good as one write.
CommitWrite(p) ==
    /\ version <= MaxVersions
    /\ p \notin owing
    /\ version' = version + 1
    /\ owing' = owing \cup {p}
    /\ UNCHANGED <<epoch, entry, unconfirmed, batch, sweep, fill>>

DelByPrefix(p) ==
    /\ p \in owing
    /\ owing' = owing \ {p}
    /\ batch' = batch \cup {p}
    /\ UNCHANGED <<version, epoch, entry, unconfirmed, sweep, fill>>

StartBatch(p, s) ==
    /\ p \in batch /\ s \notin Sweeping(p)
    /\ batch' = batch \ {p}
    /\ SweepTo(p, s, "advance")
    /\ UNCHANGED <<version, epoch, entry, unconfirmed, owing, fill>>

\* replay(): what Redis did not confirm is swept again, one replay at a time. A read
\* under it starts one, and so does a new connection.
StartReplay(p, s) ==
    /\ p \in unconfirmed /\ s \notin Sweeping(p)
    /\ \A other \in SweepSlots : ~sweep[p][other].replay
    /\ sweep' = [sweep EXCEPT ![p][s] = [step |-> "advance", replay |-> TRUE]]
    /\ UNCHANGED <<version, epoch, entry, unconfirmed, owing, batch, fill>>

-------------------------------------------------------------------------------
(* sweep() *)

AdvanceEpoch(p, s) ==
    /\ sweep[p][s].step = "advance"
    /\ epoch < MaxEpochs
    /\ epoch' = epoch + 1
    /\ SweepTo(p, s, "unlink")
    /\ UNCHANGED <<version, entry, unconfirmed, owing, batch, fill>>

Unlink(p, s) ==
    /\ sweep[p][s].step = "unlink"
    /\ entry' = Uncached
    /\ SweepTo(p, s, "confirm")
    /\ UNCHANGED <<version, epoch, unconfirmed, owing, batch, fill>>

Confirm(p, s) ==
    /\ sweep[p][s].step = "confirm"
    /\ unconfirmed' = unconfirmed \ {p}
    /\ SweepEnds(p, s)
    /\ UNCHANGED <<version, epoch, entry, owing, batch, fill>>

\* A command fails, or times out after it took effect.
SweepFails(p, s) ==
    /\ sweep[p][s].step \in {"advance", "unlink", "confirm"}
    /\ SweepsFail = "any" \/ (SweepsFail = "alone" /\ Sweeping(p) = {s} /\ p \notin batch)
    /\ unconfirmed' = unconfirmed \cup {p}
    /\ SweepEnds(p, s)
    /\ UNCHANGED <<version, epoch, entry, owing, batch, fill>>

-------------------------------------------------------------------------------
(* wrap(): reads that miss join the one that builds the value already. *)

Misses(p) == p \in unconfirmed \/ entry = Uncached

StartFill(p) ==
    /\ fill[p].step = "idle"
    /\ Misses(p)
    /\ FillTo(p, "epoch")
    /\ UNCHANGED <<version, epoch, entry, unconfirmed, owing, batch, sweep>>

\* When Redis cannot say the epoch, the value is served and not stored.
ReadEpoch(p) ==
    /\ fill[p].step = "epoch"
    /\ \/ fill' = [fill EXCEPT ![p].step = "build", ![p].epoch = epoch]
       \/ FillEnds(p)
    /\ UNCHANGED <<version, epoch, entry, unconfirmed, owing, batch, sweep>>

Build(p) ==
    /\ fill[p].step = "build"
    /\ fill' = [fill EXCEPT ![p].step = "store", ![p].value = version]
    /\ UNCHANGED <<version, epoch, entry, unconfirmed, owing, batch, sweep>>

SkipUnconfirmed(p) ==
    /\ fill[p].step = "store"
    /\ IF p \in unconfirmed THEN FillEnds(p) ELSE FillTo(p, "eval")
    /\ UNCHANGED <<version, epoch, entry, unconfirmed, owing, batch, sweep>>

\* A faulty store that does not look at the epoch.
StoresAnyway(p) == TRUE
\* SET_IF_EPOCH, one step in Redis.
StoresAt(p) == fill[p].epoch = epoch

SetIfEpoch(p) ==
    /\ fill[p].step = "eval"
    /\ entry' = IF StoresAt(p) THEN fill[p].value ELSE entry
    /\ FillEnds(p)
    /\ UNCHANGED <<version, epoch, unconfirmed, owing, batch, sweep>>

SetFails(p) ==
    /\ fill[p].step = "eval"
    /\ FillEnds(p)
    /\ UNCHANGED <<version, epoch, entry, unconfirmed, owing, batch, sweep>>

EntryExpires ==
    /\ entry # Uncached
    /\ entry' = Uncached
    /\ UNCHANGED <<version, epoch, unconfirmed, owing, batch, sweep, fill>>

CacheNext ==
    \/ \E p \in CacheWorkers :
         \/ CommitWrite(p) \/ DelByPrefix(p)
         \/ StartFill(p) \/ ReadEpoch(p) \/ Build(p) \/ SkipUnconfirmed(p)
         \/ SetIfEpoch(p) \/ SetFails(p)
         \/ \E s \in SweepSlots :
              \/ StartBatch(p, s) \/ StartReplay(p, s)
              \/ AdvanceEpoch(p, s) \/ Unlink(p, s) \/ Confirm(p, s) \/ SweepFails(p, s)
    \/ EntryExpires

CacheSpec == CacheInit /\ [][CacheNext]_cacheVars

-------------------------------------------------------------------------------
Invalidated ==
    /\ owing = {} /\ batch = {} /\ unconfirmed = {}
    /\ \A p \in CacheWorkers : Sweeping(p) = {}

\* "A worker that read the database just before another worker's write can never put that
\* stale value back after the invalidation": once every write is invalidated and confirmed,
\* what the cache holds is what the database holds.
NoStaleEntry == Invalidated => entry \in {Uncached, version}
===============================================================================

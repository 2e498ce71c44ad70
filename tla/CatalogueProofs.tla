---------------------------- MODULE CatalogueProofs ----------------------------
(***************************************************************************)
(* What is derived from the catalogue stays true to it: the shared cache   *)
(* and the listing index, for all processes, products and windows; the     *)
(* lines of a cart, for all requests and configurations; and the paths of  *)
(* the category tree, for trees of any size.                               *)
(***************************************************************************)
EXTENDS SharedCache, ListingReconciler, Cart, CategoryTree, SumTheorems,
        FiniteSetTheorems, SequenceTheorems, TLAPS

-------------------------------------------------------------------------------
(***************************************************************************)
(* The shared cache                                                        *)
(***************************************************************************)
SweepSteps == {"idle", "advance", "unlink", "confirm"}
FillSteps == {"idle", "epoch", "build", "store", "eval"}

CacheShape ==
    /\ version \in Nat /\ epoch \in Nat /\ entry \in 0..version
    /\ version \in 1..(MaxVersions + 1) /\ epoch <= MaxEpochs
    /\ unconfirmed \subseteq CacheWorkers /\ owing \subseteq CacheWorkers /\ batch \subseteq CacheWorkers
    /\ sweep \in [CacheWorkers -> [SweepSlots -> [step: SweepSteps, replay: BOOLEAN]]]
    /\ fill \in [CacheWorkers -> [step: FillSteps, epoch: Nat, value: Nat]]
    /\ \A p \in CacheWorkers : fill[p].epoch <= epoch /\ fill[p].value <= version

SweepIs(p, step) == \E s \in SweepSlots : sweep[p][s].step = step

\* A process that will still advance the epoch: it has to invalidate, or Redis never
\* confirmed and the replay has yet to begin.
WillAdvance(p) ==
    \/ p \in owing \/ p \in batch
    \/ SweepIs(p, "advance")
    \/ p \in unconfirmed /\ ~SweepIs(p, "unlink") /\ ~SweepIs(p, "confirm")

\* A value read before a write is stored at this epoch only if somebody will advance it.
StaleFillIsCaught ==
    (\E q \in CacheWorkers : /\ fill[q].step \in {"store", "eval"}
                             /\ fill[q].value # version /\ fill[q].epoch = epoch)
    => \E p \in CacheWorkers : WillAdvance(p)

\* And what was stored so is still to be deleted.
StaleEntryIsCaught ==
    entry \notin {Uncached, version}
    => \E p \in CacheWorkers : WillAdvance(p) \/ SweepIs(p, "unlink")

CacheInvariant == CacheShape /\ StaleFillIsCaught /\ StaleEntryIsCaught

LEMMA CacheStarts == CacheInit => CacheInvariant
BY CacheAssumption DEF CacheInit, CacheInvariant, CacheShape, StaleFillIsCaught, StaleEntryIsCaught,
   Uncached, NoSweep, NoFill, SweepSteps, FillSteps

\* The steps of a read.
LEMMA FillStepKeeps ==
    ASSUME CacheInvariant, NEW p \in CacheWorkers,
           StartFill(p) \/ ReadEpoch(p) \/ Build(p) \/ SkipUnconfirmed(p) \/ SetIfEpoch(p) \/ SetFails(p)
    PROVE  CacheInvariant'
<1> USE DEF FillTo, FillEnds, NoFill, FillSteps
<1>1. /\ UNCHANGED <<version, epoch, unconfirmed, owing, batch, sweep>>
      /\ \A q \in CacheWorkers : q # p => fill'[q] = fill[q]
      /\ fill \in [CacheWorkers -> [step: FillSteps, epoch: Nat, value: Nat]]
  BY DEF StartFill, ReadEpoch, Build, SkipUnconfirmed, SetIfEpoch, SetFails, CacheInvariant, CacheShape
<1>2. /\ fill' \in [CacheWorkers -> [step: FillSteps, epoch: Nat, value: Nat]]
      /\ fill'[p].epoch <= epoch /\ fill'[p].value <= version
  <2> USE DEF CacheInvariant, CacheShape, Uncached
  <2>1. CASE fill' = [fill EXCEPT ![p] = [step |-> "idle", epoch |-> 0, value |-> 0]]
    BY <1>1, <2>1
  <2>2. ASSUME NEW step \in FillSteps, fill' = [fill EXCEPT ![p].step = step]
        PROVE  /\ fill' \in [CacheWorkers -> [step: FillSteps, epoch: Nat, value: Nat]]
               /\ fill'[p].epoch <= epoch /\ fill'[p].value <= version
    <3>1. /\ fill'[p].epoch = fill[p].epoch /\ fill'[p].value = fill[p].value
          /\ fill' \in [CacheWorkers -> [step: FillSteps, epoch: Nat, value: Nat]]
      BY <1>1, <2>2
    <3> QED
      BY <3>1
  <2>3. CASE ReadEpoch(p) /\ fill' = [fill EXCEPT ![p].step = "build", ![p].epoch = epoch]
    <3> DEFINE row == [step |-> "build", epoch |-> epoch, value |-> fill[p].value]
    <3>2. row \in [step: FillSteps, epoch: Nat, value: Nat] /\ row.epoch = epoch /\ row.value = fill[p].value
      BY <1>1
    <3>3. fill' = [fill EXCEPT ![p] = row]
      <4> DEFINE first == [fill EXCEPT ![p].step = "build"]
      <4>1. fill[p] \in [step: FillSteps, epoch: Nat, value: Nat]
        BY <1>1
      <4>2. [fill[p] EXCEPT !.step = "build"] = [step |-> "build", epoch |-> fill[p].epoch, value |-> fill[p].value]
        BY <4>1
      <4>3. first = [fill EXCEPT ![p] = [step |-> "build", epoch |-> fill[p].epoch, value |-> fill[p].value]]
        BY <1>1, <4>2
      <4>4. fill' = [first EXCEPT ![p] = [first[p] EXCEPT !.epoch = epoch]]
        BY <2>3
      <4>5. first[p] = [step |-> "build", epoch |-> fill[p].epoch, value |-> fill[p].value]
        BY <1>1, <4>3
      <4> HIDE DEF first
      <4>6. [first[p] EXCEPT !.epoch = epoch] = row
        BY <4>5
      <4>7. fill' = [[fill EXCEPT ![p] = first[p]] EXCEPT ![p] = row]
        BY <4>3, <4>4, <4>5, <4>6
      <4> HIDE DEF row
      <4> QED
        BY <1>1, <4>7
    <3> HIDE DEF row
    <3>1. /\ fill'[p].epoch = epoch /\ fill'[p].value = fill[p].value
          /\ fill' \in [CacheWorkers -> [step: FillSteps, epoch: Nat, value: Nat]]
      BY <1>1, <3>2, <3>3
    <3> QED
      BY <3>1
  <2>4. CASE Build(p)
    <3> DEFINE row == [step |-> "store", epoch |-> fill[p].epoch, value |-> version]
    <3>1. /\ row \in [step: FillSteps, epoch: Nat, value: Nat]
          /\ row.epoch = fill[p].epoch /\ row.value = version
      BY <1>1
    <3>3. fill' = [fill EXCEPT ![p] = row]
      <4> DEFINE first == [fill EXCEPT ![p].step = "store"]
      <4>1. fill[p] \in [step: FillSteps, epoch: Nat, value: Nat]
        BY <1>1
      <4>2. [fill[p] EXCEPT !.step = "store"] = [step |-> "store", epoch |-> fill[p].epoch, value |-> fill[p].value]
        BY <4>1
      <4>3. first = [fill EXCEPT ![p] = [step |-> "store", epoch |-> fill[p].epoch, value |-> fill[p].value]]
        BY <1>1, <4>2
      <4>4. fill' = [first EXCEPT ![p] = [first[p] EXCEPT !.value = version]]
        BY <2>4 DEF Build
      <4>5. first[p] = [step |-> "store", epoch |-> fill[p].epoch, value |-> fill[p].value]
        BY <1>1, <4>3
      <4> HIDE DEF first
      <4>6. [first[p] EXCEPT !.value = version] = row
        BY <4>5
      <4>7. fill' = [[fill EXCEPT ![p] = first[p]] EXCEPT ![p] = row]
        BY <4>3, <4>4, <4>5, <4>6
      <4> HIDE DEF row
      <4> QED
        BY <1>1, <4>7
    <3> HIDE DEF row
    <3>2. /\ fill'[p].epoch = fill[p].epoch /\ fill'[p].value = version
          /\ fill' \in [CacheWorkers -> [step: FillSteps, epoch: Nat, value: Nat]]
      BY <1>1, <3>1, <3>3
    <3> QED
      BY <3>2
  <2> QED
    BY <2>1, <2>2, <2>3, <2>4 DEF StartFill, ReadEpoch, SkipUnconfirmed, SetIfEpoch, SetFails
<1>3. entry' \in 0..version
  BY DEF StartFill, ReadEpoch, Build, SkipUnconfirmed, SetIfEpoch, SetFails, CacheInvariant, CacheShape
<1>4. CacheShape'
  BY <1>1, <1>2, <1>3 DEF CacheInvariant, CacheShape
<1>5. \A q \in CacheWorkers : WillAdvance(q)' <=> WillAdvance(q)
  BY <1>1 DEF WillAdvance, SweepIs
<1>6. /\ fill'[p].step \in {"store", "eval"} =>
            \/ fill'[p].value = version
            \/ fill[p].step \in {"store", "eval"} /\ fill'[p].value = fill[p].value
               /\ fill'[p].epoch = fill[p].epoch
  BY <1>1 DEF StartFill, ReadEpoch, Build, SkipUnconfirmed, SetIfEpoch, SetFails
<1>7. StaleFillIsCaught'
  BY <1>1, <1>5, <1>6 DEF CacheInvariant, StaleFillIsCaught
<1>8. StaleEntryIsCaught'
  <2>1. \A q \in CacheWorkers : SweepIs(q, "unlink")' <=> SweepIs(q, "unlink")
    BY <1>1 DEF SweepIs
  <2>2. CASE entry' = entry
    BY <1>1, <1>5, <2>1, <2>2 DEF CacheInvariant, StaleEntryIsCaught, Uncached
  <2>3. CASE entry' # entry
    <3>1. SetIfEpoch(p) /\ fill[p].epoch = epoch /\ entry' = fill[p].value /\ fill[p].step = "eval"
      BY <2>3 DEF StartFill, ReadEpoch, Build, SkipUnconfirmed, SetIfEpoch, SetFails, StoresAt
    <3>2. CASE fill[p].value = version
      BY <1>1, <3>1, <3>2 DEF StaleEntryIsCaught
    <3>3. CASE fill[p].value # version
      <4>1. \E q \in CacheWorkers : WillAdvance(q)
        BY <3>1, <3>3 DEF CacheInvariant, StaleFillIsCaught
      <4> QED
        BY <1>5, <4>1 DEF StaleEntryIsCaught
    <3> QED
      BY <3>2, <3>3
  <2> QED
    BY <2>2, <2>3
<1> QED
  BY <1>4, <1>7, <1>8 DEF CacheInvariant

\* A sweep moves on in one slot of one process.
LEMMA SlotMoves ==
    ASSUME CacheInvariant, NEW p \in CacheWorkers, NEW s \in SweepSlots,
           NEW row \in [step: SweepSteps, replay: BOOLEAN],
           sweep' = [sweep EXCEPT ![p][s] = row]
    PROVE  /\ sweep' \in [CacheWorkers -> [SweepSlots -> [step: SweepSteps, replay: BOOLEAN]]]
           /\ sweep'[p][s] = row
           /\ \A t \in SweepSlots : t # s => sweep'[p][t] = sweep[p][t]
           /\ \A q \in CacheWorkers : q # p => sweep'[q] = sweep[q]
BY DEF CacheInvariant, CacheShape

LEMMA StepIsARow ==
    ASSUME CacheInvariant, NEW p \in CacheWorkers, NEW s \in SweepSlots, NEW step \in SweepSteps
    PROVE  /\ SweepTo(p, s, step) =>
                sweep' = [sweep EXCEPT ![p][s] = [step |-> step, replay |-> sweep[p][s].replay]]
           /\ sweep[p][s].replay \in BOOLEAN
           /\ NoSweep \in [step: SweepSteps, replay: BOOLEAN]
<1>1. sweep[p][s] \in [step: SweepSteps, replay: BOOLEAN]
  BY DEF CacheInvariant, CacheShape
<1>2. [sweep[p][s] EXCEPT !.step = step] = [step |-> step, replay |-> sweep[p][s].replay]
  BY <1>1
<1>3. SweepTo(p, s, step) => sweep' = [sweep EXCEPT ![p][s] = [sweep[p][s] EXCEPT !.step = step]]
  BY DEF SweepTo, CacheInvariant, CacheShape
<1> QED
  BY <1>1, <1>2, <1>3 DEF NoSweep, SweepSteps

\* While one process is sure to advance the epoch, nothing stale survives.
LEMMA OneWhoAdvancesIsEnough ==
    ASSUME CacheShape', NEW p \in CacheWorkers, WillAdvance(p)'
    PROVE  CacheInvariant'
BY DEF CacheInvariant, StaleFillIsCaught, StaleEntryIsCaught

\* A write, and its invalidation until it begins: the writer will advance the epoch.
LEMMA WriteStepKeeps ==
    ASSUME CacheInvariant, NEW p \in CacheWorkers, CommitWrite(p) \/ DelByPrefix(p)
    PROVE  CacheInvariant'
<1>1. CacheShape'
  <2>1. CASE CommitWrite(p)
    <3>1. version' \in 1..(MaxVersions + 1) /\ version' = version + 1 /\ version \in Nat
      BY <2>1, CacheAssumption DEF CommitWrite, CacheInvariant, CacheShape
    <3>2. entry' \in 0..version'
      BY <2>1, <3>1 DEF CommitWrite, CacheInvariant, CacheShape
    <3>3. \A q \in CacheWorkers : fill[q].value \in Nat
      BY DEF CacheInvariant, CacheShape
    <3> QED
      BY <2>1, <3>1, <3>2, <3>3 DEF CommitWrite, CacheInvariant, CacheShape
  <2>2. CASE DelByPrefix(p)
    BY <2>2 DEF DelByPrefix, CacheInvariant, CacheShape
  <2> QED
    BY <2>1, <2>2
<1>2. WillAdvance(p)'
  BY DEF CommitWrite, DelByPrefix, WillAdvance
<1> QED
  BY <1>1, <1>2, OneWhoAdvancesIsEnough

LEMMA StartKeeps ==
    ASSUME CacheInvariant, NEW p \in CacheWorkers, NEW s \in SweepSlots,
           StartBatch(p, s) \/ StartReplay(p, s)
    PROVE  CacheInvariant'
<1> DEFINE replays == IF StartBatch(p, s) THEN sweep[p][s].replay ELSE TRUE
<1> DEFINE row == [step |-> "advance", replay |-> replays]
<1>1. row \in [step: SweepSteps, replay: BOOLEAN]
  BY StepIsARow DEF SweepSteps
<1>2. sweep' = [sweep EXCEPT ![p][s] = row]
  BY StepIsARow DEF StartBatch, StartReplay, SweepSteps
<1>3. row.step = "advance"
  OBVIOUS
<1> HIDE DEF row
<1>4. /\ sweep' \in [CacheWorkers -> [SweepSlots -> [step: SweepSteps, replay: BOOLEAN]]]
      /\ sweep'[p][s] = row
  BY <1>1, <1>2, SlotMoves
<1>5. CacheShape'
  BY <1>4 DEF StartBatch, StartReplay, CacheInvariant, CacheShape
<1>6. WillAdvance(p)'
  BY <1>3, <1>4 DEF WillAdvance, SweepIs
<1> QED
  BY <1>5, <1>6, OneWhoAdvancesIsEnough

\* The epoch moves on: what was read under the old one can no longer be stored, and
\* what is stored is still to be unlinked.
LEMMA AdvanceEpochKeeps ==
    ASSUME CacheInvariant, NEW p \in CacheWorkers, NEW s \in SweepSlots, AdvanceEpoch(p, s)
    PROVE  CacheInvariant'
<1> DEFINE row == [step |-> "unlink", replay |-> sweep[p][s].replay]
<1>1. row \in [step: SweepSteps, replay: BOOLEAN] /\ row.step = "unlink"
  BY StepIsARow DEF SweepSteps
<1>2. sweep' = [sweep EXCEPT ![p][s] = row]
  BY StepIsARow DEF AdvanceEpoch, SweepSteps
<1> HIDE DEF row
<1>3. /\ sweep' \in [CacheWorkers -> [SweepSlots -> [step: SweepSteps, replay: BOOLEAN]]]
      /\ sweep'[p][s] = row
  BY <1>1, <1>2, SlotMoves
<1>4. /\ epoch' = epoch + 1 /\ epoch < MaxEpochs
      /\ UNCHANGED <<version, entry, unconfirmed, owing, batch, fill>>
  BY DEF AdvanceEpoch
<1>5. CacheShape'
  BY <1>3, <1>4, CacheAssumption DEF CacheInvariant, CacheShape
<1>6. StaleFillIsCaught'
  BY <1>4 DEF CacheInvariant, CacheShape, StaleFillIsCaught
<1>7. SweepIs(p, "unlink")'
  BY <1>1, <1>3 DEF SweepIs
<1> QED
  BY <1>5, <1>6, <1>7 DEF CacheInvariant, StaleEntryIsCaught

\* A sweep past its advance moves on: whoever was still to advance the epoch still is.
LEMMA LaterStepsPostponeNothing ==
    ASSUME CacheInvariant, NEW p \in CacheWorkers, NEW s \in SweepSlots,
           sweep[p][s].step \in {"unlink", "confirm"},
           UNCHANGED <<owing, batch>>, unconfirmed' \subseteq unconfirmed,
           \A q \in CacheWorkers : q # p => (q \in unconfirmed' <=> q \in unconfirmed),
           \A q \in CacheWorkers : q # p => sweep'[q] = sweep[q],
           \A t \in SweepSlots : t # s => sweep'[p][t] = sweep[p][t],
           NEW q \in CacheWorkers, WillAdvance(q)
    PROVE  WillAdvance(q)'
<1>1. CASE q # p
  BY <1>1 DEF WillAdvance, SweepIs
<1>2. CASE q = p
  <2>1. SweepIs(p, "unlink") \/ SweepIs(p, "confirm")
    BY DEF SweepIs
  <2>2. p \in owing \/ p \in batch \/ SweepIs(p, "advance")
    BY <1>2, <2>1 DEF WillAdvance
  <2>3. SweepIs(p, "advance") => SweepIs(p, "advance")'
    BY DEF SweepIs
  <2> QED
    BY <1>2, <2>2, <2>3 DEF WillAdvance
<1> QED
  BY <1>1, <1>2

LEMMA UnlinkKeeps ==
    ASSUME CacheInvariant, NEW p \in CacheWorkers, NEW s \in SweepSlots, Unlink(p, s)
    PROVE  CacheInvariant'
<1> DEFINE row == [step |-> "confirm", replay |-> sweep[p][s].replay]
<1>1. row \in [step: SweepSteps, replay: BOOLEAN]
  BY StepIsARow DEF SweepSteps
<1>2. sweep' = [sweep EXCEPT ![p][s] = row]
  BY StepIsARow DEF Unlink, SweepSteps
<1> HIDE DEF row
<1>3. /\ sweep' \in [CacheWorkers -> [SweepSlots -> [step: SweepSteps, replay: BOOLEAN]]]
      /\ \A t \in SweepSlots : t # s => sweep'[p][t] = sweep[p][t]
      /\ \A q \in CacheWorkers : q # p => sweep'[q] = sweep[q]
  BY <1>1, <1>2, SlotMoves
<1>4. CacheShape'
  BY <1>3 DEF Unlink, CacheInvariant, CacheShape, Uncached
<1>5. \A q \in CacheWorkers : WillAdvance(q) => WillAdvance(q)'
  BY <1>3, LaterStepsPostponeNothing DEF Unlink
<1>6. StaleFillIsCaught'
  BY <1>5 DEF Unlink, CacheInvariant, StaleFillIsCaught
<1>7. StaleEntryIsCaught'
  BY DEF Unlink, StaleEntryIsCaught
<1> QED
  BY <1>4, <1>6, <1>7 DEF CacheInvariant

LEMMA ConfirmKeeps ==
    ASSUME CacheInvariant, NEW p \in CacheWorkers, NEW s \in SweepSlots, Confirm(p, s)
    PROVE  CacheInvariant'
<1>1. /\ sweep' \in [CacheWorkers -> [SweepSlots -> [step: SweepSteps, replay: BOOLEAN]]]
      /\ \A t \in SweepSlots : t # s => sweep'[p][t] = sweep[p][t]
      /\ \A q \in CacheWorkers : q # p => sweep'[q] = sweep[q]
  <2>1. NoSweep \in [step: SweepSteps, replay: BOOLEAN] /\ sweep' = [sweep EXCEPT ![p][s] = NoSweep]
    BY StepIsARow DEF Confirm, SweepEnds, SweepSteps
  <2> QED
    BY <2>1, SlotMoves
<1>2. CacheShape'
  BY <1>1 DEF Confirm, CacheInvariant, CacheShape
<1>3. \A q \in CacheWorkers : WillAdvance(q) => WillAdvance(q)'
  BY <1>1, LaterStepsPostponeNothing DEF Confirm
<1>4. \A q \in CacheWorkers : SweepIs(q, "unlink") => SweepIs(q, "unlink")'
  BY <1>1 DEF SweepIs, Confirm
<1>5. StaleFillIsCaught'
  BY <1>3 DEF Confirm, CacheInvariant, StaleFillIsCaught
<1>6. StaleEntryIsCaught'
  BY <1>3, <1>4 DEF Confirm, CacheInvariant, StaleEntryIsCaught
<1> QED
  BY <1>2, <1>5, <1>6 DEF CacheInvariant

\* An invalidation that fails while it is its process' only one leaves the replay.
LEMMA SweepFailsKeeps ==
    ASSUME CacheInvariant, SweepsFail # "any",
           NEW p \in CacheWorkers, NEW s \in SweepSlots, SweepFails(p, s)
    PROVE  CacheInvariant'
<1>1. /\ sweep' \in [CacheWorkers -> [SweepSlots -> [step: SweepSteps, replay: BOOLEAN]]]
      /\ sweep'[p][s] = NoSweep
      /\ \A t \in SweepSlots : t # s => sweep'[p][t] = sweep[p][t]
  <2>1. NoSweep \in [step: SweepSteps, replay: BOOLEAN] /\ sweep' = [sweep EXCEPT ![p][s] = NoSweep]
    BY StepIsARow DEF SweepFails, SweepEnds, SweepSteps
  <2> QED
    BY <2>1, SlotMoves
<1>2. CacheShape'
  BY <1>1 DEF SweepFails, CacheInvariant, CacheShape
<1>3. \A t \in SweepSlots : sweep'[p][t].step = "idle"
  BY <1>1 DEF SweepFails, Sweeping, NoSweep
<1>4. WillAdvance(p)'
  BY <1>3 DEF SweepFails, WillAdvance, SweepIs
<1> QED
  BY <1>2, <1>4, OneWhoAdvancesIsEnough

LEMMA EntryExpiresKeeps == CacheInvariant /\ EntryExpires => CacheInvariant'
BY DEF EntryExpires, CacheInvariant, CacheShape, StaleFillIsCaught, StaleEntryIsCaught, WillAdvance,
   SweepIs, Uncached

LEMMA CacheStepKeeps ==
    ASSUME CacheInvariant, SweepsFail # "any", [CacheNext]_cacheVars
    PROVE  CacheInvariant'
<1>1. CASE \E p \in CacheWorkers : CommitWrite(p) \/ DelByPrefix(p)
  BY <1>1, WriteStepKeeps
<1>2. CASE \E p \in CacheWorkers : \/ StartFill(p) \/ ReadEpoch(p) \/ Build(p) \/ SkipUnconfirmed(p)
                                    \/ SetIfEpoch(p) \/ SetFails(p)
  BY <1>2, FillStepKeeps
<1>3. CASE \E p \in CacheWorkers, s \in SweepSlots : StartBatch(p, s) \/ StartReplay(p, s)
  BY <1>3, StartKeeps
<1>4. CASE \E p \in CacheWorkers, s \in SweepSlots : AdvanceEpoch(p, s)
  BY <1>4, AdvanceEpochKeeps
<1>5. CASE \E p \in CacheWorkers, s \in SweepSlots : Unlink(p, s)
  BY <1>5, UnlinkKeeps
<1>6. CASE \E p \in CacheWorkers, s \in SweepSlots : Confirm(p, s)
  BY <1>6, ConfirmKeeps
<1>7. CASE \E p \in CacheWorkers, s \in SweepSlots : SweepFails(p, s)
  BY <1>7, SweepFailsKeeps
<1>8. CASE EntryExpires
  BY <1>8, EntryExpiresKeeps
<1>9. CASE UNCHANGED cacheVars
  BY <1>9 DEF cacheVars, CacheInvariant, CacheShape, StaleFillIsCaught, StaleEntryIsCaught, WillAdvance,
     SweepIs
<1> QED
  BY <1>1, <1>2, <1>3, <1>4, <1>5, <1>6, <1>7, <1>8, <1>9 DEF CacheNext

\* The cache's variables keep their types, and the epoch its bound.
THEOREM CacheTypeCorrect ==
    ASSUME SweepsFail # "any"
    PROVE  CacheSpec => []CacheTypeOK
<1>1. CacheInvariant /\ [CacheNext]_cacheVars => CacheInvariant'
  BY CacheStepKeeps
<1>2. CacheInvariant => CacheTypeOK
  <2> SUFFICES ASSUME CacheInvariant
               PROVE  CacheTypeOK
    OBVIOUS
  <2>1. epoch \in 0..MaxEpochs
    BY CacheAssumption DEF CacheInvariant, CacheShape
  <2>2. ASSUME NEW p \in CacheWorkers
        PROVE  fill[p].step \in FillSteps /\ fill[p].value \in 0..version
    BY DEF CacheInvariant, CacheShape
  <2>3. ASSUME NEW p \in CacheWorkers, NEW s \in SweepSlots
        PROVE  sweep[p][s].step \in SweepSteps
    BY DEF CacheInvariant, CacheShape
  <2> QED
    BY <2>1, <2>2, <2>3 DEF CacheInvariant, CacheShape, CacheTypeOK, FillSteps, SweepSteps
<1> QED
  BY <1>1, <1>2, CacheStarts, PTL DEF CacheSpec

\* Once every write is invalidated and confirmed, nobody is left to catch a stale entry,
\* so there is none: redis.cache.ts keeps its promise for any number of processes and
\* concurrent invalidations, as long as an invalidation fails only while its process
\* runs no other one.
THEOREM NothingStaleStays ==
    ASSUME SweepsFail # "any"
    PROVE  CacheSpec => []NoStaleEntry
<1>1. CacheInvariant /\ [CacheNext]_cacheVars => CacheInvariant'
  BY CacheStepKeeps
<1>2. CacheInvariant => NoStaleEntry
  BY DEF CacheInvariant, StaleEntryIsCaught, WillAdvance, SweepIs, NoStaleEntry, Invalidated, Sweeping
<1> QED
  BY <1>1, <1>2, CacheStarts, PTL DEF CacheSpec

-------------------------------------------------------------------------------
(***************************************************************************)
(* The listing index                                                       *)
(***************************************************************************)
PassSteps == {"idle", "acquire", "read", "refresh", "renew", "complete"}
Passes == [step: PassSteps, from: Nat, to: Nat, left: SUBSET Products, rebuild: BOOLEAN]

ReachOf(v) == IF v \in WideWindows THEN Products ELSE Reach[v]

ListingShape ==
    /\ now \in Nat /\ now > 0 /\ task \in Task
    /\ indexed \in [Products -> Nat] /\ seen \in [Products -> Nat]
    /\ writes \in Nat /\ requested \in Nat /\ requested <= writes
    /\ pass \in [Processes -> Passes]
    /\ task.watermark <= now
    /\ \A p \in Products : indexed[p] <= now
    /\ \A w \in Processes : pass[w].to <= now

\* A pass that has read the row: its span and what is left of it are decided.
InSpan(w) == pass[w].step \in {"refresh", "renew", "complete"}

CoveredBut(v, left) == \A p \in ReachOf(v) \ left : indexed[p] >= CrossesAt[v]

\* What is not left is done, and everything before the span was done when it was read.
PassesCover ==
    \A w \in Processes : InSpan(w) =>
        /\ \A v \in Windows :
             /\ CrossesAt[v] <= pass[w].from => CoveredBut(v, {})
             /\ pass[w].from < CrossesAt[v] /\ CrossesAt[v] <= pass[w].to => CoveredBut(v, pass[w].left)
        /\ pass[w].step = "complete" => pass[w].left = {}

\* A rebuild meets every request up to its instant, and none before it refreshed a product.
PassesRebuild ==
    \A w \in Processes : InSpan(w) /\ pass[w].rebuild =>
        /\ now <= pass[w].to => pass[w].left = Products
        /\ task.rebuildRequestedAt <= pass[w].to =>
             \A p \in Products \ pass[w].left : seen[p] >= requested

\* A request always comes after the last rebuild, so that it is seen to be pending.
RebuiltEarlier == Products # {} => task.lastRebuiltAt < now

ListingInvariant ==
    ListingShape /\ PassesCover /\ PassesRebuild /\ RebuiltEarlier /\ WatermarkCovers /\ RebuildHonoured

LEMMA ListingStarts == ListingInit => ListingInvariant
<1> SUFFICES ASSUME ListingInit
             PROVE  ListingInvariant
  OBVIOUS
<1>1. ListingShape
  BY DEF ListingInit, ListingShape, Task, NoPass, Passes, PassSteps
<1>2. PassesCover /\ PassesRebuild
  BY DEF ListingInit, PassesCover, PassesRebuild, InSpan, NoPass
<1>3. RebuiltEarlier /\ WatermarkCovers /\ RebuildHonoured
  BY ListingAssumption DEF ListingInit, RebuiltEarlier, WatermarkCovers, RebuildHonoured
<1> QED
  BY <1>1, <1>2, <1>3 DEF ListingInvariant

\* The row of the task, as far as the index depends on it.
SameMarks ==
    /\ task'.watermark = task.watermark
    /\ task'.rebuildRequestedAt = task.rebuildRequestedAt
    /\ task'.lastRebuiltAt = task.lastRebuiltAt

\* A step that at most hands the lease on and moves passes within their spans or out of them.
LEMMA ControlStepKeeps ==
    ASSUME ListingInvariant, UNCHANGED <<now, indexed, seen, writes, requested>>,
           task' \in Task, SameMarks,
           pass' \in [Processes -> Passes],
           \A w \in Processes :
              \/ pass'[w].step \in {"idle", "acquire", "read"} /\ pass'[w].to <= now
              \/ /\ InSpan(w)
                 /\ pass'[w].from = pass[w].from /\ pass'[w].to = pass[w].to
                 /\ pass'[w].left = pass[w].left /\ pass'[w].rebuild = pass[w].rebuild
                 /\ pass'[w].step = "complete" => pass[w].left = {}
    PROVE  ListingInvariant'
<1>1. ListingShape'
  BY DEF ListingInvariant, ListingShape, SameMarks
<1>2. PassesCover'
  BY DEF ListingInvariant, PassesCover, InSpan, CoveredBut
<1>3. PassesRebuild'
  BY DEF ListingInvariant, PassesRebuild, InSpan, SameMarks
<1>4. (RebuiltEarlier /\ WatermarkCovers /\ RebuildHonoured)'
  BY DEF ListingInvariant, RebuiltEarlier, WatermarkCovers, RebuildHonoured, SameMarks, RebuildPending
<1> QED
  BY <1>1, <1>2, <1>3, <1>4 DEF ListingInvariant

\* The lease changes hands; the marks stay.
LEMMA LeaseRow ==
    ASSUME task \in Task, NEW owner \in Processes \cup {Nobody}, NEW expired \in BOOLEAN,
           task' = [task EXCEPT !.owner = owner, !.expired = expired]
    PROVE  task' \in Task /\ SameMarks
<1>1. task' = [owner |-> owner, expired |-> expired, watermark |-> task.watermark,
               rebuildRequestedAt |-> task.rebuildRequestedAt, lastRebuiltAt |-> task.lastRebuiltAt]
  BY DEF Task
<1> QED
  BY <1>1 DEF Task, SameMarks

\* One process' pass moves to another step, or ends.
LEMMA PassMoves ==
    ASSUME ListingInvariant, NEW w \in Processes, NEW step \in PassSteps,
           PassTo(w, step) \/ EndPass(w)
    PROVE  /\ pass' \in [Processes -> Passes]
           /\ \A q \in Processes : q # w => pass'[q] = pass[q]
           /\ PassTo(w, step) => /\ pass'[w].step = step
                                 /\ pass'[w].from = pass[w].from /\ pass'[w].to = pass[w].to
                                 /\ pass'[w].left = pass[w].left /\ pass'[w].rebuild = pass[w].rebuild
           /\ EndPass(w) => pass'[w] = NoPass
<1>1. pass \in [Processes -> Passes] /\ pass[w] \in Passes
  BY DEF ListingInvariant, ListingShape
<1>2. CASE PassTo(w, step)
  <2> DEFINE row == [step |-> step, from |-> pass[w].from, to |-> pass[w].to,
                     left |-> pass[w].left, rebuild |-> pass[w].rebuild]
  <2>1. row \in Passes
    BY <1>1 DEF Passes
  <2>2. [pass[w] EXCEPT !.step = step] = row
    BY <1>1 DEF Passes
  <2>3. pass' = [pass EXCEPT ![w] = row]
    BY <1>1, <1>2, <2>2 DEF PassTo
  <2>4. /\ row.step = step /\ row.from = pass[w].from /\ row.to = pass[w].to
        /\ row.left = pass[w].left /\ row.rebuild = pass[w].rebuild
    OBVIOUS
  <2> HIDE DEF row
  <2>5. pass' \in [Processes -> Passes] /\ pass'[w] = row /\ \A q \in Processes : q # w => pass'[q] = pass[q]
    BY <1>1, <2>1, <2>3
  <2>6. pass'[w] = NoPass => step = "idle"
    BY <2>4, <2>5 DEF NoPass
  <2>7. EndPass(w) => pass'[w] = NoPass
    BY <1>1 DEF EndPass
  <2> QED
    BY <2>4, <2>5, <2>7
<1>3. CASE EndPass(w)
  <2>1. NoPass \in Passes
    BY DEF NoPass, Passes, PassSteps
  <2>2. pass' \in [Processes -> Passes] /\ pass'[w] = NoPass /\ \A q \in Processes : q # w => pass'[q] = pass[q]
    BY <1>1, <1>3, <2>1 DEF EndPass
  <2>3. PassTo(w, step) => pass'[w] = [pass[w] EXCEPT !.step = step]
    BY <1>1 DEF PassTo
  <2>4. [pass[w] EXCEPT !.step = step] = [step |-> step, from |-> pass[w].from, to |-> pass[w].to,
                                         left |-> pass[w].left, rebuild |-> pass[w].rebuild]
    BY <1>1 DEF Passes
  <2> QED
    BY <2>2, <2>3, <2>4
<1> QED
  BY <1>2, <1>3

\* A pass out of its span claims nothing, and one in it claims no more by moving on.
LEMMA OnePassMovesKeeps ==
    ASSUME ListingInvariant, UNCHANGED <<now, indexed, seen, writes, requested>>,
           task' \in Task, SameMarks,
           NEW w \in Processes, NEW step \in PassSteps,
           \/ EndPass(w)
           \/ /\ PassTo(w, step)
              /\ \/ step \in {"idle", "acquire", "read"}
                 \/ InSpan(w) /\ (step = "complete" => pass[w].left = {})
    PROVE  ListingInvariant'
<1>1. pass' \in [Processes -> Passes] /\ \A q \in Processes : q # w => pass'[q] = pass[q]
  BY PassMoves
<1>2. pass \in [Processes -> Passes] /\ now \in Nat /\ \A q \in Processes : pass[q].to <= now
  BY DEF ListingInvariant, ListingShape
<1>3. ASSUME NEW q \in Processes
      PROVE  \/ pass'[q].step \in {"idle", "acquire", "read"} /\ pass'[q].to <= now
             \/ /\ InSpan(q)
                /\ pass'[q].from = pass[q].from /\ pass'[q].to = pass[q].to
                /\ pass'[q].left = pass[q].left /\ pass'[q].rebuild = pass[q].rebuild
                /\ pass'[q].step = "complete" => pass[q].left = {}
  <2>1. CASE q # w
    <3>1. pass[q].step \in PassSteps
      BY <1>2 DEF Passes
    <3> QED
      BY <1>1, <1>2, <2>1, <3>1 DEF InSpan, PassSteps, ListingInvariant, PassesCover
  <2>2. CASE q = w /\ EndPass(w)
    BY <1>2, <2>2, PassMoves DEF NoPass
  <2>3. CASE q = w /\ PassTo(w, step)
    BY <1>2, <2>2, <2>3, PassMoves DEF InSpan
  <2> QED
    BY <2>1, <2>2, <2>3
<1> QED
  BY <1>1, <1>3, ControlStepKeeps

LEMMA LeaseStepKeeps ==
    ASSUME ListingInvariant, NEW w \in Processes,
           Acquire(w) \/ KeepAlive(w) \/ AllRefreshed(w) \/ ProcessDies(w)
    PROVE  ListingInvariant'
<1>1. task \in Task
  BY DEF ListingInvariant, ListingShape
<1>2. task' \in Task /\ SameMarks
  <2>1. task' = task => SameMarks
    BY DEF SameMarks
  <2> QED
    BY <1>1, <2>1, LeaseRow DEF Acquire, KeepAlive, AllRefreshed, ProcessDies
<1>3. UNCHANGED <<now, indexed, seen, writes, requested>>
  BY DEF Acquire, KeepAlive, AllRefreshed, ProcessDies
<1>4. CASE EndPass(w)
  BY <1>2, <1>3, <1>4, OnePassMovesKeeps DEF PassSteps
<1>5. CASE PassTo(w, "read")
  BY <1>2, <1>3, <1>5, OnePassMovesKeeps DEF PassSteps
<1>6. CASE PassTo(w, "refresh") /\ PassAt(w, "renew")
  BY <1>2, <1>3, <1>6, OnePassMovesKeeps DEF PassSteps, InSpan, PassAt
<1>7. CASE PassTo(w, "complete") /\ PassAt(w, "refresh") /\ pass[w].left = {}
  BY <1>2, <1>3, <1>7, OnePassMovesKeeps DEF PassSteps, InSpan, PassAt
<1> QED
  BY <1>4, <1>5, <1>6, <1>7 DEF Acquire, KeepAlive, AllRefreshed, ProcessDies

LEMMA LeaseExpiresKeeps == ListingInvariant /\ LeaseExpires => ListingInvariant'
<1> SUFFICES ASSUME ListingInvariant, LeaseExpires
             PROVE  ListingInvariant'
  OBVIOUS
<1>1. /\ task \in Task /\ pass \in [Processes -> Passes]
      /\ \A w \in Processes : pass[w].to <= now
  BY DEF ListingInvariant, ListingShape
<1>2. task' = [task EXCEPT !.owner = task.owner, !.expired = TRUE] /\ task.owner \in Processes \cup {Nobody}
  BY <1>1 DEF LeaseExpires, Task
<1>3. task' \in Task /\ SameMarks
  BY <1>1, <1>2, LeaseRow
<1>4. ASSUME NEW w \in Processes
      PROVE  pass[w].step \in {"idle", "acquire", "read"} \/ InSpan(w)
  BY <1>1 DEF InSpan, Passes, PassSteps
<1> QED
  BY <1>1, <1>3, <1>4, ControlStepKeeps DEF LeaseExpires, ListingInvariant, PassesCover

LEMMA StartPassKeeps ==
    ASSUME ListingInvariant, NEW w \in Processes, StartPass(w)
    PROVE  ListingInvariant'
<1> DEFINE row == [step |-> "acquire", from |-> NoPass.from, to |-> now,
                   left |-> NoPass.left, rebuild |-> NoPass.rebuild]
<1>1. /\ task \in Task /\ pass \in [Processes -> Passes] /\ now \in Nat
      /\ \A q \in Processes : pass[q].to <= now
  BY DEF ListingInvariant, ListingShape
<1>7. NoPass \in Passes
  BY DEF NoPass, Passes, PassSteps
<1>2. row \in Passes /\ row.step = "acquire" /\ row.to <= now
  BY <1>1, <1>7 DEF Passes, PassSteps
<1>3. pass' = [pass EXCEPT ![w] = row]
  <2> DEFINE first == [NoPass EXCEPT !.step = "acquire"]
  <2>1. first = [step |-> "acquire", from |-> NoPass.from, to |-> NoPass.to,
                 left |-> NoPass.left, rebuild |-> NoPass.rebuild]
    BY <1>7 DEF Passes
  <2>2. pass' = [pass EXCEPT ![w] = [first EXCEPT !.to = now]]
    BY DEF StartPass
  <2> HIDE DEF first
  <2>3. [first EXCEPT !.to = now] = row
    BY <2>1
  <2> QED
    BY <2>2, <2>3
<1> HIDE DEF row
<1>4. pass' \in [Processes -> Passes] /\ pass'[w] = row /\ \A q \in Processes : q # w => pass'[q] = pass[q]
  BY <1>1, <1>2, <1>3
<1>5. ASSUME NEW q \in Processes
      PROVE  pass[q].step \in {"idle", "acquire", "read"} \/ InSpan(q)
  BY <1>1 DEF InSpan, Passes, PassSteps
<1>6. UNCHANGED <<now, task, indexed, seen, writes, requested>>
  BY DEF StartPass
<1> QED
  BY <1>1, <1>2, <1>4, <1>5, <1>6, ControlStepKeeps DEF SameMarks, ListingInvariant, PassesCover

LEMMA TickKeeps == ListingInvariant /\ Tick => ListingInvariant'
<1> SUFFICES ASSUME ListingInvariant, Tick
             PROVE  ListingInvariant'
  OBVIOUS
<1>1. now \in Nat /\ now' = now + 1 /\ UNCHANGED <<task, indexed, seen, writes, requested, pass>>
  BY DEF Tick, ListingInvariant, ListingShape
<1>2. task.watermark \in Nat /\ task.lastRebuiltAt \in Nat
  BY DEF ListingInvariant, ListingShape, Task
<1>3. \A p \in Products : indexed[p] \in Nat
  BY DEF ListingInvariant, ListingShape
<1>4. \A w \in Processes : pass[w].to \in Nat
  BY DEF ListingInvariant, ListingShape, Passes
<1>5. ListingShape'
  BY <1>1, <1>2, <1>3, <1>4 DEF ListingInvariant, ListingShape
<1>6. PassesCover'
  BY <1>1 DEF ListingInvariant, PassesCover, InSpan, CoveredBut
<1>7. PassesRebuild'
  BY <1>1, <1>4 DEF ListingInvariant, PassesRebuild, InSpan
<1>8. (RebuiltEarlier /\ WatermarkCovers /\ RebuildHonoured)'
  BY <1>1, <1>2 DEF ListingInvariant, RebuiltEarlier, WatermarkCovers, RebuildHonoured, RebuildPending
<1> QED
  BY <1>5, <1>6, <1>7, <1>8 DEF ListingInvariant

LEMMA PricingWriteKeeps == ListingInvariant /\ PricingWrite => ListingInvariant'
<1> SUFFICES ASSUME ListingInvariant, PricingWrite
             PROVE  ListingInvariant'
  OBVIOUS
<1>1. ListingShape'
  BY DEF PricingWrite, ListingInvariant, ListingShape
<1>2. PassesCover' /\ PassesRebuild'
  BY DEF PricingWrite, ListingInvariant, PassesCover, PassesRebuild, InSpan, CoveredBut
<1>3. (RebuiltEarlier /\ WatermarkCovers /\ RebuildHonoured)'
  BY DEF PricingWrite, ListingInvariant, RebuiltEarlier, WatermarkCovers, RebuildHonoured, RebuildPending
<1> QED
  BY <1>1, <1>2, <1>3 DEF ListingInvariant

\* A request is later than the last rebuild and than whatever a running pass refreshed.
LEMMA RequestRebuildKeeps == ListingInvariant /\ RequestRebuild => ListingInvariant'
<1> SUFFICES ASSUME ListingInvariant, RequestRebuild
             PROVE  ListingInvariant'
  OBVIOUS
<1>1. /\ task \in Task /\ now \in Nat /\ writes \in Nat
      /\ UNCHANGED <<now, indexed, seen, writes, pass>> /\ requested' = writes
  BY DEF RequestRebuild, ListingInvariant, ListingShape
<1> DEFINE since == IF task.rebuildRequestedAt >= now THEN task.rebuildRequestedAt ELSE now
<1>2. since \in Nat /\ since >= now
  BY <1>1 DEF Task
<1>3. task' = [task EXCEPT !.rebuildRequestedAt = since]
  BY DEF RequestRebuild
<1> HIDE DEF since
<1>4. /\ task' \in Task /\ task'.rebuildRequestedAt = since
      /\ task'.watermark = task.watermark /\ task'.lastRebuiltAt = task.lastRebuiltAt
      /\ task.watermark \in Nat /\ task.lastRebuiltAt \in Nat
  BY <1>1, <1>2, <1>3 DEF Task
<1>5. ListingShape'
  BY <1>1, <1>4 DEF ListingInvariant, ListingShape
<1>6. PassesCover'
  BY <1>1 DEF ListingInvariant, PassesCover, InSpan, CoveredBut
<1>7. PassesRebuild'
  <2>1. ASSUME NEW w \in Processes, InSpan(w), pass[w].rebuild
        PROVE  /\ now <= pass[w].to => pass[w].left = Products
               /\ since <= pass[w].to => pass[w].left = Products
    <3>1. pass[w].to \in Nat
      BY DEF ListingInvariant, ListingShape, Passes
    <3>2. now <= pass[w].to => pass[w].left = Products
      BY <2>1 DEF ListingInvariant, PassesRebuild
    <3> QED
      BY <1>1, <1>2, <3>1, <3>2
  <2> QED
    BY <1>1, <1>4, <2>1 DEF PassesRebuild, InSpan
<1>8. (RebuiltEarlier /\ WatermarkCovers)'
  BY <1>1, <1>4 DEF ListingInvariant, RebuiltEarlier, WatermarkCovers
<1>9. Products # {} => RebuildPending'
  BY <1>1, <1>2, <1>4 DEF ListingInvariant, RebuiltEarlier, RebuildPending
<1> QED
  BY <1>5, <1>6, <1>7, <1>8, <1>9 DEF ListingInvariant, RebuildHonoured

\* What the pass takes on covers its span: a wide window brings in every product.
LEMMA ReadTaskKeeps ==
    ASSUME ListingInvariant, NEW w \in Processes, ReadTask(w)
    PROVE  ListingInvariant'
<1> DEFINE from == task.watermark
<1> DEFINE to == pass[w].to
<1> DEFINE crossed == Crossed(from, to)
<1> DEFINE rebuild == RebuildPending \/ crossed \cap WideWindows # {}
<1> DEFINE left == IF rebuild THEN Products ELSE UNION {Reach[v] : v \in crossed}
<1> DEFINE row == [step |-> "refresh", from |-> from, to |-> to, rebuild |-> rebuild, left |-> left]
<1>1. /\ task \in Task /\ pass \in [Processes -> Passes] /\ now \in Nat
      /\ \A q \in Processes : pass[q].to <= now
      /\ UNCHANGED <<now, task, indexed, seen, writes, requested>>
  BY DEF ReadTask, ListingInvariant, ListingShape
<1>2. from \in Nat /\ to \in Nat /\ to <= now
  BY <1>1 DEF Task, Passes
<1>3. left \subseteq Products
  BY ListingAssumption DEF Crossed
<1>4. \A v \in Windows : from < CrossesAt[v] /\ CrossesAt[v] <= to => ReachOf(v) \subseteq left
  BY ListingAssumption DEF Crossed, ReachOf
<1>5. rebuild \in BOOLEAN /\ (rebuild => left = Products)
  OBVIOUS
<1>6. pass' = [pass EXCEPT ![w] = row]
  BY DEF ReadTask
<1> HIDE DEF from, to, rebuild, left
<1>7. /\ row \in Passes /\ row.step = "refresh" /\ row.from = from /\ row.to = to
      /\ row.rebuild = rebuild /\ row.left = left
  BY <1>2, <1>3, <1>5 DEF Passes, PassSteps
<1> HIDE DEF row
<1>8. pass' \in [Processes -> Passes] /\ pass'[w] = row /\ \A q \in Processes : q # w => pass'[q] = pass[q]
  BY <1>1, <1>6, <1>7
<1>9. ListingShape'
  BY <1>1, <1>2, <1>7, <1>8 DEF ListingInvariant, ListingShape
<1>10. PassesCover'
  <2>1. ASSUME NEW v \in Windows, CrossesAt[v] <= from
        PROVE  CoveredBut(v, {})
    BY <2>1 DEF from, ListingInvariant, WatermarkCovers, CoveredBut, ReachOf
  <2>2. ASSUME NEW v \in Windows, from < CrossesAt[v], CrossesAt[v] <= to
        PROVE  CoveredBut(v, left)
    BY <1>4, <2>2 DEF CoveredBut
  <2>3. ASSUME NEW v \in Windows, NEW some
        PROVE  CoveredBut(v, some)' <=> CoveredBut(v, some)
    BY <1>1 DEF CoveredBut
  <2>4. ASSUME NEW q \in Processes, q # w, InSpan(q)'
        PROVE  /\ \A v \in Windows :
                    /\ CrossesAt[v] <= pass[q].from => CoveredBut(v, {})
                    /\ pass[q].from < CrossesAt[v] /\ CrossesAt[v] <= pass[q].to
                         => CoveredBut(v, pass[q].left)
               /\ pass[q].step = "complete" => pass[q].left = {}
    BY <1>8, <2>4 DEF ListingInvariant, PassesCover, InSpan
  <2>5. ASSUME NEW q \in Processes, InSpan(q)'
        PROVE  /\ \A v \in Windows :
                    /\ CrossesAt[v] <= pass'[q].from => CoveredBut(v, {})
                    /\ pass'[q].from < CrossesAt[v] /\ CrossesAt[v] <= pass'[q].to
                         => CoveredBut(v, pass'[q].left)
               /\ pass'[q].step = "complete" => pass'[q].left = {}
    BY <1>7, <1>8, <2>1, <2>2, <2>4, <2>5
  <2> QED
    BY <1>1, <2>5 DEF PassesCover, CoveredBut
<1>11. PassesRebuild'
  <2>1. ASSUME NEW q \in Processes, q # w
        PROVE  InSpan(q)' <=> InSpan(q)
    BY <1>8, <2>1 DEF InSpan
  <2> QED
    BY <1>1, <1>5, <1>7, <1>8, <2>1 DEF ListingInvariant, PassesRebuild
<1>12. (RebuiltEarlier /\ WatermarkCovers /\ RebuildHonoured)'
  BY <1>1 DEF ListingInvariant, RebuiltEarlier, WatermarkCovers, RebuildHonoured, RebuildPending
<1> QED
  BY <1>9, <1>10, <1>11, <1>12 DEF ListingInvariant

\* A row computed now covers every window up to now and has seen every write so far.
LEMMA RowComputed ==
    ASSUME ListingInvariant, NEW p \in Products,
           indexed' = [indexed EXCEPT ![p] = now], seen' = [seen EXCEPT ![p] = writes]
    PROVE  /\ indexed' \in [Products -> Nat] /\ seen' \in [Products -> Nat]
           /\ indexed'[p] = now /\ seen'[p] = writes
           /\ \A r \in Products : /\ indexed'[r] >= indexed[r] /\ indexed'[r] <= now
                                  /\ seen[r] >= requested => seen'[r] >= requested
BY DEF ListingInvariant, ListingShape

LEMMA CoverageGrows ==
    ASSUME ListingInvariant, NEW p \in Products,
           indexed' = [indexed EXCEPT ![p] = now], seen' = [seen EXCEPT ![p] = writes],
           NEW v \in Windows, NEW left \in SUBSET Products
    PROVE  /\ CoveredBut(v, left) => CoveredBut(v, left)'
           /\ CoveredBut(v, left) /\ CrossesAt[v] <= now => CoveredBut(v, left \ {p})'
<1>1. ReachOf(v) \subseteq Products /\ CrossesAt[v] \in Nat
  BY ListingAssumption DEF ReachOf
<1>2. /\ indexed' \in [Products -> Nat] /\ indexed'[p] = now /\ now \in Nat
      /\ indexed \in [Products -> Nat] /\ \A r \in Products : indexed'[r] >= indexed[r]
  BY RowComputed DEF ListingInvariant, ListingShape
<1>3. ReachOf(v)' = ReachOf(v)
  BY DEF ReachOf
<1>4. ASSUME NEW r \in Products, indexed[r] >= CrossesAt[v]
      PROVE  indexed'[r] >= CrossesAt[v]
  BY <1>1, <1>2, <1>4
<1>5. CrossesAt[v] <= now => indexed'[p] >= CrossesAt[v]
  BY <1>1, <1>2
<1> QED
  BY <1>1, <1>4, <1>5 DEF CoveredBut

LEMMA RefreshOnEventKeeps ==
    ASSUME ListingInvariant, NEW p \in Products, RefreshOnEvent(p)
    PROVE  ListingInvariant'
<1>1. /\ indexed' = [indexed EXCEPT ![p] = now] /\ seen' = [seen EXCEPT ![p] = writes]
      /\ UNCHANGED <<now, task, writes, requested, pass>>
  BY DEF RefreshOnEvent
<1>2. /\ indexed' \in [Products -> Nat] /\ seen' \in [Products -> Nat]
      /\ \A r \in Products : /\ indexed'[r] <= now
                             /\ seen[r] >= requested => seen'[r] >= requested
  BY <1>1, RowComputed
<1>3. ListingShape'
  BY <1>1, <1>2 DEF ListingInvariant, ListingShape
<1>4. \A v \in Windows, left \in SUBSET Products : CoveredBut(v, left) => CoveredBut(v, left)'
  BY <1>1, CoverageGrows
<1>5. \A w \in Processes : pass[w].left \in SUBSET Products
  BY DEF ListingInvariant, ListingShape, Passes
<1>6. PassesCover'
  BY <1>1, <1>4, <1>5 DEF ListingInvariant, PassesCover, InSpan
<1>7. PassesRebuild'
  BY <1>1, <1>2 DEF ListingInvariant, PassesRebuild, InSpan
<1>8. WatermarkCovers'
  <2>1. ASSUME NEW v \in Windows, CrossesAt[v] <= task.watermark
        PROVE  CoveredBut(v, {})'
    <3>1. CoveredBut(v, {})
      BY <2>1 DEF ListingInvariant, WatermarkCovers, CoveredBut, ReachOf
    <3> QED
      BY <1>4, <3>1
  <2>2. ASSUME NEW v \in Windows
        PROVE  CoveredBut(v, {})' => \A r \in ReachOf(v) : indexed'[r] >= CrossesAt[v]
    BY DEF CoveredBut, ReachOf
  <2> QED
    BY <1>1, <2>1, <2>2 DEF WatermarkCovers, ReachOf
<1>9. (RebuiltEarlier /\ RebuildHonoured)'
  BY <1>1, <1>2 DEF ListingInvariant, RebuiltEarlier, RebuildHonoured, RebuildPending
<1> QED
  BY <1>3, <1>6, <1>7, <1>8, <1>9 DEF ListingInvariant

\* The refresh is later than the pass: it covers the whole span, and a rebuild request
\* up to the pass was made before it.
LEMMA RefreshKeeps ==
    ASSUME ListingInvariant, NEW w \in Processes, NEW p \in Products, Refresh(w, p)
    PROVE  ListingInvariant'
<1> DEFINE row == [step |-> "renew", from |-> pass[w].from, to |-> pass[w].to,
                   left |-> pass[w].left \ {p}, rebuild |-> pass[w].rebuild]
<1>1. /\ indexed' = [indexed EXCEPT ![p] = now] /\ seen' = [seen EXCEPT ![p] = writes]
      /\ UNCHANGED <<now, task, writes, requested>>
      /\ pass[w].step = "refresh" /\ now > pass[w].to
  BY DEF Refresh, PassAt
<1>2. /\ indexed' \in [Products -> Nat] /\ seen' \in [Products -> Nat]
      /\ seen'[p] = writes
      /\ \A r \in Products : /\ indexed'[r] <= now
                             /\ seen[r] >= requested => seen'[r] >= requested
  BY <1>1, RowComputed
<1>3. /\ pass \in [Processes -> Passes] /\ now \in Nat /\ writes \in Nat /\ requested \in Nat
      /\ requested <= writes /\ \A q \in Processes : pass[q].to <= now
  BY DEF ListingInvariant, ListingShape
<1>4. /\ row \in Passes /\ row.step = "renew" /\ row.from = pass[w].from /\ row.to = pass[w].to
      /\ row.left = pass[w].left \ {p} /\ row.rebuild = pass[w].rebuild
  BY <1>3 DEF Passes, PassSteps
<1>5. pass' = [pass EXCEPT ![w] = row]
  <2> DEFINE first == [pass[w] EXCEPT !.left = @ \ {p}]
  <2>1. first = [step |-> pass[w].step, from |-> pass[w].from, to |-> pass[w].to,
                 left |-> pass[w].left \ {p}, rebuild |-> pass[w].rebuild]
    BY <1>3 DEF Passes
  <2>2. pass' = [pass EXCEPT ![w] = [first EXCEPT !.step = "renew"]]
    BY <1>3 DEF Refresh
  <2> HIDE DEF first
  <2>3. [first EXCEPT !.step = "renew"] = row
    BY <2>1
  <2> QED
    BY <2>2, <2>3
<1> HIDE DEF row
<1>6. pass' \in [Processes -> Passes] /\ pass'[w] = row /\ \A q \in Processes : q # w => pass'[q] = pass[q]
  BY <1>3, <1>4, <1>5
<1>7. \A q \in Processes : pass'[q].to <= now
  BY <1>3, <1>4, <1>6
<1>8. ListingShape'
  BY <1>1, <1>2, <1>6, <1>7 DEF ListingInvariant, ListingShape
<1>9. ASSUME NEW q \in Processes
      PROVE  /\ pass[q].left \in SUBSET Products /\ pass[q].to \in Nat
             /\ InSpan(q)' => InSpan(q)
             /\ pass'[q].from = pass[q].from /\ pass'[q].to = pass[q].to
             /\ pass'[q].rebuild = pass[q].rebuild
             /\ \/ pass'[q].left = pass[q].left /\ pass'[q].step = pass[q].step
                \/ q = w /\ pass'[q].left = pass[q].left \ {p} /\ pass'[q].step # "complete"
  BY <1>1, <1>3, <1>4, <1>6 DEF InSpan, Passes
<1>10. PassesCover'
  <2> DEFINE NowCovered(v, left) == \A r \in ReachOf(v) \ left : indexed'[r] >= CrossesAt[v]
  <2>1. ASSUME NEW v \in Windows, NEW left \in SUBSET Products
        PROVE  /\ CoveredBut(v, left) => NowCovered(v, left)
               /\ CoveredBut(v, left) /\ CrossesAt[v] <= now => NowCovered(v, left \ {p})
    <3>1. /\ CoveredBut(v, left) => CoveredBut(v, left)'
          /\ CoveredBut(v, left) /\ CrossesAt[v] <= now => CoveredBut(v, left \ {p})'
      BY <1>1, CoverageGrows
    <3>2. \A some : CoveredBut(v, some)' <=> NowCovered(v, some)
      BY DEF CoveredBut, ReachOf
    <3> QED
      BY <3>1, <3>2
  <2>2. \A v \in Windows : \A left : NowCovered(v, left) <=> CoveredBut(v, left)'
    BY DEF CoveredBut, ReachOf
  <2> HIDE DEF NowCovered
  <2>3. ASSUME NEW q \in Processes, InSpan(q)', NEW v \in Windows
        PROVE  /\ CrossesAt[v] <= pass'[q].from => NowCovered(v, {})
               /\ pass'[q].from < CrossesAt[v] /\ CrossesAt[v] <= pass'[q].to
                    => NowCovered(v, pass'[q].left)
    <3>1. /\ CrossesAt[v] <= pass[q].from => CoveredBut(v, {})
          /\ pass[q].from < CrossesAt[v] /\ CrossesAt[v] <= pass[q].to => CoveredBut(v, pass[q].left)
      BY <1>9, <2>3 DEF ListingInvariant, PassesCover
    <3>2. CrossesAt[v] <= pass[q].to => CrossesAt[v] <= now
      BY <1>3, <1>9, ListingAssumption
    <3>3. pass[q].left \in SUBSET Products /\ {} \in SUBSET Products
      BY <1>9
    <3>4. CrossesAt[v] <= pass'[q].from => NowCovered(v, {})
      BY <1>9, <2>1, <3>1, <3>3
    <3>5. CASE pass'[q].left = pass[q].left
      BY <1>9, <2>1, <3>1, <3>3, <3>4, <3>5
    <3>6. CASE pass'[q].left = pass[q].left \ {p}
      BY <1>9, <2>1, <3>1, <3>2, <3>3, <3>4, <3>6
    <3> QED
      BY <1>9, <3>5, <3>6
  <2>4. ASSUME NEW q \in Processes, InSpan(q)', pass'[q].step = "complete"
        PROVE  pass'[q].left = {}
    BY <1>9, <2>4 DEF ListingInvariant, PassesCover
  <2> QED
    BY <1>1, <2>2, <2>3, <2>4 DEF PassesCover, NowCovered, CoveredBut, ReachOf
<1>11. PassesRebuild'
  <2>1. ASSUME NEW q \in Processes, InSpan(q)', pass'[q].rebuild
        PROVE  /\ now <= pass'[q].to => pass'[q].left = Products
               /\ task.rebuildRequestedAt <= pass'[q].to =>
                    \A r \in Products \ pass'[q].left : seen'[r] >= requested
    <3>1. /\ now <= pass[q].to => pass[q].left = Products
          /\ task.rebuildRequestedAt <= pass[q].to =>
               \A r \in Products \ pass[q].left : seen[r] >= requested
      BY <1>9, <2>1 DEF ListingInvariant, PassesRebuild
    <3>2. q = w => ~(now <= pass[q].to)
      BY <1>1, <1>3, <1>9
    <3>3. seen'[p] >= requested
      BY <1>2, <1>3
    <3> QED
      BY <1>2, <1>9, <3>1, <3>2, <3>3
  <2> QED
    BY <1>1, <2>1 DEF PassesRebuild
<1>12. WatermarkCovers'
  <2>1. ASSUME NEW v \in Windows, CrossesAt[v] <= task.watermark
        PROVE  CoveredBut(v, {})'
    <3>1. CoveredBut(v, {}) /\ {} \in SUBSET Products
      BY <2>1 DEF ListingInvariant, WatermarkCovers, CoveredBut, ReachOf
    <3> QED
      BY <1>1, <3>1, CoverageGrows
  <2>2. ASSUME NEW v \in Windows
        PROVE  CoveredBut(v, {})' => \A r \in ReachOf(v) : indexed'[r] >= CrossesAt[v]
    BY DEF CoveredBut, ReachOf
  <2> QED
    BY <1>1, <2>1, <2>2 DEF WatermarkCovers, ReachOf
<1>13. (RebuiltEarlier /\ RebuildHonoured)'
  BY <1>1, <1>2 DEF ListingInvariant, RebuiltEarlier, RebuildHonoured, RebuildPending
<1> QED
  BY <1>8, <1>10, <1>11, <1>12, <1>13 DEF ListingInvariant

\* A completed pass has nothing left: it may move the watermark to its instant, and the
\* requests up to that instant are met.
LEMMA CompleteKeeps ==
    ASSUME ListingInvariant, NEW w \in Processes, Complete(w)
    PROVE  ListingInvariant'
<1>1. /\ UNCHANGED <<now, indexed, seen, writes, requested>>
      /\ pass[w].step = "complete" /\ EndPass(w)
  BY DEF Complete, PassAt
<1>2. /\ task \in Task /\ pass \in [Processes -> Passes] /\ now \in Nat
      /\ \A q \in Processes : pass[q].to <= now
  BY DEF ListingInvariant, ListingShape
<1>3. InSpan(w) /\ pass[w].left = {} /\ pass[w] \in Passes
  BY <1>1, <1>2 DEF ListingInvariant, PassesCover, InSpan
<1>4. CASE task.owner # w
  <2>1. task' \in Task /\ SameMarks
    BY <1>2, <1>4 DEF Complete, SameMarks
  <2> QED
    BY <1>1, <2>1, OnePassMovesKeeps DEF PassSteps
<1>5. CASE task.owner = w
  <2> DEFINE rebuilt == IF pass[w].rebuild THEN pass[w].to ELSE task.lastRebuiltAt
  <2>1. task' = [owner |-> Nobody, expired |-> FALSE, watermark |-> pass[w].to,
                 rebuildRequestedAt |-> task.rebuildRequestedAt, lastRebuiltAt |-> rebuilt]
    BY <1>5 DEF Complete, StampOf
  <2>2. pass[w].to \in Nat /\ pass[w].from \in Nat /\ rebuilt \in Nat /\ task.rebuildRequestedAt \in Nat
    BY <1>2, <1>3 DEF Passes, Task
  <2>3. /\ task' \in Task /\ task'.watermark = pass[w].to /\ task'.lastRebuiltAt = rebuilt
        /\ task'.rebuildRequestedAt = task.rebuildRequestedAt
    BY <2>1, <2>2 DEF Task
  <2>4. /\ pass' \in [Processes -> Passes] /\ pass'[w] = NoPass
        /\ \A q \in Processes : q # w => pass'[q] = pass[q]
    BY <1>1, PassMoves DEF PassSteps
  <2>5. ListingShape'
    BY <1>1, <1>2, <2>3, <2>4 DEF ListingInvariant, ListingShape, NoPass
  <2>6. \A q \in Processes : InSpan(q)' => q # w /\ InSpan(q)
    BY <2>4 DEF InSpan, NoPass
  <2>7. PassesCover'
    BY <1>1, <2>4, <2>6 DEF ListingInvariant, PassesCover, CoveredBut
  <2>8. PassesRebuild'
    BY <1>1, <2>3, <2>4, <2>6 DEF ListingInvariant, PassesRebuild
  <2>9. WatermarkCovers'
    <3>1. ASSUME NEW v \in Windows, CrossesAt[v] <= pass[w].to
          PROVE  CoveredBut(v, {})
      <4>1. CrossesAt[v] \in Nat
        BY ListingAssumption
      <4>2. CrossesAt[v] <= pass[w].from \/ pass[w].from < CrossesAt[v]
        BY <2>2, <4>1
      <4> QED
        BY <1>3, <3>1, <4>2 DEF ListingInvariant, PassesCover
    <3> QED
      BY <1>1, <2>3, <3>1 DEF WatermarkCovers, CoveredBut, ReachOf
  <2>10. RebuiltEarlier'
    <3>1. Products # {} /\ pass[w].rebuild => ~(now <= pass[w].to)
      BY <1>3 DEF ListingInvariant, PassesRebuild
    <3> QED
      BY <1>1, <1>2, <2>2, <2>3, <3>1 DEF ListingInvariant, RebuiltEarlier
  <2>11. RebuildHonoured'
    <3>1. CASE pass[w].rebuild
      <4>1. task.rebuildRequestedAt <= pass[w].to => \A p \in Products : seen[p] >= requested
        BY <1>3, <3>1 DEF ListingInvariant, PassesRebuild
      <4> QED
        BY <1>1, <2>2, <2>3, <3>1, <4>1 DEF RebuildHonoured, RebuildPending
    <3>2. CASE ~pass[w].rebuild
      BY <1>1, <2>3, <3>2 DEF ListingInvariant, RebuildHonoured, RebuildPending
    <3> QED
      BY <3>1, <3>2
  <2> QED
    BY <2>5, <2>7, <2>8, <2>9, <2>10, <2>11 DEF ListingInvariant
<1> QED
  BY <1>4, <1>5

LEMMA ListingStepKeeps ==
    ASSUME ListingInvariant, [ListingNext]_listingVars
    PROVE  ListingInvariant'
<1>1. CASE \E w \in Processes : Acquire(w) \/ KeepAlive(w) \/ AllRefreshed(w) \/ ProcessDies(w)
  BY <1>1, LeaseStepKeeps
<1>2. CASE \E w \in Processes : StartPass(w)
  BY <1>2, StartPassKeeps
<1>3. CASE \E w \in Processes : ReadTask(w)
  BY <1>3, ReadTaskKeeps
<1>4. CASE \E w \in Processes : Complete(w)
  BY <1>4, CompleteKeeps
<1>5. CASE \E w \in Processes, p \in Products : Refresh(w, p)
  BY <1>5, RefreshKeeps
<1>6. CASE \E p \in Products : RefreshOnEvent(p)
  BY <1>6, RefreshOnEventKeeps
<1>7. CASE Tick \/ PricingWrite \/ RequestRebuild \/ LeaseExpires
  BY <1>7, TickKeeps, PricingWriteKeeps, RequestRebuildKeeps, LeaseExpiresKeeps
<1>8. CASE UNCHANGED listingVars
  BY <1>8 DEF listingVars, ListingInvariant, ListingShape, PassesCover, PassesRebuild, InSpan, CoveredBut,
     RebuiltEarlier, WatermarkCovers, RebuildHonoured, RebuildPending
<1> QED
  BY <1>1, <1>2, <1>3, <1>4, <1>5, <1>6, <1>7, <1>8 DEF ListingNext

LEMMA ListingAlways == ListingSpec => []ListingInvariant
BY ListingStarts, ListingStepKeeps, PTL DEF ListingSpec

\* The variables of the index and its reconciler keep their types.
THEOREM ListingTypeCorrect == ListingSpec => []ListingTypeOK
<1>1. ListingInvariant => ListingTypeOK
  BY DEF ListingInvariant, ListingShape, ListingTypeOK, Passes, PassSteps
<1> QED
  BY <1>1, ListingAlways, PTL

\* No price window the watermark has passed is missing from the index, whatever processes
\* die or lose their lease on the way: what a pass refreshes is later than its span, and
\* only a pass with nothing left moves the watermark.
THEOREM NoWindowIsSkipped == ListingSpec => []WatermarkCovers
<1>1. ListingInvariant => WatermarkCovers
  BY DEF ListingInvariant
<1> QED
  BY <1>1, ListingAlways, PTL

\* While no rebuild is pending, every row has seen every pricing write that asked for one:
\* a request made while a pass runs is later than the pass, and stays pending.
THEOREM RebuildsAreHonoured == ListingSpec => []RebuildHonoured
<1>1. ListingInvariant => RebuildHonoured
  BY DEF ListingInvariant
<1> QED
  BY <1>1, ListingAlways, PTL

-------------------------------------------------------------------------------
(***************************************************************************)
(* The cart                                                                *)
(***************************************************************************)
CartSteps == {"idle", "find", "insert", "add", "set", "remove", "clear", "save", "fix", "merge",
              "upsert", "clamp", "swap", "delete", "mark", "fixing", "lines", "settle",
              "count", "counted", "stale"}
CartStatuses == {"absent", "ACTIVE", "ABANDONED", "EXPIRED", "MERGED", "CONVERTED"}
Requested == CartTasks \ {"abandon", "expire", "convert"}
Lines == Cardinality(Configurations)
CartRow == [status: CartStatuses, owner: Owners, itemCount: 0..Lines]
LineRow == [qty: Nat, saved: BOOLEAN]
Quantities == [Configurations -> Nat]
TabRow == [step: CartSteps, task: CartTasks \cup {"none"}, owner: Owners,
           of: Carts \cup {0}, guest: Carts \cup {0}, key: Configurations \cup {"none"},
           qty: Nat, count: 0..Lines, room: BOOLEAN,
           held: SUBSET Configurations, todo: SUBSET Configurations,
           ours: Quantities, theirs: [Configurations -> LineRow]]

\* What a request knows at its step: its line, its cart, and that what a merge is about to
\* settle a line to is within the ceiling.
TabFits(t) ==
    /\ t.step \notin {"idle", "stale"} => t.key \in Configurations
    /\ t.step \notin {"idle", "find", "insert"} => t.of \in Carts
    /\ t.step \in {"find", "insert"} => t.task \in Requested
    /\ t.step = "add" => t.task # "merge"
    /\ t.step \in {"fix", "fixing"} => "fix" \in CartTasks
    /\ t.step = "settle" \/ (t.step \in {"upsert", "clamp"} /\ t.task = "merge")
       => t.qty <= CeilingOf[t.key]

CartShape ==
    /\ cart \in [Carts -> CartRow]
    /\ line \in [Carts -> [Configurations -> LineRow]]
    /\ tab \in [Tabs -> TabRow]
    /\ \A w \in Tabs : TabFits(tab[w])

TabBecomes(w, t) == tab' = [tab EXCEPT ![w] = t]

LEMMA TabsKeepShape ==
    ASSUME CartShape, NEW w \in Tabs, NEW t \in TabRow, TabFits(t), TabBecomes(w, t),
           cart' \in [Carts -> CartRow], line' \in [Carts -> [Configurations -> LineRow]]
    PROVE  CartShape'
<1>1. tab' \in [Tabs -> TabRow]
  BY DEF CartShape, TabBecomes
<1>2. ASSUME NEW v \in Tabs PROVE TabFits(tab'[v])
  <2>1. CASE v = w
    BY <2>1 DEF CartShape, TabBecomes
  <2>2. CASE v # w
    BY <2>2 DEF CartShape, TabBecomes
  <2> QED
    BY <2>1, <2>2
<1> QED
  BY <1>1, <1>2 DEF CartShape

LEMMA ClosedTabFits == ClosedTab \in TabRow /\ TabFits(ClosedTab)
<1>1. Lines \in Nat
  BY CartAssumption, FS_CardinalityType DEF Lines
<1> QED
  BY <1>1 DEF ClosedTab, TabRow, TabFits, CartSteps, Owners, Quantities, LineRow, NoLine

LEMMA TurningTab ==
    ASSUME CartShape, NEW w \in Tabs, NEW step \in CartSteps, Turn(w, step)
    PROVE  /\ TabBecomes(w, [tab[w] EXCEPT !.step = step])
           /\ [tab[w] EXCEPT !.step = step] \in TabRow
BY DEF CartShape, Turn, TabBecomes, TabRow

LEMMA CartStarts == CartInit => CartShape
<1> SUFFICES ASSUME CartInit PROVE CartShape
  OBVIOUS
<1>1. Lines \in Nat
  BY CartAssumption, FS_CardinalityType DEF Lines
<1>2. cart \in [Carts -> CartRow]
  BY <1>1 DEF CartInit, CartRow, CartStatuses, Unopened, Owners
<1>3. line \in [Carts -> [Configurations -> LineRow]]
  BY DEF CartInit, LineRow, NoLine
<1>4. tab \in [Tabs -> TabRow] /\ \A w \in Tabs : TabFits(tab[w])
  BY ClosedTabFits DEF CartInit
<1> QED
  BY <1>2, <1>3, <1>4 DEF CartShape

\* A step that only goes on.
LEMMA TurningKeepsShape ==
    ASSUME CartShape, NEW w \in Tabs, NEW step \in CartSteps, Turn(w, step),
           tab[w].step \notin {"idle", "find", "insert", "stale"},
           step = "settle" => tab[w].task = "merge" /\ tab[w].step \in {"upsert", "clamp"},
           step \notin {"find", "insert", "add", "clamp", "fix", "fixing"}, step = "upsert" => tab[w].task # "merge",
           cart' \in [Carts -> CartRow], line' \in [Carts -> [Configurations -> LineRow]]
    PROVE  CartShape'
<1> DEFINE t == [tab[w] EXCEPT !.step = step]
<1>1. TabBecomes(w, t) /\ t \in TabRow
  BY TurningTab
<1>2. /\ t.step = step /\ t.task = tab[w].task /\ t.of = tab[w].of
      /\ t.key = tab[w].key /\ t.qty = tab[w].qty
  BY DEF CartShape, TabRow
<1>3. TabFits(tab[w])
  BY DEF CartShape
<1> HIDE DEF t
<1>4. TabFits(t)
  BY <1>2, <1>3 DEF TabFits
<1> QED
  BY <1>1, <1>4, TabsKeepShape

LEMMA ClosingKeepsShape ==
    ASSUME CartShape, NEW w \in Tabs, CloseTab(w),
           cart' \in [Carts -> CartRow], line' \in [Carts -> [Configurations -> LineRow]]
    PROVE  CartShape'
BY ClosedTabFits, TabsKeepShape DEF CloseTab, TabBecomes

LEMMA OpeningKeepsShape ==
    ASSUME CartShape, NEW w \in Tabs, NEW what \in CartTasks, NEW owner \in Owners,
           NEW k \in Configurations, NEW qty \in Additions \cup {0}, OpenTab(w, what, owner, k, qty)
    PROVE  CartShape'
<1> DEFINE t == [ClosedTab EXCEPT !.step = "find", !.task = what, !.owner = owner, !.key = k, !.qty = qty]
<1>1. TabBecomes(w, t) /\ what \in Requested
  BY DEF OpenTab, TabBecomes, Requested
<1>2. t \in TabRow
  <2>1. qty \in Nat /\ what \in CartTasks \cup {"none"} /\ k \in Configurations \cup {"none"}
    BY CartAssumption
  <2>2. ClosedTab \in TabRow
    BY ClosedTabFits
  <2>3. "find" \in CartSteps
    BY DEF CartSteps
  <2> HIDE DEF t
  <2> QED
    BY <2>1, <2>2, <2>3 DEF TabRow, t
<1>3. t.step = "find" /\ t.task = what /\ t.key = k
  BY DEF ClosedTab
<1> HIDE DEF t
<1>4. TabFits(t)
  BY <1>1, <1>3 DEF TabFits
<1>5. cart' = cart /\ line' = line
  BY DEF OpenTab
<1> QED
  BY <1>1, <1>2, <1>4, <1>5, TabsKeepShape DEF CartShape

LEMMA CountIsSmall ==
    ASSUME NEW keys \in SUBSET Configurations
    PROVE  Cardinality(keys) \in 0..Lines
<1>1. Cardinality(keys) \in Nat /\ Cardinality(keys) <= Lines /\ Lines \in Nat
  BY CartAssumption, FS_Subset, FS_CardinalityType DEF Lines
<1> QED
  BY <1>1

LEMMA RowsAreLines ==
    ASSUME CartShape, NEW c \in Carts
    PROVE  /\ InCart(c) \in SUBSET Configurations /\ Rows(c) \in SUBSET Configurations
           /\ QtyOf(c) \in Quantities /\ line[c] \in [Configurations -> LineRow]
BY DEF CartShape, InCart, Rows, QtyOf, Quantities, LineRow

\* A request that is at a task of its own name.
LEMMA RequestedAreSteps == Requested \subseteq CartSteps \ {"idle", "find", "insert", "stale", "upsert", "clamp", "settle", "fixing"}
BY CartAssumption DEF Requested, CartSteps

LEMMA FindingKeepsShape ==
    ASSUME CartShape, NEW w \in Tabs, FindCart(w)
    PROVE  CartShape'
<1>0. tab[w] \in TabRow /\ TabFits(tab[w]) /\ tab[w].step = "find"
  BY DEF CartShape, FindCart, TabAt
<1>1. cart' = cart /\ line' = line
  BY DEF FindCart
<1>2. CASE ActiveCart(tab[w].owner) = {}
  <2> DEFINE t == [tab[w] EXCEPT !.step = "insert"]
  <2>1. TabBecomes(w, t) /\ t \in TabRow
    BY <1>2, TurningTab DEF FindCart, CartSteps
  <2>2. t.step = "insert" /\ t.key = tab[w].key /\ t.task = tab[w].task
    BY <1>0 DEF TabRow
  <2> HIDE DEF t
  <2>3. TabFits(t)
    BY <1>0, <2>2 DEF TabFits
  <2> QED
    BY <1>1, <2>1, <2>3, TabsKeepShape DEF CartShape
<1>3. CASE ActiveCart(tab[w].owner) # {}
  <2>1. PICK c \in ActiveCart(tab[w].owner) :
              tab' = [tab EXCEPT ![w].step = tab[w].task, ![w].of = c,
                                 ![w].room = Cardinality(InCart(c)) < MaxLines,
                                 ![w].ours = IF TabDoes(w, "merge") THEN QtyOf(c) ELSE @,
                                 ![w].held = IF TabDoes(w, "merge") THEN Rows(c) ELSE @]
    BY <1>3 DEF FindCart
  <2> DEFINE ours == IF TabDoes(w, "merge") THEN QtyOf(c) ELSE tab[w].ours
             held == IF TabDoes(w, "merge") THEN Rows(c) ELSE tab[w].held
             room == Cardinality(InCart(c)) < MaxLines
             t == [tab[w] EXCEPT !.step = tab[w].task, !.of = c, !.room = room, !.ours = ours, !.held = held]
  <2>2. c \in Carts
    BY DEF ActiveCart
  <2>3. room \in BOOLEAN /\ ours \in Quantities /\ held \in SUBSET Configurations
    BY <1>0, <2>2, RowsAreLines DEF TabRow
  <2>4. tab[w].task \in Requested /\ tab[w].key \in Configurations
    BY <1>0 DEF TabFits
  <2>5. tab[w].task \in CartSteps \ {"idle", "find", "insert", "stale", "upsert", "clamp", "settle", "fixing"}
    BY <2>4, RequestedAreSteps
  <2> HIDE DEF ours, held, room
  <2>6. TabBecomes(w, t)
    BY <2>1 DEF TabBecomes, CartShape, ours, held, room
  <2>7. /\ t \in TabRow /\ t.step = tab[w].task /\ t.of = c /\ t.key = tab[w].key
        /\ t.task = tab[w].task /\ t.qty = tab[w].qty
    BY <1>0, <2>2, <2>3, <2>5 DEF TabRow
  <2> HIDE DEF t
  <2>8. TabFits(t)
    BY <2>2, <2>4, <2>5, <2>7 DEF TabFits, Requested
  <2> QED
    BY <1>1, <2>6, <2>7, <2>8, TabsKeepShape DEF CartShape
<1> QED
  BY <1>2, <1>3

LEMMA InsertingKeepsShape ==
    ASSUME CartShape, NEW w \in Tabs, InsertCart(w)
    PROVE  CartShape'
<1>0. tab[w] \in TabRow /\ TabFits(tab[w]) /\ tab[w].step = "insert"
  BY DEF CartShape, InsertCart, TabAt
<1>1. line' = line
  BY DEF InsertCart
<1>2. CASE ActiveCart(tab[w].owner) # {}
  <2> DEFINE t == [tab[w] EXCEPT !.step = "find"]
  <2>1. TabBecomes(w, t) /\ t \in TabRow /\ cart' = cart
    BY <1>2, TurningTab DEF InsertCart, CartSteps
  <2>2. t.step = "find" /\ t.key = tab[w].key /\ t.task = tab[w].task
    BY <1>0 DEF TabRow
  <2> HIDE DEF t
  <2>3. TabFits(t)
    BY <1>0, <2>2 DEF TabFits
  <2> QED
    BY <1>1, <2>1, <2>3, TabsKeepShape DEF CartShape
<1>3. CASE ActiveCart(tab[w].owner) = {}
  <2>1. PICK c \in Carts :
              /\ cart' = [cart EXCEPT ![c] = [Unopened EXCEPT !.status = "ACTIVE", !.owner = tab[w].owner]]
              /\ tab' = [tab EXCEPT ![w].step = tab[w].task, ![w].of = c]
    BY <1>3 DEF InsertCart
  <2> DEFINE t == [tab[w] EXCEPT !.step = tab[w].task, !.of = c]
             row == [Unopened EXCEPT !.status = "ACTIVE", !.owner = tab[w].owner]
  <2>2. tab[w].task \in Requested /\ tab[w].key \in Configurations
    BY <1>0 DEF TabFits
  <2>3. tab[w].task \in CartSteps \ {"idle", "find", "insert", "stale", "upsert", "clamp", "settle", "fixing"}
    BY <2>2, RequestedAreSteps
  <2>4. TabBecomes(w, t)
    BY <2>1 DEF TabBecomes, CartShape
  <2>5. /\ t \in TabRow /\ t.step = tab[w].task /\ t.of = c /\ t.key = tab[w].key
        /\ t.task = tab[w].task /\ t.qty = tab[w].qty
    BY <1>0, <2>3 DEF TabRow
  <2>6. row \in CartRow
    <3>1. {} \in SUBSET Configurations /\ Cardinality({}) = 0
      BY FS_EmptySet
    <3>2. 0 \in 0..Lines
      BY <3>1, CountIsSmall
    <3> QED
      BY <1>0, <3>2 DEF CartRow, CartStatuses, Unopened, TabRow
  <2> HIDE DEF t, row
  <2>7. TabFits(t)
    BY <2>2, <2>3, <2>5 DEF TabFits, Requested
  <2>8. cart' \in [Carts -> CartRow]
    BY <2>1, <2>6 DEF CartShape, row
  <2> QED
    BY <1>1, <2>4, <2>5, <2>7, <2>8, TabsKeepShape DEF CartShape
<1> QED
  BY <1>2, <1>3

LEMMA UpsertingKeepsShape ==
    ASSUME CartShape, NEW w \in Tabs, UpsertLine(w)
    PROVE  CartShape'
<1> DEFINE c == tab[w].of
           k == tab[w].key
           qty == FewerOf(tab[w].qty, CeilingOf[k])
           more == IF TabDoes(w, "merge") THEN 0 ELSE qty
           row == IF line[c][k].qty = 0
                  THEN [qty |-> qty, saved |-> TabDoes(w, "merge") /\ tab[w].theirs[k].saved]
                  ELSE [qty |-> line[c][k].qty + more, saved |-> FALSE]
           step == IF line'[c][k].qty > CeilingOf[k] THEN "clamp"
                   ELSE IF TabDoes(w, "merge") THEN "settle" ELSE "count"
           held == tab[w].held \cup {k}
           t == [tab[w] EXCEPT !.held = held, !.step = step]
<1>0. tab[w] \in TabRow /\ TabFits(tab[w]) /\ tab[w].step = "upsert"
  BY DEF CartShape, UpsertLine, TabAt
<1>1. c \in Carts /\ k \in Configurations /\ tab[w].qty \in Nat /\ CeilingOf[k] \in Nat
  BY <1>0, CartAssumption DEF TabFits, TabRow
<1>2. qty \in Nat /\ more \in Nat
  BY <1>1 DEF FewerOf
<1>3. row \in LineRow
  <2>1. line[c][k].qty \in Nat /\ tab[w].theirs[k].saved \in BOOLEAN
    BY <1>0, <1>1 DEF CartShape, LineRow, TabRow
  <2> HIDE DEF qty, more
  <2>2. line[c][k].qty + more \in Nat
    BY <1>2, <2>1
  <2> QED
    BY <1>2, <2>1, <2>2 DEF LineRow, TabDoes
<1>4. line' = [line EXCEPT ![c][k] = row]
  BY DEF UpsertLine, Mine
<1>5. cart' = cart /\ TabBecomes(w, t)
  BY DEF UpsertLine, TabBecomes, CartShape
<1> HIDE DEF row
<1>6. line' \in [Carts -> [Configurations -> LineRow]]
  BY <1>1, <1>3, <1>4 DEF CartShape
<1>7. step \in {"clamp", "settle", "count"} /\ (step = "settle" => tab[w].task = "merge")
  BY DEF TabDoes
<1> HIDE DEF step
<1>8. /\ t \in TabRow /\ t.step = step /\ t.of = c /\ t.key = k
      /\ t.task = tab[w].task /\ t.qty = tab[w].qty
  BY <1>0, <1>1, <1>7 DEF TabRow, CartSteps
<1> HIDE DEF t
<1>9. TabFits(t)
  BY <1>0, <1>1, <1>7, <1>8 DEF TabFits
<1> QED
  BY <1>5, <1>6, <1>8, <1>9, TabsKeepShape DEF CartShape

\* A row that is written, or deleted, leaves rows behind.
LEMMA LinesKeepShape ==
    ASSUME CartShape, NEW c \in Carts, NEW k \in Configurations, NEW row,
           \/ line' = line
           \/ row \in LineRow /\ line' = [line EXCEPT ![c][k] = row]
           \/ row \in Nat /\ line' = [line EXCEPT ![c][k].qty = row]
           \/ row \in BOOLEAN /\ line' = [line EXCEPT ![c][k].saved = row]
    PROVE  line' \in [Carts -> [Configurations -> LineRow]]
<1>1. CASE row \in LineRow /\ line' = [line EXCEPT ![c][k] = row]
  BY <1>1 DEF CartShape
<1>2. CASE row \in Nat /\ line' = [line EXCEPT ![c][k].qty = row]
  <2> DEFINE x == [line[c][k] EXCEPT !.qty = row]
  <2>1. line[c] \in [Configurations -> LineRow] /\ line[c][k] \in LineRow
    BY DEF CartShape
  <2>2. x \in LineRow
    BY <1>2, <2>1 DEF LineRow
  <2>3. line' = [line EXCEPT ![c] = [line[c] EXCEPT ![k] = x]]
    BY <1>2
  <2> HIDE DEF x
  <2> QED
    BY <2>1, <2>2, <2>3 DEF CartShape
<1>3. CASE row \in BOOLEAN /\ line' = [line EXCEPT ![c][k].saved = row]
  <2> DEFINE x == [line[c][k] EXCEPT !.saved = row]
  <2>1. line[c] \in [Configurations -> LineRow] /\ line[c][k] \in LineRow
    BY DEF CartShape
  <2>2. x \in LineRow
    BY <1>3, <2>1 DEF LineRow
  <2>3. line' = [line EXCEPT ![c] = [line[c] EXCEPT ![k] = x]]
    BY <1>3
  <2> HIDE DEF x
  <2> QED
    BY <2>1, <2>2, <2>3 DEF CartShape
<1> QED
  BY <1>1, <1>2, <1>3 DEF CartShape

\* A row that is deleted is lost to all requests that held it.
LEMMA DropsAre ==
    ASSUME CartShape, NEW c, NEW keys
    PROVE  /\ Drops(c, keys, tab) \in [Tabs -> TabRow]
           /\ \A v \in Tabs : /\ Drops(c, keys, tab)[v].step = tab[v].step
                              /\ Drops(c, keys, tab)[v].of = tab[v].of
                              /\ Drops(c, keys, tab)[v].key = tab[v].key
                              /\ Drops(c, keys, tab)[v].task = tab[v].task
                              /\ Drops(c, keys, tab)[v].qty = tab[v].qty
                              /\ Drops(c, keys, tab)[v].todo = tab[v].todo
                              /\ \/ Drops(c, keys, tab)[v].held = tab[v].held
                                 \/ /\ tab[v].of = c
                                    /\ Drops(c, keys, tab)[v].held = tab[v].held \ keys
<1>1. Drops(c, keys, tab) \in [Tabs -> TabRow]
  <2>1. \A v \in Tabs : tab[v] \in TabRow
    BY DEF CartShape
  <2>2. ASSUME NEW v \in Tabs PROVE [tab[v] EXCEPT !.held = @ \ keys] \in TabRow
    <3> DEFINE rest == tab[v].held \ keys
    <3>1. rest \in SUBSET Configurations
      BY <2>1 DEF TabRow
    <3> HIDE DEF rest
    <3>2. [tab[v] EXCEPT !.held = rest] \in TabRow
      BY <2>1, <3>1 DEF TabRow, rest
    <3> QED
      BY <3>2 DEF rest
  <2> QED
    BY <2>1, <2>2 DEF Drops
<1>2. ASSUME NEW v \in Tabs
      PROVE  LET x == Drops(c, keys, tab)[v]
             IN  /\ x.step = tab[v].step /\ x.of = tab[v].of /\ x.key = tab[v].key
                 /\ x.task = tab[v].task /\ x.qty = tab[v].qty /\ x.todo = tab[v].todo
                 /\ \/ x.held = tab[v].held
                    \/ tab[v].of = c /\ x.held = tab[v].held \ keys
  <2>1. tab[v] \in TabRow
    BY DEF CartShape
  <2>2. Drops(c, keys, tab)[v] = IF tab[v].of = c THEN [tab[v] EXCEPT !.held = @ \ keys] ELSE tab[v]
    BY DEF Drops
  <2> DEFINE y == [tab[v] EXCEPT !.held = @ \ keys]
  <2>3. /\ y.step = tab[v].step /\ y.of = tab[v].of /\ y.key = tab[v].key
        /\ y.task = tab[v].task /\ y.qty = tab[v].qty /\ y.todo = tab[v].todo
        /\ y.held = tab[v].held \ keys
    BY <2>1 DEF TabRow
  <2> HIDE DEF y
  <2>4. Drops(c, keys, tab)[v] = IF tab[v].of = c THEN y ELSE tab[v]
    BY <2>2 DEF y
  <2> QED
    BY <2>3, <2>4
<1> QED
  BY <1>1, <1>2

LEMMA DroppingKeepsShape ==
    ASSUME CartShape, NEW w \in Tabs, NEW c, NEW keys, NEW t \in TabRow, TabFits(t),
           tab' = [Drops(c, keys, tab) EXCEPT ![w] = t],
           cart' \in [Carts -> CartRow], line' \in [Carts -> [Configurations -> LineRow]]
    PROVE  CartShape'
<1> DEFINE drops == Drops(c, keys, tab)
<1>1. drops \in [Tabs -> TabRow] /\ tab' = [drops EXCEPT ![w] = t]
  BY DropsAre
<1>2. \A v \in Tabs : /\ drops[v].step = tab[v].step /\ drops[v].of = tab[v].of
                      /\ drops[v].key = tab[v].key /\ drops[v].task = tab[v].task
                      /\ drops[v].qty = tab[v].qty
  BY DropsAre
<1> HIDE DEF drops
<1>3. tab' \in [Tabs -> TabRow] /\ tab'[w] = t /\ \A v \in Tabs \ {w} : tab'[v] = drops[v]
  BY <1>1
<1>4. \A v \in Tabs : TabFits(tab[v])
  BY DEF CartShape
<1>5. \A v \in Tabs \ {w} : TabFits(tab'[v])
  BY <1>2, <1>3, <1>4 DEF TabFits
<1> QED
  BY <1>3, <1>5 DEF CartShape

\* What a step that deletes makes of the requests: one goes on, the others lose the row.
Dropped(w, c, keys, step) ==
    /\ tab'[w].step = step
    /\ \A v \in Tabs \ {w} :
          /\ tab'[v].step = tab[v].step /\ tab'[v].of = tab[v].of /\ tab'[v].key = tab[v].key
          /\ \/ tab'[v].held = tab[v].held
             \/ tab[v].of = c /\ tab'[v].held = tab[v].held \ keys

LEMMA DeletingDrops ==
    ASSUME CartShape, NEW w \in Tabs, NEW c, NEW keys, NEW todo \in SUBSET Configurations,
           NEW step \in {"count", "fixing"}, tab[w].step \notin {"idle", "find", "insert", "stale"},
           step = "fixing" => tab[w].step = "fixing",
           \/ tab' = [Drops(c, keys, tab) EXCEPT ![w].step = step]
           \/ tab' = [Drops(c, keys, tab) EXCEPT ![w].todo = todo, ![w].step = step],
           cart' \in [Carts -> CartRow], line' \in [Carts -> [Configurations -> LineRow]]
    PROVE  CartShape' /\ Dropped(w, c, keys, step)
<1> DEFINE drops == Drops(c, keys, tab)
<1>1. /\ drops \in [Tabs -> TabRow]
      /\ \A v \in Tabs : /\ drops[v].step = tab[v].step /\ drops[v].of = tab[v].of
                         /\ drops[v].key = tab[v].key
                         /\ \/ drops[v].held = tab[v].held
                            \/ tab[v].of = c /\ drops[v].held = tab[v].held \ keys
  BY DropsAre
<1>2. \/ tab' = [drops EXCEPT ![w].step = step]
      \/ tab' = [drops EXCEPT ![w].todo = todo, ![w].step = step]
  OBVIOUS
<1>3. step \in CartSteps /\ TabFits(tab[w])
  BY DEF CartSteps, CartShape
<1>4. ASSUME NEW t \in TabRow, tab' = [drops EXCEPT ![w] = t], t.step = step,
             t.of = drops[w].of, t.key = drops[w].key
      PROVE  CartShape' /\ Dropped(w, c, keys, step)
  <2>1. TabFits(t)
    BY <1>1, <1>3, <1>4 DEF TabFits
  <2>2. CartShape'
    BY <1>4, <2>1, DroppingKeepsShape
  <2> HIDE DEF drops
  <2> QED
    BY <1>1, <1>4, <2>2 DEF Dropped
<1> HIDE DEF drops
<1>5. CASE tab' = [drops EXCEPT ![w].step = step]
  <2> DEFINE t == [drops[w] EXCEPT !.step = step]
  <2>1. tab' = [drops EXCEPT ![w] = t]
    BY <1>1, <1>5
  <2>2. drops[w] \in TabRow
    BY <1>1
  <2>3. t \in TabRow /\ t.step = step /\ t.of = drops[w].of /\ t.key = drops[w].key
    BY <1>3, <2>2 DEF TabRow
  <2> HIDE DEF t
  <2> QED
    BY <1>4, <2>1, <2>3
<1>6. CASE tab' = [drops EXCEPT ![w].todo = todo, ![w].step = step]
  <2> DEFINE t == [drops[w] EXCEPT !.todo = todo, !.step = step]
  <2>1. tab' = [drops EXCEPT ![w] = t]
    BY <1>1, <1>6
  <2>2. drops[w] \in TabRow
    BY <1>1
  <2>3. t \in TabRow /\ t.step = step /\ t.of = drops[w].of /\ t.key = drops[w].key
    BY <1>3, <2>2 DEF TabRow
  <2> HIDE DEF t
  <2> QED
    BY <1>4, <2>1, <2>3
<1> QED
  BY <1>2, <1>5, <1>6

LEMMA MergedFits ==
    ASSUME CartShape, NEW w \in Tabs, NEW k \in Configurations
    PROVE  MergedQty(w, k) \in Nat /\ MergedQty(w, k) <= CeilingOf[k]
<1>1. tab[w].ours[k] \in Nat /\ tab[w].theirs[k].qty \in Nat
  BY DEF CartShape, TabRow, Quantities, LineRow
<1>2. CeilingOf[k] \in Nat \ {0} /\ AvailableOf[k] \in Nat
  BY CartAssumption
<1> QED
  BY <1>1, <1>2 DEF MergedQty, FewerOf

LEMMA QuantityKeepsShape ==
    ASSUME CartShape, NEW c \in Carts, NEW k \in Configurations, NEW qty \in Nat,
           line' = line \/ line' = [line EXCEPT ![c][k].qty = qty]
    PROVE  line' \in [Carts -> [Configurations -> LineRow]]
<1>1. CASE line' = line
  BY <1>1 DEF CartShape
<1>2. CASE line' = [line EXCEPT ![c][k].qty = qty]
  BY <1>2, LinesKeepShape
<1> QED
  BY <1>1, <1>2

LEMMA PlainStepsKeepShape ==
    ASSUME CartShape, NEW w \in Tabs,
           \/ CheckRoom(w) \/ ClampLine(w) \/ SwapQty(w) \/ MarkLine(w) \/ NothingToFix(w)
           \/ SettleLine(w) \/ RetireGuest(w) \/ WriteCount(w) \/ MarkStale(w) \/ TabDies(w)
    PROVE  CartShape'
<1>0. tab[w] \in TabRow /\ TabFits(tab[w])
  BY DEF CartShape
<1>1. tab[w].step \notin {"idle", "find", "insert", "stale"} =>
        tab[w].of \in Carts /\ tab[w].key \in Configurations
  BY <1>0 DEF TabFits
<1>2. tab[w].qty \in Nat /\ CeilingOf \in [Configurations -> Nat]
  BY <1>0, CartAssumption DEF TabRow
<1> DEFINE cartKept == cart' \in [Carts -> CartRow]
           lineKept == line' \in [Carts -> [Configurations -> LineRow]]
<1>3. CASE CheckRoom(w)
  <2>1. cartKept /\ lineKept
    BY <1>3 DEF CheckRoom, CartShape
  <2>2. tab[w].step = "add" /\ tab[w].task # "merge"
    BY <1>0, <1>3 DEF CheckRoom, TabAt, TabFits
  <2>3. Turn(w, "upsert") \/ CloseTab(w)
    BY <1>3 DEF CheckRoom
  <2> QED
    BY <2>1, <2>2, <2>3, TurningKeepsShape, ClosingKeepsShape DEF CartSteps
<1>4. CASE ClampLine(w)
  <2>1. tab[w].step = "clamp"
    BY <1>4 DEF ClampLine, TabAt
  <2>2. /\ cart' = cart
        /\ \/ line' = line
           \/ line' = [line EXCEPT ![tab[w].of][tab[w].key].qty = CeilingOf[tab[w].key]]
    BY <1>4 DEF ClampLine, ClampTo
  <2>a. CeilingOf[tab[w].key] \in Nat /\ tab[w].of \in Carts /\ tab[w].key \in Configurations
    BY <1>1, <1>2, <2>1
  <2>b. lineKept
    BY <2>a, <2>2, QuantityKeepsShape
  <2>3. cartKept /\ lineKept
    BY <2>b, <2>2 DEF CartShape
  <2>4. \/ CloseTab(w)
        \/ Turn(w, "settle") /\ tab[w].task = "merge"
        \/ Turn(w, "count")
    BY <1>4 DEF ClampLine, TabDoes
  <2> QED
    BY <2>1, <2>3, <2>4, TurningKeepsShape, ClosingKeepsShape DEF CartSteps
<1>5. CASE SwapQty(w)
  <2>1. tab[w].step = "swap"
    BY <1>5 DEF SwapQty, TabAt
  <2> DEFINE qty == FewerOf(tab[w].qty, CeilingOf[tab[w].key])
  <2>2. cart' = cart /\ (line' = line \/ line' = [line EXCEPT ![tab[w].of][tab[w].key].qty = qty])
    BY <1>5 DEF SwapQty
  <2>3. qty \in Nat
    BY <1>1, <1>2, <2>1 DEF FewerOf
  <2> HIDE DEF qty
  <2>a. tab[w].of \in Carts /\ tab[w].key \in Configurations
    BY <1>1, <2>1
  <2>b. lineKept
    BY <2>a, <2>2, <2>3, QuantityKeepsShape
  <2>4. cartKept /\ lineKept
    BY <2>b, <2>2 DEF CartShape
  <2>5. CloseTab(w) \/ Turn(w, "count")
    BY <1>5 DEF SwapQty
  <2> QED
    BY <2>1, <2>4, <2>5, TurningKeepsShape, ClosingKeepsShape DEF CartSteps
<1>6. CASE MarkLine(w)
  <2>1. tab[w].step = "mark"
    BY <1>6 DEF MarkLine, TabAt
  <2>2. PICK saved \in BOOLEAN :
              cart' = cart /\ (line' = line \/ line' = [line EXCEPT ![tab[w].of][tab[w].key].saved = saved])
    BY <1>6 DEF MarkLine
  <2>3. cartKept /\ lineKept
    BY <1>1, <2>1, <2>2, LinesKeepShape DEF CartShape
  <2>4. CloseTab(w) \/ Turn(w, "count")
    BY <1>6 DEF MarkLine
  <2> QED
    BY <2>1, <2>3, <2>4, TurningKeepsShape, ClosingKeepsShape DEF CartSteps
<1>7. CASE SettleLine(w)
  <2>1. tab[w].step = "settle"
    BY <1>7 DEF SettleLine, TabAt
  <2> DEFINE qty == IF line[tab[w].of][tab[w].key].qty = 0 THEN 0 ELSE tab[w].qty
  <2>2. cart' = cart /\ line' = [line EXCEPT ![tab[w].of][tab[w].key].qty = qty]
    BY <1>7, <1>1, <2>1 DEF SettleLine, CartShape, LineRow
  <2>3. qty \in Nat
    BY <1>2
  <2> HIDE DEF qty
  <2>4. cartKept /\ lineKept
    BY <1>1, <2>1, <2>2, <2>3, LinesKeepShape DEF CartShape
  <2>5. Turn(w, "lines")
    BY <1>7 DEF SettleLine
  <2> QED
    BY <2>1, <2>4, <2>5, TurningKeepsShape DEF CartSteps
<1>8. CASE RetireGuest(w)
  <2>1. lineKept /\ tab[w].step = "lines" /\ Turn(w, "count")
    BY <1>8 DEF RetireGuest, TabAt, CartShape
  <2>2. cartKept
    BY <1>8 DEF RetireGuest, CartShape, CartRow, CartStatuses
  <2> QED
    BY <2>1, <2>2, TurningKeepsShape DEF CartSteps
<1>9. CASE WriteCount(w)
  <2>1. tab[w].count \in 0..Lines
    BY <1>0 DEF TabRow
  <2>2. cartKept
    BY <1>9, <2>1 DEF WriteCount, CartShape, CartRow
  <2>3. lineKept /\ CloseTab(w)
    BY <1>9 DEF WriteCount, CartShape
  <2> QED
    BY <2>2, <2>3, ClosingKeepsShape
<1>10. CASE MarkStale(w)
  <2> DEFINE status == IF cart[tab[w].of].status = "CONVERTED" THEN "CONVERTED"
                       ELSE IF TabDoes(w, "abandon") THEN "ABANDONED" ELSE "EXPIRED"
  <2>1. cart' = [cart EXCEPT ![tab[w].of].status = status]
    BY <1>0, <1>1, <1>10 DEF MarkStale, CartShape, CartRow, TabAt, TabFits
  <2>2. status \in CartStatuses
    BY DEF CartStatuses
  <2> HIDE DEF status
  <2>3. cartKept
    BY <2>1, <2>2 DEF CartShape, CartRow
  <2>4. lineKept /\ CloseTab(w)
    BY <1>10 DEF MarkStale, CartShape
  <2> QED
    BY <2>3, <2>4, ClosingKeepsShape
<1>11. CASE NothingToFix(w) \/ TabDies(w)
  <2>1. cartKept /\ lineKept /\ CloseTab(w)
    BY <1>11 DEF NothingToFix, TabDies, CartShape
  <2> QED
    BY <2>1, ClosingKeepsShape
<1> QED
  BY <1>3, <1>4, <1>5, <1>6, <1>7, <1>8, <1>9, <1>10, <1>11

LEMMA ReadingKeepsShape ==
    ASSUME CartShape, NEW w \in Tabs,
           ReadLine(w) \/ ReadForFix(w) \/ FindGuest(w) \/ CountLines(w)
    PROVE  CartShape'
<1>0. tab[w] \in TabRow /\ TabFits(tab[w])
  BY DEF CartShape
<1>1. /\ cart' = cart /\ line' = line
      /\ tab[w].step \in {"set", "remove", "save", "fix", "merge", "count"}
  BY DEF ReadLine, ReadForFix, FindGuest, CountLines, TabAt
<1>2. tab[w].of \in Carts /\ tab[w].key \in Configurations
  BY <1>0, <1>1 DEF TabFits
<1>3. CASE CloseTab(w)
  BY <1>1, <1>3, ClosingKeepsShape DEF CartShape
<1>4. ASSUME NEW t \in TabRow, TabBecomes(w, t), t.of = tab[w].of, t.key = tab[w].key,
             t.step \in {"swap", "delete", "mark", "fixing", "lines", "counted"},
             t.step = "fixing" => tab[w].step = "fix"
      PROVE  CartShape'
  <2>1. TabFits(t)
    BY <1>0, <1>2, <1>4 DEF TabFits
  <2> QED
    BY <1>1, <1>4, <2>1, TabsKeepShape DEF CartShape
<1>5. CASE ReadLine(w) /\ ~CloseTab(w)
  <2> DEFINE step == IF TabDoes(w, "set") THEN "swap" ELSE IF TabDoes(w, "remove") THEN "delete" ELSE "mark"
             k == tab[w].key
             ours == [tab[w].ours EXCEPT ![k] = line[tab[w].of][k].qty]
             t == [tab[w] EXCEPT !.step = step, !.ours = ours, !.held = {k}]
  <2>1. ours \in Quantities
    BY <1>0, <1>2 DEF CartShape, Quantities, LineRow, TabRow
  <2>2. step \in {"swap", "delete", "mark"} /\ step \in CartSteps
    BY DEF CartSteps
  <2>3. tab' = [tab EXCEPT ![w].step = step, ![w].ours[k] = line[tab[w].of][k].qty, ![w].held = {k}]
    BY <1>5 DEF ReadLine, Mine
  <2>4. TabBecomes(w, t)
    <3>1. tab \in [Tabs -> TabRow]
      BY DEF CartShape
    <3> HIDE DEF step
    <3> QED
      BY <2>3, <3>1 DEF TabBecomes
  <2> HIDE DEF step, ours
  <2>5. t \in TabRow /\ t.of = tab[w].of /\ t.key = tab[w].key /\ t.step = step
    BY <1>0, <1>2, <2>1, <2>2 DEF TabRow
  <2> HIDE DEF t
  <2> QED
    BY <1>4, <2>2, <2>4, <2>5
<1>6. CASE ReadForFix(w)
  <2> DEFINE todo == {k \in Configurations : NeedsFix(k, Mine(w)[k])}
             ours == QtyOf(tab[w].of)
             held == Rows(tab[w].of)
             t == [tab[w] EXCEPT !.todo = todo, !.ours = ours, !.held = held, !.step = "fixing"]
  <2>1. todo \in SUBSET Configurations /\ ours \in Quantities /\ held \in SUBSET Configurations
    BY <1>2, RowsAreLines
  <2>2. tab' = [tab EXCEPT ![w].todo = todo, ![w].ours = ours, ![w].held = held, ![w].step = "fixing"]
    BY <1>6 DEF ReadForFix
  <2> HIDE DEF todo, ours, held
  <2>3. TabBecomes(w, t)
    BY <2>2 DEF TabBecomes, CartShape
  <2>4. t \in TabRow /\ t.of = tab[w].of /\ t.key = tab[w].key /\ t.step = "fixing"
    BY <1>0, <2>1 DEF TabRow, CartSteps
  <2>5. tab[w].step = "fix"
    BY <1>6 DEF ReadForFix, TabAt
  <2> HIDE DEF t
  <2> QED
    BY <1>4, <2>3, <2>4, <2>5
<1>7. CASE FindGuest(w) /\ ~CloseTab(w)
  <2>1. PICK g \in Carts :
              tab' = [tab EXCEPT ![w].step = "lines", ![w].guest = g, ![w].todo = Rows(g), ![w].theirs = line[g]]
    BY <1>7 DEF FindGuest, ActiveCart
  <2> DEFINE todo == Rows(g)
             theirs == line[g]
             t == [tab[w] EXCEPT !.step = "lines", !.guest = g, !.todo = todo, !.theirs = theirs]
  <2>2. todo \in SUBSET Configurations /\ theirs \in [Configurations -> LineRow]
    BY RowsAreLines
  <2> HIDE DEF todo, theirs
  <2>3. TabBecomes(w, t)
    BY <2>1 DEF TabBecomes, CartShape, todo, theirs
  <2>4. t \in TabRow /\ t.of = tab[w].of /\ t.key = tab[w].key /\ t.step = "lines"
    BY <1>0, <2>2 DEF TabRow, CartSteps
  <2> HIDE DEF t
  <2> QED
    BY <1>4, <2>3, <2>4
<1>8. CASE CountLines(w)
  <2> DEFINE count == Cardinality(InCart(tab[w].of))
             t == [tab[w] EXCEPT !.step = "counted", !.count = count]
  <2>1. count \in 0..Lines
    BY <1>2, RowsAreLines, CountIsSmall
  <2>2. tab' = [tab EXCEPT ![w].step = "counted", ![w].count = count]
    BY <1>8 DEF CountLines
  <2> HIDE DEF count
  <2>3. TabBecomes(w, t)
    BY <2>2 DEF TabBecomes, CartShape
  <2>4. t \in TabRow /\ t.of = tab[w].of /\ t.key = tab[w].key /\ t.step = "counted"
    BY <1>0, <2>1 DEF TabRow, CartSteps
  <2> HIDE DEF t
  <2> QED
    BY <1>4, <2>3, <2>4
<1> QED
  BY <1>3, <1>5, <1>6, <1>7, <1>8

LEMMA MergingKeepsShape ==
    ASSUME CartShape, NEW w \in Tabs, NEW k \in Configurations, MergeLine(w, k)
    PROVE  CartShape'
<1>0. tab[w] \in TabRow /\ TabFits(tab[w]) /\ tab[w].step = "lines" /\ cart' = cart
  BY DEF CartShape, MergeLine, TabAt
<1>1. tab[w].of \in Carts /\ tab[w].key \in Configurations
  BY <1>0 DEF TabFits
<1> DEFINE qty == MergedQty(w, k)
           todo == tab[w].todo \ {k}
<1>2. qty \in Nat /\ qty <= CeilingOf[k] /\ todo \in SUBSET Configurations
  BY <1>0, MergedFits DEF TabRow
<1>3. \/ line' = line /\ tab' = [tab EXCEPT ![w].todo = todo, ![w].key = k, ![w].qty = qty, ![w].step = "upsert"]
      \/ line' = [line EXCEPT ![tab[w].of][k].qty = qty] /\ tab' = [tab EXCEPT ![w].todo = todo]
      \/ line' = line /\ CloseTab(w)
  BY DEF MergeLine
<1> HIDE DEF qty, todo
<1>4. line' \in [Carts -> [Configurations -> LineRow]]
  BY <1>1, <1>2, <1>3, QuantityKeepsShape
<1>5. CASE CloseTab(w)
  BY <1>0, <1>4, <1>5, ClosingKeepsShape DEF CartShape
<1>6. CASE tab' = [tab EXCEPT ![w].todo = todo]
  <2> DEFINE t == [tab[w] EXCEPT !.todo = todo]
  <2>1. TabBecomes(w, t)
    BY <1>6 DEF TabBecomes, CartShape
  <2>2. t \in TabRow /\ t.of = tab[w].of /\ t.key = tab[w].key /\ t.step = "lines"
    BY <1>0, <1>2 DEF TabRow
  <2> HIDE DEF t
  <2>3. TabFits(t)
    BY <1>1, <2>2 DEF TabFits
  <2> QED
    BY <1>0, <1>4, <2>1, <2>2, <2>3, TabsKeepShape DEF CartShape
<1>7. CASE tab' = [tab EXCEPT ![w].todo = todo, ![w].key = k, ![w].qty = qty, ![w].step = "upsert"]
  <2> DEFINE t == [tab[w] EXCEPT !.todo = todo, !.key = k, !.qty = qty, !.step = "upsert"]
  <2>1. TabBecomes(w, t)
    BY <1>7 DEF TabBecomes, CartShape
  <2>2. t \in TabRow /\ t.of = tab[w].of /\ t.key = k /\ t.step = "upsert" /\ t.qty = qty
    BY <1>0, <1>2 DEF TabRow, CartSteps
  <2> HIDE DEF t
  <2>3. TabFits(t)
    BY <1>1, <1>2, <2>2 DEF TabFits
  <2> QED
    BY <1>0, <1>4, <2>1, <2>2, <2>3, TabsKeepShape DEF CartShape
<1> QED
  BY <1>3, <1>5, <1>6, <1>7

LEMMA ListingKeepsCartShape ==
    ASSUME CartShape, NEW w \in Tabs, NEW c \in Carts, NEW what \in CartTasks, ListStale(w, c, what)
    PROVE  CartShape'
<1> DEFINE t == [ClosedTab EXCEPT !.step = "stale", !.task = what, !.of = c]
<1>1. TabBecomes(w, t) /\ cart' = cart /\ line' = line
  BY DEF ListStale, TabBecomes
<1>2. t.step = "stale" /\ t.of = c
  BY DEF ClosedTab
<1>3. t \in TabRow
  <2>1. ClosedTab \in TabRow /\ what \in CartTasks \cup {"none"} /\ "stale" \in CartSteps
    BY ClosedTabFits DEF CartSteps
  <2> HIDE DEF t
  <2> QED
    BY <2>1 DEF TabRow, t
<1> HIDE DEF t
<1>4. TabFits(t)
  BY <1>2 DEF TabFits
<1> QED
  BY <1>1, <1>3, <1>4, TabsKeepShape DEF CartShape

\* The rows that are gone are no lines, the others are as they were.
Emptied(c, keys) ==
    \A d \in Carts, j \in Configurations :
        IF d = c /\ j \in keys THEN line'[d][j].qty = 0 ELSE line'[d][j] = line[d][j]

LEMMA DeleteLineDoes ==
    ASSUME CartShape, NEW w \in Tabs, DeleteLine(w)
    PROVE  /\ CartShape'
           /\ \/ line' = line /\ CloseTab(w) /\ tab[w].step = "delete"
              \/ /\ tab[w].step = "delete" /\ Emptied(tab[w].of, {tab[w].key})
                 /\ Dropped(w, tab[w].of, {tab[w].key}, "count")
<1> DEFINE c == tab[w].of
           k == tab[w].key
<1>1. tab[w].step = "delete" /\ TabFits(tab[w]) /\ cart' = cart /\ tab[w].todo \in SUBSET Configurations
  BY DEF DeleteLine, TabAt, CartShape, TabRow
<1>2. c \in Carts /\ k \in Configurations
  BY <1>1 DEF TabFits
<1>3. CASE CloseTab(w) /\ line' = line
  BY <1>1, <1>3, ClosingKeepsShape DEF CartShape
<1>4. CASE /\ line' = [line EXCEPT ![c][k] = NoLine]
           /\ tab' = [Drops(c, {k}, tab) EXCEPT ![w].step = "count"]
  <2>1. line' \in [Carts -> [Configurations -> LineRow]] /\ Emptied(c, {k})
    BY <1>2, <1>4 DEF CartShape, NoLine, LineRow, Emptied
  <2>2. CartShape' /\ Dropped(w, c, {k}, "count")
    BY <1>1, <1>4, <2>1, DeletingDrops DEF CartShape
  <2> QED
    BY <1>1, <2>1, <2>2
<1> QED
  BY <1>3, <1>4 DEF DeleteLine

LEMMA ClearDoes ==
    ASSUME CartShape, NEW w \in Tabs, ClearLines(w)
    PROVE  /\ CartShape' /\ tab[w].step = "clear"
           /\ Emptied(tab[w].of, Configurations) /\ Dropped(w, tab[w].of, Configurations, "count")
<1> DEFINE c == tab[w].of
<1>1. tab[w].step = "clear" /\ TabFits(tab[w]) /\ cart' = cart /\ tab[w].todo \in SUBSET Configurations
  BY DEF ClearLines, TabAt, CartShape, TabRow
<1>2. line' = [line EXCEPT ![c] = [k \in Configurations |-> NoLine]]
  BY DEF ClearLines
<1>3. line' \in [Carts -> [Configurations -> LineRow]] /\ Emptied(c, Configurations)
  BY <1>2 DEF CartShape, NoLine, LineRow, Emptied
<1>4. tab' = [Drops(c, Configurations, tab) EXCEPT ![w].step = "count"]
  BY DEF ClearLines
<1> QED
  BY <1>1, <1>3, <1>4, DeletingDrops DEF CartShape

LEMMA FixDoes ==
    ASSUME CartShape, NEW w \in Tabs, NEW k \in Configurations, FixLine(w, k)
    PROVE  /\ CartShape' /\ tab[w].step = "fixing" /\ tab[w].of \in Carts
           /\ \/ line' = line /\ CloseTab(w)
              \/ Emptied(tab[w].of, {k}) /\ \E step \in {"count", "fixing"} : Dropped(w, tab[w].of, {k}, step)
              \/ /\ line' = [line EXCEPT ![tab[w].of][k].qty = FixedQty(k, tab[w].ours[k])]
                 /\ \A v \in Tabs \ {w} : tab'[v] = tab[v]
<1> DEFINE c == tab[w].of
           qty == FixedQty(k, tab[w].ours[k])
           todo == tab[w].todo \ {k}
           step == IF tab[w].todo = {k} THEN "count" ELSE "fixing"
<1>1. tab[w].step = "fixing" /\ tab[w] \in TabRow /\ TabFits(tab[w]) /\ cart' = cart
  BY DEF FixLine, TabAt, CartShape
<1>2. c \in Carts /\ tab[w].key \in Configurations
  BY <1>1 DEF TabFits
<1>3. qty \in Nat /\ todo \in SUBSET Configurations /\ step \in {"count", "fixing"}
  BY <1>1, CartAssumption DEF FixedQty, TabRow
<1>4. CASE CloseTab(w) /\ line' = line
  BY <1>1, <1>2, <1>4, ClosingKeepsShape DEF CartShape
<1>5. CASE k \in tab[w].held /\ qty = 0
  <2>1. line' = [line EXCEPT ![c][k] = NoLine]
    BY <1>5 DEF FixLine
  <2>2. line' \in [Carts -> [Configurations -> LineRow]] /\ Emptied(c, {k})
    BY <1>2, <2>1 DEF CartShape, NoLine, LineRow, Emptied
  <2> DEFINE drops == Drops(c, {k}, tab)
  <2>3. tab' = [drops EXCEPT ![w].todo = @ \ {k}, ![w].step = step]
    BY <1>5 DEF FixLine
  <2>4. drops \in [Tabs -> TabRow] /\ drops[w].todo = tab[w].todo
    BY DropsAre
  <2>5. tab' = [drops EXCEPT ![w].todo = todo, ![w].step = step]
    <3> HIDE DEF drops, step
    <3> QED
      BY <2>3, <2>4
  <2> HIDE DEF step, todo
  <2>6. CartShape' /\ Dropped(w, c, {k}, step)
    <3>1. tab[w].step \notin {"idle", "find", "insert", "stale"} /\ cart' \in [Carts -> CartRow]
      BY <1>1 DEF CartShape
    <3>2. tab' = [Drops(c, {k}, tab) EXCEPT ![w].todo = todo, ![w].step = step]
      BY <2>5
    <3>3. todo \in SUBSET Configurations /\ step \in {"count", "fixing"}
      BY <1>3
    <3> HIDE DEF c, drops
    <3> QED
      BY <1>1, <2>2, <3>1, <3>2, <3>3, DeletingDrops
  <2> QED
    BY <1>1, <1>2, <1>3, <2>2, <2>6
<1>6. CASE k \in tab[w].held /\ qty # 0
  <2>1. line' = [line EXCEPT ![c][k] = [@ EXCEPT !.qty = qty]]
    BY <1>6 DEF FixLine
  <2>2. line' = [line EXCEPT ![c][k].qty = qty]
    <3> HIDE DEF qty
    <3> QED
      BY <2>1
  <2>3. line' \in [Carts -> [Configurations -> LineRow]]
    <3> HIDE DEF qty
    <3> QED
      BY <1>2, <1>3, <2>2, QuantityKeepsShape
  <2>4. tab' = [tab EXCEPT ![w].todo = @ \ {k}, ![w].step = step]
    BY <1>6 DEF FixLine
  <2> DEFINE t == [tab[w] EXCEPT !.todo = todo, !.step = step]
  <2>5. TabBecomes(w, t)
    <3> HIDE DEF step
    <3> QED
      BY <2>4 DEF TabBecomes, CartShape
  <2> HIDE DEF step, todo
  <2>6. t \in TabRow /\ t.of = tab[w].of /\ t.key = tab[w].key /\ t.step = step
    BY <1>1, <1>3 DEF TabRow, CartSteps
  <2> HIDE DEF t
  <2>7. TabFits(t)
    BY <1>1, <1>2, <1>3, <2>6 DEF TabFits
  <2>8. CartShape'
    BY <1>1, <2>3, <2>5, <2>6, <2>7, TabsKeepShape DEF CartShape
  <2>9. \A v \in Tabs \ {w} : tab'[v] = tab[v]
    BY <2>5 DEF TabBecomes, CartShape
  <2> QED
    BY <1>1, <1>2, <2>2, <2>8, <2>9
<1> QED
  BY <1>4, <1>5, <1>6 DEF FixLine

LEMMA CartStepKeepsShape == CartShape /\ [CartNext]_cartVars => CartShape'
<1> SUFFICES ASSUME CartShape, [CartNext]_cartVars
             PROVE  CartShape'
  OBVIOUS
<1>1. CASE UNCHANGED cartVars
  BY <1>1 DEF cartVars, CartShape
<1>2. ASSUME NEW c \in Carts, ConvertCart(c) PROVE CartShape'
  <2>1. cart' \in [Carts -> CartRow] /\ UNCHANGED <<line, tab>>
    BY <1>2 DEF ConvertCart, CartShape, CartRow, CartStatuses
  <2> QED
    BY <2>1 DEF CartShape
<1> QED
  BY <1>1, <1>2, OpeningKeepsShape, FindingKeepsShape, InsertingKeepsShape, UpsertingKeepsShape,
     PlainStepsKeepShape, ReadingKeepsShape, MergingKeepsShape, ListingKeepsCartShape,
     DeleteLineDoes, ClearDoes, FixDoes DEF CartNext

LEMMA CartAlways == CartSpec => []CartShape
BY CartStarts, CartStepKeepsShape, PTL DEF CartSpec

\* The cart's variables keep their types, for any configurations, carts, requests and
\* deaths: what is written was read from a row, clamped, or counted.
THEOREM CartTypeCorrect == CartSpec => []CartTypeOK
<1>1. CartShape => CartTypeOK
  <2> SUFFICES ASSUME CartShape PROVE CartTypeOK
    OBVIOUS
  <2>1. ASSUME NEW c \in Carts PROVE cart[c] \in CartRow /\ line[c] \in [Configurations -> LineRow]
    BY DEF CartShape
  <2>2. \A w \in Tabs : tab[w].held \cup tab[w].todo \subseteq Configurations
    BY DEF CartShape, TabRow
  <2> QED
    BY <2>1, <2>2 DEF CartTypeOK, CartRow, CartStatuses, LineRow, Lines
<1> QED
  BY <1>1, CartAlways, PTL

-------------------------------------------------------------------------------
(* Lines within their ceiling *)

\* No request dies between adding to a line and clamping it, and there are never more
\* pieces than a line may hold: a correction writes what is available, judged on a line
\* that may have been read before its clamp.
NoTabDies == MaxCartCrashes = 0
NoSpareStock == "fix" \in CartTasks => \A k \in Configurations : AvailableOf[k] <= CeilingOf[k]

\* A request that is about to clamp a line, and still holds its row.
Covers(v, c, k) == tab[v].step = "clamp" /\ tab[v].of = c /\ tab[v].key = k /\ k \in tab[v].held

ExcessIsCaught ==
    \A c \in Carts, k \in Configurations :
        line[c][k].qty > CeilingOf[k] => \E v \in Tabs : Covers(v, c, k)

OthersRest(w) == \A v \in Tabs \ {w} : tab'[v] = tab[v]

\* A step that writes no line, and is not the clamp.
LEMMA QuietStepCatches ==
    ASSUME ExcessIsCaught, NEW w \in Tabs, OthersRest(w), line' = line,
           tab[w].step # "clamp" \/ tab[w].key \notin tab[w].held
    PROVE  ExcessIsCaught'
<1> SUFFICES ASSUME NEW c \in Carts, NEW k \in Configurations, line'[c][k].qty > CeilingOf[k]
             PROVE  \E v \in Tabs : Covers(v, c, k)'
  BY DEF ExcessIsCaught
<1>1. PICK v \in Tabs : Covers(v, c, k)
  BY DEF ExcessIsCaught
<1>2. v # w
  BY <1>1 DEF Covers
<1>3. tab'[v] = tab[v]
  BY <1>2 DEF OthersRest
<1> QED
  BY <1>1, <1>3 DEF Covers

\* A step that sets one line within its ceiling: the clamp itself, or another request.
LEMMA WriteCatches ==
    ASSUME CartShape, ExcessIsCaught, NEW w \in Tabs, OthersRest(w),
           NEW c \in Carts, NEW k \in Configurations, NEW qty \in Nat, qty <= CeilingOf[k],
           line' = [line EXCEPT ![c][k].qty = qty],
           tab[w].step # "clamp" \/ (tab[w].of = c /\ tab[w].key = k)
    PROVE  ExcessIsCaught'
<1> SUFFICES ASSUME NEW d \in Carts, NEW j \in Configurations, line'[d][j].qty > CeilingOf[j]
             PROVE  \E v \in Tabs : Covers(v, d, j)'
  BY DEF ExcessIsCaught
<1>0. line[c] \in [Configurations -> LineRow] /\ CeilingOf[k] \in Nat
  BY CartAssumption DEF CartShape
<1>1. line'[c][k].qty = qty
  BY <1>0 DEF CartShape, LineRow
<1>2. ~(d = c /\ j = k)
  BY <1>0, <1>1
<1>3. line'[d][j] = line[d][j]
  BY <1>2 DEF CartShape
<1>4. PICK v \in Tabs : Covers(v, d, j)
  BY <1>3 DEF ExcessIsCaught
<1>5. v # w
  BY <1>2, <1>4 DEF Covers
<1>6. tab'[v] = tab[v]
  BY <1>5 DEF OthersRest
<1> QED
  BY <1>4, <1>6 DEF Covers

\* A step that deletes rows: who was about to clamp one has nothing to clamp any more.
LEMMA DeletionCatches ==
    ASSUME CartShape, ExcessIsCaught, NEW w \in Tabs, tab[w].step # "clamp", NEW c, NEW keys, NEW step,
           Emptied(c, keys), Dropped(w, c, keys, step)
    PROVE  ExcessIsCaught'
<1> SUFFICES ASSUME NEW d \in Carts, NEW j \in Configurations, line'[d][j].qty > CeilingOf[j]
             PROVE  \E v \in Tabs : Covers(v, d, j)'
  BY DEF ExcessIsCaught
<1>0. CeilingOf[j] \in Nat
  BY CartAssumption
<1>1. ~(d = c /\ j \in keys)
  BY <1>0 DEF Emptied
<1>2. line'[d][j] = line[d][j]
  BY <1>1 DEF Emptied
<1>3. PICK v \in Tabs : Covers(v, d, j)
  BY <1>2 DEF ExcessIsCaught
<1>4. v # w
  BY <1>3 DEF Covers
<1>5. /\ tab'[v].step = tab[v].step /\ tab'[v].of = tab[v].of /\ tab'[v].key = tab[v].key
      /\ \/ tab'[v].held = tab[v].held
         \/ tab[v].of = c /\ tab'[v].held = tab[v].held \ keys
  BY <1>4 DEF Dropped
<1>6. j \in tab'[v].held
  BY <1>1, <1>3, <1>5 DEF Covers
<1> QED
  BY <1>3, <1>5, <1>6 DEF Covers

LEMMA UpsertCatches ==
    ASSUME CartShape, ExcessIsCaught, NEW w \in Tabs, UpsertLine(w)
    PROVE  ExcessIsCaught'
<1> DEFINE c == tab[w].of
           k == tab[w].key
           step == IF line'[c][k].qty > CeilingOf[k] THEN "clamp"
                   ELSE IF TabDoes(w, "merge") THEN "settle" ELSE "count"
<1>0. tab[w].step = "upsert" /\ tab[w] \in TabRow /\ TabFits(tab[w])
  BY DEF UpsertLine, TabAt, CartShape
<1>1. c \in Carts /\ k \in Configurations
  BY <1>0 DEF TabFits
<1>2. tab' = [tab EXCEPT ![w].held = @ \cup {k}, ![w].step = step]
  BY DEF UpsertLine
<1>3. \A v \in Tabs \ {w} : tab'[v] = tab[v]
  BY <1>2 DEF CartShape
<1>4. \A d \in Carts, j \in Configurations : d # c \/ j # k => line'[d][j] = line[d][j]
  BY DEF UpsertLine, CartShape
<1>5. tab'[w].step = step /\ tab'[w].of = c /\ tab'[w].key = k /\ k \in tab'[w].held
  <2> HIDE DEF step
  <2> QED
    BY <1>0, <1>2 DEF CartShape, TabRow
<1> SUFFICES ASSUME NEW d \in Carts, NEW j \in Configurations, line'[d][j].qty > CeilingOf[j]
             PROVE  \E v \in Tabs : Covers(v, d, j)'
  BY DEF ExcessIsCaught
<1>6. CASE d = c /\ j = k
  <2>1. Covers(w, d, j)'
    BY <1>5, <1>6 DEF Covers
  <2> QED
    BY <2>1
<1>7. CASE ~(d = c /\ j = k)
  <2>1. PICK v \in Tabs : Covers(v, d, j)
    BY <1>4, <1>7 DEF ExcessIsCaught
  <2>2. tab'[v] = tab[v]
    BY <1>0, <1>3, <2>1 DEF Covers
  <2> QED
    BY <2>1, <2>2 DEF Covers
<1> QED
  BY <1>6, <1>7

LEMMA OthersAre ==
    ASSUME CartShape, NEW w \in Tabs,
           \/ \E what \in CartTasks, owner \in Owners, k \in Configurations, qty \in Additions \cup {0} :
                 OpenTab(w, what, owner, k, qty)
           \/ \E k \in Configurations : MergeLine(w, k)
           \/ \E c \in Carts, what \in CartTasks : ListStale(w, c, what)
           \/ FindCart(w) \/ InsertCart(w) \/ CheckRoom(w) \/ ClampLine(w)
           \/ ReadLine(w) \/ SwapQty(w) \/ MarkLine(w) \/ ReadForFix(w) \/ NothingToFix(w)
           \/ FindGuest(w) \/ SettleLine(w) \/ RetireGuest(w) \/ CountLines(w) \/ WriteCount(w)
           \/ MarkStale(w)
    PROVE  OthersRest(w)
BY DEF CartShape, OthersRest, OpenTab, MergeLine, ListStale, FindCart, InsertCart, CheckRoom, ClampLine,
   ReadLine, SwapQty, MarkLine, ReadForFix, NothingToFix, FindGuest, SettleLine, RetireGuest, CountLines,
   WriteCount, MarkStale, Turn, CloseTab

LEMMA QuietAre ==
    ASSUME CartShape, ExcessIsCaught, NEW w \in Tabs,
           \/ \E what \in CartTasks, owner \in Owners, k \in Configurations, qty \in Additions \cup {0} :
                 OpenTab(w, what, owner, k, qty)
           \/ \E c \in Carts, what \in CartTasks : ListStale(w, c, what)
           \/ FindCart(w) \/ InsertCart(w) \/ CheckRoom(w) \/ ReadLine(w) \/ ReadForFix(w)
           \/ NothingToFix(w) \/ FindGuest(w) \/ RetireGuest(w) \/ CountLines(w) \/ WriteCount(w)
           \/ MarkStale(w)
    PROVE  ExcessIsCaught'
<1>1. line' = line /\ tab[w].step # "clamp"
  BY DEF OpenTab, ListStale, FindCart, InsertCart, CheckRoom, ReadLine, ReadForFix, NothingToFix,
     FindGuest, RetireGuest, CountLines, WriteCount, MarkStale, TabAt
<1>2. OthersRest(w)
  BY OthersAre
<1> QED
  BY <1>1, <1>2, QuietStepCatches

LEMMA WritersCatch ==
    ASSUME CartShape, ExcessIsCaught, NEW w \in Tabs,
           ClampLine(w) \/ SwapQty(w) \/ SettleLine(w) \/ \E k \in Configurations : MergeLine(w, k)
    PROVE  ExcessIsCaught'
<1>0. /\ tab[w] \in TabRow /\ TabFits(tab[w]) /\ OthersRest(w)
      /\ tab[w].step \in {"clamp", "swap", "settle", "lines"}
  BY OthersAre DEF CartShape, ClampLine, SwapQty, SettleLine, MergeLine, TabAt
<1> DEFINE c == tab[w].of
           k == tab[w].key
<1>1. c \in Carts /\ k \in Configurations /\ tab[w].qty \in Nat /\ CeilingOf[k] \in Nat
  BY <1>0, CartAssumption DEF TabFits, TabRow
<1>2. CASE ClampLine(w)
  <2>1. tab[w].step = "clamp"
    BY <1>2 DEF ClampLine, TabAt
  <2>2. CASE k \in tab[w].held
    <3>1. line' = [line EXCEPT ![c][k].qty = CeilingOf[k]]
      BY <1>2, <2>2 DEF ClampLine, ClampTo
    <3> DEFINE most == CeilingOf[k]
    <3>2. most \in Nat /\ most <= CeilingOf[k] /\ line' = [line EXCEPT ![c][k].qty = most]
      BY <1>1, <3>1
    <3> HIDE DEF most
    <3> QED
      BY <1>0, <1>1, <3>2, WriteCatches
  <2>3. CASE k \notin tab[w].held
    BY <1>0, <1>2, <2>3, QuietStepCatches DEF ClampLine
  <2> QED
    BY <2>2, <2>3
<1>3. CASE SwapQty(w)
  <2> DEFINE qty == FewerOf(tab[w].qty, CeilingOf[k])
  <2>1. tab[w].step = "swap" /\ (line' = line \/ line' = [line EXCEPT ![c][k].qty = qty])
    BY <1>3 DEF SwapQty, TabAt
  <2>2. qty \in Nat /\ qty <= CeilingOf[k]
    BY <1>1 DEF FewerOf
  <2> HIDE DEF qty
  <2>3. CASE line' = line
    BY <1>0, <2>1, <2>3, QuietStepCatches
  <2>4. CASE line' = [line EXCEPT ![c][k].qty = qty]
    BY <1>0, <1>1, <2>1, <2>2, <2>4, WriteCatches
  <2> QED
    BY <2>1, <2>3, <2>4
<1>4. CASE SettleLine(w)
  <2> DEFINE qty == IF line[c][k].qty = 0 THEN 0 ELSE tab[w].qty
  <2>1. tab[w].step = "settle" /\ line' = [line EXCEPT ![c][k].qty = qty]
    BY <1>4, <1>1 DEF SettleLine, TabAt, CartShape, LineRow
  <2>2. qty \in Nat /\ qty <= CeilingOf[k]
    BY <1>0, <1>1, <2>1 DEF TabFits
  <2> HIDE DEF qty
  <2> QED
    BY <1>0, <1>1, <2>1, <2>2, WriteCatches
<1>5. ASSUME NEW j \in Configurations, MergeLine(w, j) PROVE ExcessIsCaught'
  <2> DEFINE qty == MergedQty(w, j)
  <2>1. tab[w].step = "lines" /\ (line' = line \/ line' = [line EXCEPT ![c][j].qty = qty])
    BY <1>5 DEF MergeLine, TabAt
  <2>2. qty \in Nat /\ qty <= CeilingOf[j]
    BY MergedFits
  <2> HIDE DEF qty
  <2>3. CASE line' = line
    BY <1>0, <2>1, <2>3, QuietStepCatches
  <2>4. CASE line' = [line EXCEPT ![c][j].qty = qty]
    BY <1>0, <1>1, <2>1, <2>2, <2>4, WriteCatches
  <2> QED
    BY <2>1, <2>3, <2>4
<1> QED
  BY <1>2, <1>3, <1>4, <1>5

LEMMA MarkingCatches ==
    ASSUME CartShape, ExcessIsCaught, NEW w \in Tabs, MarkLine(w)
    PROVE  ExcessIsCaught'
<1>1. tab[w].step = "mark" /\ OthersRest(w)
  BY OthersAre DEF MarkLine, TabAt
<1>2. \A d \in Carts, j \in Configurations : line'[d][j].qty = line[d][j].qty
  <2>1. CASE line' = line
    BY <2>1
  <2>2. ASSUME NEW saved \in BOOLEAN, line' = [line EXCEPT ![tab[w].of][tab[w].key].saved = saved]
        PROVE  \A d \in Carts, j \in Configurations : line'[d][j].qty = line[d][j].qty
    BY <2>2 DEF CartShape, LineRow
  <2> QED
    BY <2>1, <2>2 DEF MarkLine
<1> SUFFICES ASSUME NEW d \in Carts, NEW j \in Configurations, line'[d][j].qty > CeilingOf[j]
             PROVE  \E v \in Tabs : Covers(v, d, j)'
  BY DEF ExcessIsCaught
<1>3. PICK v \in Tabs : Covers(v, d, j)
  BY <1>2 DEF ExcessIsCaught
<1>4. tab'[v] = tab[v]
  BY <1>1, <1>3 DEF Covers, OthersRest
<1> QED
  BY <1>3, <1>4 DEF Covers

LEMMA DeletersCatch ==
    ASSUME CartShape, ExcessIsCaught, NoSpareStock, NEW w \in Tabs,
           DeleteLine(w) \/ ClearLines(w) \/ \E k \in Configurations : FixLine(w, k)
    PROVE  ExcessIsCaught'
<1>1. CASE DeleteLine(w)
  <2>1. CASE line' = line /\ CloseTab(w) /\ tab[w].step = "delete"
    <3>1. OthersRest(w)
      BY <2>1 DEF CloseTab, OthersRest, CartShape
    <3> QED
      BY <2>1, <3>1, QuietStepCatches
  <2>2. CASE /\ tab[w].step = "delete" /\ Emptied(tab[w].of, {tab[w].key})
             /\ Dropped(w, tab[w].of, {tab[w].key}, "count")
    BY <2>2, DeletionCatches
  <2> QED
    BY <1>1, <2>1, <2>2, DeleteLineDoes
<1>2. CASE ClearLines(w)
  <2>1. /\ tab[w].step = "clear" /\ Emptied(tab[w].of, Configurations)
        /\ Dropped(w, tab[w].of, Configurations, "count")
    BY <1>2, ClearDoes
  <2> QED
    BY <2>1, DeletionCatches
<1>3. ASSUME NEW k \in Configurations, FixLine(w, k) PROVE ExcessIsCaught'
  <2> DEFINE c == tab[w].of
             qty == FixedQty(k, tab[w].ours[k])
  <2>0. tab[w].step = "fixing" /\ c \in Carts /\ TabFits(tab[w])
    BY <1>3, FixDoes DEF CartShape
  <2>1. CASE line' = line /\ CloseTab(w)
    <3>1. OthersRest(w)
      BY <2>1 DEF CloseTab, OthersRest, CartShape
    <3> QED
      BY <2>0, <2>1, <3>1, QuietStepCatches
  <2>2. CASE Emptied(c, {k}) /\ \E step \in {"count", "fixing"} : Dropped(w, c, {k}, step)
    BY <2>0, <2>2, DeletionCatches
  <2>3. CASE /\ line' = [line EXCEPT ![c][k].qty = qty]
             /\ \A v \in Tabs \ {w} : tab'[v] = tab[v]
    <3>1. AvailableOf[k] <= CeilingOf[k]
      BY <2>0 DEF NoSpareStock, TabFits
    <3>2. qty \in Nat /\ qty <= CeilingOf[k]
      BY <3>1, CartAssumption DEF FixedQty
    <3> HIDE DEF qty
    <3> QED
      BY <2>0, <2>3, <3>2, WriteCatches DEF OthersRest
  <2> QED
    BY <1>3, <2>1, <2>2, <2>3, FixDoes
<1> QED
  BY <1>1, <1>2, <1>3

NobodyDied == cartCrashes = 0

LEMMA NobodyDies ==
    ASSUME NoTabDies, NobodyDied, [CartNext]_cartVars
    PROVE  NobodyDied' /\ \A w \in Tabs : ~TabDies(w)
<1>1. \A w \in Tabs : ~TabDies(w)
  BY DEF NoTabDies, NobodyDied, TabDies
<1>2. CASE UNCHANGED cartVars
  BY <1>1, <1>2 DEF cartVars, NobodyDied
<1>3. ASSUME NEW w \in Tabs,
             \/ \E what \in CartTasks, owner \in Owners, k \in Configurations, qty \in Additions \cup {0} :
                   OpenTab(w, what, owner, k, qty)
             \/ \E k \in Configurations : FixLine(w, k) \/ MergeLine(w, k)
             \/ \E c \in Carts, what \in CartTasks : ListStale(w, c, what)
      PROVE  cartCrashes' = cartCrashes
  BY <1>3 DEF OpenTab, FixLine, MergeLine, ListStale
<1>4. ASSUME NEW w \in Tabs,
             \/ FindCart(w) \/ InsertCart(w) \/ CheckRoom(w) \/ UpsertLine(w) \/ ClampLine(w)
             \/ ReadLine(w) \/ SwapQty(w) \/ DeleteLine(w) \/ MarkLine(w) \/ ClearLines(w)
             \/ ReadForFix(w) \/ NothingToFix(w) \/ FindGuest(w) \/ SettleLine(w) \/ RetireGuest(w)
             \/ CountLines(w) \/ WriteCount(w) \/ MarkStale(w)
      PROVE  cartCrashes' = cartCrashes
  BY <1>4 DEF FindCart, InsertCart, CheckRoom, UpsertLine, ClampLine, ReadLine, SwapQty, DeleteLine,
     MarkLine, ClearLines, ReadForFix, NothingToFix, FindGuest, SettleLine, RetireGuest, CountLines,
     WriteCount, MarkStale
<1>5. \A c \in Carts : ConvertCart(c) => cartCrashes' = cartCrashes
  BY DEF ConvertCart
<1>6. CASE CartNext
  <2>1. cartCrashes' = cartCrashes
    BY <1>1, <1>3, <1>4, <1>5, <1>6 DEF CartNext
  <2> QED
    BY <1>1, <2>1 DEF NobodyDied
<1> QED
  BY <1>2, <1>6

LEMMA CartStepCatches ==
    ASSUME NoTabDies, NoSpareStock, CartShape, NobodyDied, ExcessIsCaught, [CartNext]_cartVars
    PROVE  ExcessIsCaught'
<1>1. CASE UNCHANGED <<line, tab>>
  BY <1>1 DEF ExcessIsCaught, Covers
<1>2. \A c \in Carts : ConvertCart(c) => UNCHANGED <<line, tab>>
  BY DEF ConvertCart
<1> QED
  BY <1>1, <1>2, NobodyDies, UpsertCatches, QuietAre, WritersCatch, MarkingCatches, DeletersCatch
     DEF CartNext, cartVars

\* Ten parallel clicks make one line, never above its ceiling: an increment that leaves a
\* line above it is followed by the clamp of the same request, whatever the others do to
\* the line, or to the row, in between.
THEOREM CeilingIsKept ==
    ASSUME NoTabDies, NoSpareStock
    PROVE  CartSpec => []LinesWithinCeiling
<1>1. CartInit => ExcessIsCaught /\ NobodyDied
  BY CartAssumption DEF CartInit, ExcessIsCaught, NoLine, NobodyDied
<1>2. CartShape /\ NobodyDied /\ ExcessIsCaught /\ [CartNext]_cartVars => ExcessIsCaught' /\ NobodyDied'
  BY CartStepCatches, NobodyDies
<1>3. CartShape /\ ExcessIsCaught => LinesWithinCeiling
  <2> SUFFICES ASSUME CartShape, ExcessIsCaught, AllTabsClosed, NEW c \in Carts, NEW k \in Configurations
               PROVE  line[c][k].qty <= CeilingOf[k]
    BY DEF LinesWithinCeiling
  <2>1. line[c][k].qty \in Nat /\ CeilingOf[k] \in Nat
    BY CartAssumption DEF CartShape, LineRow
  <2>2. ~(line[c][k].qty > CeilingOf[k])
    BY DEF ExcessIsCaught, Covers, AllTabsClosed, TabAt
  <2> QED
    BY <2>1, <2>2
<1> QED
  BY <1>1, <1>2, <1>3, CartAlways, PTL DEF CartSpec

-------------------------------------------------------------------------------
(***************************************************************************)
(* The category tree                                                       *)
(***************************************************************************)
Pages == Categories \cup {NoCategory}
Row == [state : {"absent", "live", "deleted"}, parent : Pages,
        slug : Pages \X {"first", "second"}, path : Seq(Slugs)]
Job == [step : {"idle", "create", "move", "rename", "delete", "restore", "below"}, of : Pages,
        row : Row, fresh : BOOLEAN,
        strategy : {"BLOCK", "SOFT", "REASSIGN_CHILDREN", "CASCADE_SOFT"}, todo : SUBSET Categories]

\* A row's slug is its own, and its path fits; what a request is about to write too.
Fits(path) == Len(path) <= DepthCap + 1
TreeTyped ==
    /\ node \in [Categories -> Row]
    /\ \A c \in Categories : node[c].slug[1] = c /\ Fits(node[c].path)
    /\ editor \in [Editors -> Job]
    /\ \A e \in Editors :
         /\ editor[e].step \notin {"idle", "below"} => editor[e].of \in Categories
         /\ editor[e].step \in {"create", "move", "rename"} =>
              editor[e].row.slug[1] = editor[e].of /\ Fits(editor[e].row.path)

\* There is one administrator, nothing is restored, and no deletion leaves children
\* behind.
OneEditor ==
    /\ \E e : Editors = {e}
    /\ ~MayRestore
    /\ "SOFT" \notin Strategies

\* No set of categories keeps all its parents, deleted ones included.
Rooted ==
    \A S \in SUBSET Categories : S # {} => \E c \in S : node[c].parent \notin S

\* What is absent is nobody's parent, and what is live has a parent that is, or none.
Grown ==
    \A c \in Categories :
        /\ node[c].state = "absent" => node[c] = Unplanted(c)
        /\ node[c].state # "absent" => node[c].path # <<>>
        /\ node[c].parent \in Categories => node[node[c].parent].state # "absent"
        /\ InTree(c) => node[c].parent \in Parents

\* Every live category has a depth, which fits.
IsLevel(level, c) ==
    level[c] = 1 + IF node[c].parent = NoCategory THEN 0 ELSE level[node[c].parent]
DepthsFit ==
    \E level \in [Categories -> 0..(DepthCap + 1)] : \A c \in Categories : InTree(c) => IsLevel(level, c)

Follows(c) == node[c].path = Append(PathOf(node[c].parent), node[c].slug)
AllFollow == \A c \in Categories : InTree(c) => Follows(c)

\* c and what is below it, by their paths.
Branch(c) == {c} \cup Under(node[c].path)

\* What a request knows of the tree until it is done.
CreateKnows(job) ==
    /\ AllFollow
    /\ node[job.of].state = "absent"
    /\ job.row.state = "live" /\ job.row.parent \in Parents
    /\ job.row.path = Append(PathOf(job.row.parent), job.row.slug)
MoveKnows(job) ==
    /\ AllFollow
    /\ InTree(job.of) /\ job.row.parent \in Parents \ Branch(job.of)
    /\ job.row.path = Append(PathOf(job.row.parent), node[job.of].slug)
    /\ \A d \in Under(node[job.of].path) :
         Len(node[d].path) + Len(job.row.path) <= DepthCap + 1 + Len(node[job.of].path)
RenameKnows(job) ==
    /\ AllFollow
    /\ node[job.of].state # "absent"
    /\ job.row.slug \in Slugs
    /\ job.row.path = [node[job.of].path EXCEPT ![Len(node[job.of].path)] = job.row.slug]
DeleteKnows(job) ==
    /\ AllFollow
    /\ InTree(job.of) /\ job.row = node[job.of] /\ job.todo = Children(job.of)
    /\ job.strategy \in {"BLOCK", "REASSIGN_CHILDREN", "CASCADE_SOFT"}
    /\ job.strategy = "BLOCK" => job.todo = {}

\* While paths are rewritten only those of the rows still to do, and of their children,
\* may be behind.
BelowKnows(job) ==
    \/ AllFollow
    \/ /\ \A c \in job.todo : InTree(c)
       /\ \A c, d \in job.todo : c # d => node[c].parent = NoCategory
       /\ \A d \in Categories : InTree(d) => \/ Follows(d)
                                             \/ d \in job.todo
                                             \/ node[d].parent \in job.todo

Knows(job) ==
    /\ job.fresh /\ job.step # "restore"
    /\ job.step = "idle"   => AllFollow
    /\ job.step = "create" => CreateKnows(job)
    /\ job.step = "move"   => MoveKnows(job)
    /\ job.step = "rename" => RenameKnows(job)
    /\ job.step = "delete" => DeleteKnows(job)
    /\ job.step = "below"  => BelowKnows(job)

TreeStands == Rooted /\ Grown /\ DepthsFit
Branching == TreeTyped /\ TreeStands /\ \A e \in Editors : Knows(editor[e])

\* Following g from a, n steps far.
IsChain(f, D, g, a, n) == f \in [0..n -> D] /\ f[0] = a /\ \A k \in 1..n : f[k] = g[f[k - 1]]

LEMMA ChainExists ==
    ASSUME NEW D, NEW g \in [D -> D], NEW a \in D, NEW n \in Nat
    PROVE  \E f : IsChain(f, D, g, a, n)
<1> USE DEF IsChain
<1> DEFINE Chains(m) == {f \in [0..m -> D] : f[0] = a /\ \A k \in 1..m : f[k] = g[f[k - 1]]}
           Missing == {m \in Nat : Chains(m) = {}}
<1> SUFFICES ASSUME Missing # {} PROVE FALSE
  OBVIOUS
<1>1. PICK m \in Missing : \A k \in Missing : m <= k
  BY LeastNumber
<1>2. CASE m = 0
  <2> DEFINE f == [k \in 0..0 |-> a]
  <2>1. f \in [0..0 -> D] /\ f[0] = a /\ 1..0 = {}
    OBVIOUS
  <2> HIDE DEF f
  <2>2. f \in Chains(0)
    BY <2>1
  <2> QED
    BY <1>1, <1>2, <2>2
<1>3. CASE m # 0
  <2>1. m \in Nat /\ m - 1 \in Nat /\ ~(m <= m - 1)
    BY <1>3
  <2>2. PICK f \in Chains(m - 1) : TRUE
    BY <1>1, <2>1
  <2> DEFINE h == [k \in 0..m |-> IF k = m THEN g[f[m - 1]] ELSE f[k]]
  <2>3. f \in [0..(m - 1) -> D] /\ f[0] = a /\ \A k \in 1..(m - 1) : f[k] = g[f[k - 1]]
    BY <2>2
  <2>4. h \in [0..m -> D] /\ h[0] = a
    BY <2>1, <2>3
  <2>5. \A k \in 1..m : h[k] = g[h[k - 1]]
    BY <2>1, <2>3
  <2> HIDE DEF h
  <2>6. h \in Chains(m)
    BY <2>4, <2>5
  <2> QED
    BY <1>1, <2>6
<1> QED
  BY <1>2, <1>3

LEMMA TreeBasics ==
    /\ NoCategory \notin Categories /\ IsFiniteSet(Categories) /\ DepthCap \in Nat
    /\ Cardinality(Categories) \in Nat
    /\ Pages = Categories \cup {NoCategory} /\ NoCategory \in Pages
BY TreeAssumption, FS_CardinalityType DEF Pages

\* The climb, step by step.
Height == Cardinality(Categories)
Above(x) == IF x = NoCategory THEN NoCategory ELSE Loaded(node[x].parent)
IsClimb(up, c) ==
    up = [n \in 0..Cardinality(Categories) |->
            IF n = 0 THEN Loaded(c)
            ELSE IF up[n - 1] = NoCategory THEN NoCategory
            ELSE Loaded(node[up[n - 1]].parent)]

LEMMA ClimbUnfolds == \A c : Climb(c) = CHOOSE up : IsClimb(up, c)
BY DEF Climb, IsClimb

LEMMA LoadedIs == \A c : /\ Loaded(c) \in Pages
                         /\ InTree(c) => Loaded(c) = c
                         /\ ~InTree(c) => Loaded(c) = NoCategory
                         /\ Loaded(c) # NoCategory => Loaded(c) = c /\ InTree(c)
BY TreeBasics DEF Loaded, InTree

LEMMA ClimbIs ==
    ASSUME NEW c
    PROVE  /\ Climb(c) \in [0..Height -> Pages]
           /\ Climb(c)[0] = Loaded(c)
           /\ \A n \in 1..Height : Climb(c)[n] = Above(Climb(c)[n - 1])
           /\ \A n \in 0..Height : Climb(c)[n] # NoCategory => InTree(Climb(c)[n])
<1> DEFINE g == [x \in Pages |-> Above(x)]
<1>1. /\ g \in [Pages -> Pages] /\ \A x \in Pages : g[x] = Above(x)
      /\ Loaded(c) \in Pages /\ Height \in Nat
  BY LoadedIs, TreeBasics DEF Above, Height
<1> HIDE DEF g
<1>2. PICK f \in [0..Height -> Pages] : f[0] = Loaded(c) /\ \A k \in 1..Height : f[k] = g[f[k - 1]]
  <2>1. PICK h : h = g
    OBVIOUS
  <2>2. PICK a : a = Loaded(c)
    OBVIOUS
  <2>3. PICK n : n = Height
    OBVIOUS
  <2>4. h \in [Pages -> Pages]
    BY <1>1, <2>1
  <2>5. a \in Pages
    BY <1>1, <2>2
  <2>6. n \in Nat
    BY <1>1, <2>3
  <2>7. \E f : IsChain(f, Pages, h, a, n)
    BY ONLY <2>4, <2>5, <2>6, ChainExists, Zenon
  <2> QED
    BY <2>1, <2>2, <2>3, <2>7 DEF IsChain
<1>3. \A k \in 1..Height : f[k] = Above(f[k - 1])
  <2> SUFFICES ASSUME NEW k \in 1..Height PROVE f[k] = Above(f[k - 1])
    OBVIOUS
  <2>1. k - 1 \in 0..Height
    BY <1>1
  <2>2. f[k - 1] \in Pages
    BY <1>2, <2>1
  <2> QED
    BY <1>1, <1>2, <2>2
<1>4. IsClimb(f, c)
  BY <1>1, <1>2, <1>3 DEF IsClimb, Above, Height
<1>5. IsClimb(Climb(c), c)
  BY <1>4, ClimbUnfolds
<1> DEFINE up == Climb(c)
<1> HIDE DEF up
<1>6. up = [n \in 0..Height |-> IF n = 0 THEN Loaded(c) ELSE Above(up[n - 1])]
  BY <1>5 DEF up, IsClimb, Above, Height
<1>7. \A n \in 0..Height : up[n] = IF n = 0 THEN Loaded(c) ELSE Above(up[n - 1])
  BY <1>6, Zenon
<1>8. \A n \in 0..Height : up[n] \in Pages /\ (up[n] # NoCategory => InTree(up[n]))
  BY <1>7, LoadedIs, TreeBasics DEF Above
<1>9. DOMAIN up = 0..Height
  BY <1>6
<1>10. up \in [0..Height -> Pages]
  BY <1>6, <1>8, <1>9
<1>11. up[0] = Loaded(c) /\ \A n \in 1..Height : up[n] = Above(up[n - 1])
  BY <1>1, <1>7
<1> QED
  BY <1>8, <1>10, <1>11 DEF up

\* Whoever is met on a climb was reached through the rows before.
LEMMA ClimbGoesOn ==
    ASSUME NEW c, NEW n \in 0..Height, Climb(c)[n] # NoCategory
    PROVE  \A k \in 0..n : Climb(c)[k] # NoCategory
<1> DEFINE up == Climb(c)
           Ended == {k \in Nat : k <= n /\ up[n - k] = NoCategory}
<1>1. Height \in Nat
  BY TreeBasics DEF Height
<1>2. \A k \in 1..Height : up[k] = Above(up[k - 1])
  BY ClimbIs
<1> HIDE DEF up
<1>3. SUFFICES Ended = {}
  <2> SUFFICES ASSUME NEW k \in 0..n, up[k] = NoCategory PROVE Ended # {}
    BY DEF up
  <2>1. n - k \in Nat /\ n - k <= n /\ n - (n - k) = k
    BY <1>1
  <2> QED
    BY <2>1
<1> SUFFICES ASSUME Ended # {} PROVE FALSE
  OBVIOUS
<1>4. PICK k \in Ended : \A j \in Ended : k <= j
  BY LeastNumber
<1>5. k # 0
  BY <1>1, <1>4 DEF up
<1>6. k - 1 \in Nat /\ k - 1 <= n /\ ~(k <= k - 1) /\ n - (k - 1) \in 1..Height
      /\ (n - (k - 1)) - 1 = n - k
  BY <1>1, <1>4, <1>5
<1>7. up[n - (k - 1)] = Above(up[n - k])
  BY <1>2, <1>6
<1>8. up[n - (k - 1)] = NoCategory
  BY <1>4, <1>7 DEF Above
<1> QED
  BY <1>4, <1>6, <1>8

\* What a typed tree has in its rows, paths and requests.
LEMMA RowFacts ==
    ASSUME TreeTyped
    PROVE  /\ \A c \in Categories :
                /\ node[c] \in Row /\ node[c].slug \in Slugs /\ node[c].slug[1] = c
                /\ node[c].path \in Seq(Slugs) /\ Len(node[c].path) \in Nat
                /\ Len(node[c].path) <= DepthCap + 1
                /\ node[c].parent \in Pages /\ node[c].state \in {"absent", "live", "deleted"}
           /\ \A p \in Pages : PathOf(p) \in Seq(Slugs) /\ Len(PathOf(p)) \in Nat
           /\ DOMAIN node = Categories
           /\ Parents \subseteq Pages
<1>1. \A c \in Categories :
        /\ node[c] \in Row
        /\ node[c].path \in Seq(Slugs) /\ Len(node[c].path) \in Nat
        /\ Len(node[c].path) <= DepthCap + 1
        /\ node[c].parent \in Pages /\ node[c].state \in {"absent", "live", "deleted"}
  BY DEF TreeTyped, Row, Fits
<1>2. \A c \in Categories : node[c].slug \in Slugs /\ node[c].slug[1] = c
  BY DEF TreeTyped, Row, Slugs
<1>3. \A p \in Pages : PathOf(p) \in Seq(Slugs) /\ Len(PathOf(p)) \in Nat
  <2>1. <<>> \in Seq(Slugs) /\ Len(<<>>) \in Nat
    OBVIOUS
  <2> QED
    BY <1>1, <2>1 DEF PathOf, Pages
<1> QED
  BY <1>1, <1>2, <1>3 DEF TreeTyped, Parents, Pages

\* A function on 1..n is a path.
LEMMA FunctionIsPath ==
    ASSUME NEW n \in Nat, NEW f \in [1..n -> Slugs]
    PROVE  f \in Seq(Slugs) /\ Len(f) = n
  OBVIOUS

LEMMA PathBelowIs ==
    ASSUME TreeTyped, NEW c \in Categories, NEW d, NEW n \in 0..Height, Climb(d)[n] = c
    PROVE  /\ PathBelow(c, d, n) \in Seq(Slugs)
           /\ Len(PathBelow(c, d, n)) = Len(PathOf(node[c].parent)) + 1 + n
<1> DEFINE base == Append(PathOf(node[c].parent), node[c].slug)
           tail == [k \in 1..n |-> node[Climb(d)[n - k]].slug]
<1>1. base \in Seq(Slugs) /\ Len(base) = Len(PathOf(node[c].parent)) + 1
      /\ Len(PathOf(node[c].parent)) \in Nat
  BY RowFacts
<1>2. n \in Nat /\ Height \in Nat /\ c # NoCategory
  BY TreeBasics DEF Height
<1>3. \A k \in 1..n : node[Climb(d)[n - k]].slug \in Slugs
  <2> SUFFICES ASSUME NEW k \in 1..n PROVE node[Climb(d)[n - k]].slug \in Slugs
    OBVIOUS
  <2>1. n - k \in 0..n /\ n - k \in 0..Height
    BY <1>2
  <2>2. Climb(d)[n - k] # NoCategory
    BY <1>2, <2>1, ClimbGoesOn
  <2>3. Climb(d)[n - k] \in Categories
    BY <2>1, <2>2, ClimbIs DEF InTree
  <2> QED
    BY <2>3, RowFacts
<1>4. tail \in [1..n -> Slugs]
  BY <1>3
<1> HIDE DEF tail
<1>5. tail \in Seq(Slugs) /\ Len(tail) = n
  BY <1>2, <1>4, FunctionIsPath
<1> HIDE DEF base
<1>6. PathBelow(c, d, n) = base \o tail
  BY DEF base, tail, PathBelow
<1>7. base \o tail \in Seq(Slugs) /\ Len(base \o tail) = Len(base) + Len(tail)
  BY <1>1, <1>5, ConcatProperties
<1> QED
  BY <1>1, <1>2, <1>5, <1>6, <1>7

LEMMA RenamedPath ==
    ASSUME NEW p \in Seq(Slugs), NEW s \in Slugs
    PROVE  /\ [p EXCEPT ![Len(p)] = s] \in Seq(Slugs)
           /\ Len([p EXCEPT ![Len(p)] = s]) = Len(p)
<1>1. p \in [1..Len(p) -> Slugs] /\ Len(p) \in Nat
  OBVIOUS
<1> DEFINE q == [p EXCEPT ![Len(p)] = s]
<1>2. q \in [1..Len(p) -> Slugs]
  BY <1>1
<1> HIDE DEF q
<1>3. q \in Seq(Slugs) /\ Len(q) = Len(p)
  BY <1>1, <1>2
<1> QED
  BY <1>3 DEF q

\* A request's typed row, whole.
JobFits(job) ==
    /\ job \in Job
    /\ job.step \notin {"idle", "below"} => job.of \in Categories
    /\ job.step \in {"create", "move", "rename"} =>
          job.row.slug[1] = job.of /\ Fits(job.row.path)

LEMMA TypedByParts ==
    TreeTyped <=> /\ node \in [Categories -> Row]
                  /\ \A c \in Categories : node[c].slug[1] = c /\ Fits(node[c].path)
                  /\ editor \in [Editors -> Job] /\ \A e \in Editors : JobFits(editor[e])
BY DEF TreeTyped, JobFits

LEMMA AtDeskFits == JobFits(AtDesk) /\ Unplanted(NoCategory) \in Row
<1>1. <<>> \in Seq(Slugs)
  OBVIOUS
<1>2. Unplanted(NoCategory) \in Row
  BY <1>1, TreeBasics DEF Unplanted, Row
<1>3. AtDesk \in Job
  <2> DEFINE row == Unplanted(NoCategory)
  <2>1. row \in Row /\ NoCategory \in Pages
    BY <1>2, TreeBasics
  <2> HIDE DEF row
  <2>2. [step |-> "idle", of |-> NoCategory, row |-> row, fresh |-> TRUE,
         strategy |-> "BLOCK", todo |-> {}] \in Job
    BY <2>1 DEF Job
  <2> QED
    BY <2>2 DEF AtDesk, row
<1> QED
  BY <1>2, <1>3 DEF JobFits, AtDesk

LEMMA TreeTypedInit == TreeInit => TreeTyped
<1> SUFFICES ASSUME TreeInit PROVE TreeTyped
  OBVIOUS
<1>1. <<>> \in Seq(Slugs) /\ Len(<<>>) = 0
  OBVIOUS
<1>2. \A c \in Categories : /\ Unplanted(c) \in Row /\ Unplanted(c).slug[1] = c
                            /\ Fits(Unplanted(c).path)
  BY <1>1, TreeBasics DEF Unplanted, Row, Fits
<1>3. AtDesk \in Job /\ JobFits(AtDesk)
  BY AtDeskFits DEF JobFits
<1>4. node \in [Categories -> Row] /\ \A c \in Categories : node[c] = Unplanted(c)
  BY <1>2 DEF TreeInit
<1>5. editor \in [Editors -> Job] /\ \A e \in Editors : editor[e] = AtDesk
  BY <1>3 DEF TreeInit
<1> QED
  BY <1>2, <1>3, <1>4, <1>5, TypedByParts

\* Taking up work, and leaving it.
LEMMA TakeUpTyped ==
    ASSUME TreeTyped, NEW e \in Editors, NEW job, JobFits(job), TakeUp(e, job), UNCHANGED node
    PROVE  TreeTyped'
<1>1. editor' \in [Editors -> Job]
  BY DEF TreeTyped, TakeUp, JobFits
<1>2. \A f \in Editors : editor'[f] = IF f = e THEN job ELSE editor[f]
  BY DEF TreeTyped, TakeUp
<1> QED
  BY <1>1, <1>2 DEF TreeTyped, JobFits, Fits

LEMMA BeginCreateTyped ==
    ASSUME TreeTyped, NEW e \in Editors, NEW c \in Categories, NEW p \in Pages, BeginCreate(e, c, p)
    PROVE  TreeTyped'
<1> DEFINE path == Append(PathOf(p), node[c].slug)
           row == [node[c] EXCEPT !.state = "live", !.parent = p, !.path = path]
           job == [AtDesk EXCEPT !.step = "create", !.of = c, !.row = row]
<1>1. path \in Seq(Slugs) /\ Fits(path)
  BY RowFacts DEF BeginCreate, WithinCap, Fits
<1>2. node[c] \in Row /\ node[c].slug[1] = c
  BY RowFacts
<1>3. row \in Row /\ row.slug[1] = c /\ row.path = path
  <2> HIDE DEF path
  <2> QED
    BY <1>1, <1>2 DEF Row
<1>4. JobFits(job)
  <2> HIDE DEF row
  <2>1. job = [AtDesk EXCEPT !.step = "create", !.of = c, !.row = row] /\ AtDesk \in Job
    BY AtDeskFits DEF JobFits
  <2> HIDE DEF job
  <2>2. job \in Job /\ job.of = c /\ job.row = row
    BY <1>3, <2>1, TreeBasics DEF Job
  <2> QED
    BY <1>1, <1>3, <2>2 DEF JobFits
<1>5. TakeUp(e, job) /\ UNCHANGED node
  BY DEF BeginCreate
<1> QED
  BY <1>4, <1>5, TakeUpTyped

LEMMA BeginMoveTyped ==
    ASSUME TreeTyped, NEW e \in Editors, NEW c \in Categories, NEW p \in Pages, BeginMove(e, c, p)
    PROVE  TreeTyped'
<1> DEFINE path == Append(PathOf(p), node[c].slug)
           row == [node[c] EXCEPT !.parent = p, !.path = path]
           job == [AtDesk EXCEPT !.step = "move", !.of = c, !.row = row]
<1>1. path \in Seq(Slugs) /\ Fits(path)
  BY RowFacts DEF BeginMove, WithinCap, Fits
<1>2. node[c] \in Row /\ node[c].slug[1] = c
  BY RowFacts
<1>3. row \in Row /\ row.slug[1] = c /\ row.path = path
  <2> HIDE DEF path
  <2> QED
    BY <1>1, <1>2 DEF Row
<1>4. JobFits(job)
  <2> HIDE DEF row
  <2>1. job = [AtDesk EXCEPT !.step = "move", !.of = c, !.row = row] /\ AtDesk \in Job
    BY AtDeskFits DEF JobFits
  <2> HIDE DEF job
  <2>2. job \in Job /\ job.of = c /\ job.row = row
    BY <1>3, <2>1, TreeBasics DEF Job
  <2> QED
    BY <1>1, <1>3, <2>2 DEF JobFits
<1>5. TakeUp(e, job) /\ UNCHANGED node
  BY DEF BeginMove
<1> QED
  BY <1>4, <1>5, TakeUpTyped

LEMMA BeginRenameTyped ==
    ASSUME TreeTyped, NEW e \in Editors, NEW c \in Categories, BeginRename(e, c)
    PROVE  TreeTyped'
<1> DEFINE slug == OtherSlug(c)
           path == [node[c].path EXCEPT ![Len(node[c].path)] = slug]
           row == [node[c] EXCEPT !.slug = slug, !.path = path]
           job == [AtDesk EXCEPT !.step = "rename", !.of = c, !.row = row]
<1>1. slug \in Slugs /\ slug[1] = c /\ slug \in Pages \X {"first", "second"}
  BY DEF OtherSlug, Slugs, Pages
<1>2. node[c] \in Row /\ node[c].path \in Seq(Slugs) /\ Fits(node[c].path)
  BY RowFacts DEF Fits
<1> HIDE DEF slug
<1>3. path \in Seq(Slugs) /\ Fits(path)
  BY <1>1, <1>2, RenamedPath DEF Fits
<1>4. row \in Row /\ row.slug[1] = c /\ row.path = path
  <2> HIDE DEF path
  <2> QED
    BY <1>1, <1>2, <1>3 DEF Row
<1>5. JobFits(job)
  <2> HIDE DEF row
  <2>1. job = [AtDesk EXCEPT !.step = "rename", !.of = c, !.row = row] /\ AtDesk \in Job
    BY AtDeskFits DEF JobFits
  <2> HIDE DEF job
  <2>2. job \in Job /\ job.of = c /\ job.row = row
    BY <1>4, <2>1, TreeBasics DEF Job
  <2> QED
    BY <1>3, <1>4, <2>2 DEF JobFits
<1>6. TakeUp(e, job) /\ UNCHANGED node
  BY DEF BeginRename, slug
<1> QED
  BY <1>5, <1>6, TakeUpTyped

LEMMA BeginDeleteTyped ==
    ASSUME TreeTyped, NEW e \in Editors, NEW c \in Categories, NEW strategy \in Strategies,
           BeginDelete(e, c, strategy)
    PROVE  TreeTyped'
<1> DEFINE job == [AtDesk EXCEPT !.step = "delete", !.of = c, !.row = node[c],
                                 !.strategy = strategy, !.todo = Children(c)]
<1>1. JobFits(job)
  <2>1. node[c] \in Row /\ Children(c) \subseteq Categories
    BY RowFacts DEF Children
  <2>2. strategy \in {"BLOCK", "SOFT", "REASSIGN_CHILDREN", "CASCADE_SOFT"}
    BY TreeAssumption
  <2>3. /\ AtDesk \in Job
        /\ job = [AtDesk EXCEPT !.step = "delete", !.of = c, !.row = node[c],
                                !.strategy = strategy, !.todo = Children(c)]
    BY AtDeskFits DEF JobFits
  <2> HIDE DEF job
  <2>4. job \in Job /\ job.of = c /\ job.step = "delete"
    BY <2>1, <2>2, <2>3, TreeBasics DEF Job
  <2> QED
    BY <2>4 DEF JobFits
<1>2. TakeUp(e, job) /\ UNCHANGED node
  BY DEF BeginDelete
<1> QED
  BY <1>1, <1>2, TakeUpTyped

LEMMA BeginRestoreTyped ==
    ASSUME TreeTyped, NEW e \in Editors, NEW c \in Categories, BeginRestore(e, c)
    PROVE  TreeTyped'
<1> DEFINE job == [AtDesk EXCEPT !.step = "restore", !.of = c]
<1>1. JobFits(job)
  <2>1. job = [AtDesk EXCEPT !.step = "restore", !.of = c] /\ AtDesk \in Job
    BY AtDeskFits DEF JobFits
  <2> HIDE DEF job
  <2>2. job \in Job /\ job.of = c /\ job.step = "restore"
    BY <2>1, TreeBasics DEF Job
  <2> QED
    BY <2>2 DEF JobFits
<1>2. TakeUp(e, job) /\ UNCHANGED node
  BY DEF BeginRestore
<1> QED
  BY <1>1, <1>2, TakeUpTyped

\* A written row, and a request that has left or goes on below.
LEMMA WrittenTyped ==
    ASSUME TreeTyped,
           node' \in [Categories -> Row],
           \A c \in Categories : node'[c].slug[1] = c /\ Fits(node'[c].path),
           NEW work \in [Editors -> Job], editor' = work,
           \A f \in Editors : JobFits(work[f])
    PROVE  TreeTyped'
BY DEF TreeTyped, JobFits, Fits

LEMMA BelowFits ==
    \A todo \in SUBSET Categories : JobFits([AtDesk EXCEPT !.step = "below", !.todo = todo])
<1> SUFFICES ASSUME NEW todo \in SUBSET Categories
             PROVE  JobFits([AtDesk EXCEPT !.step = "below", !.todo = todo])
  BY Zenon
<1> DEFINE job == [AtDesk EXCEPT !.step = "below", !.todo = todo]
<1>1. job = [AtDesk EXCEPT !.step = "below", !.todo = todo] /\ AtDesk \in Job
  BY AtDeskFits DEF JobFits
<1> HIDE DEF job
<1>2. job \in Job /\ job.step = "below"
  BY <1>1 DEF Job
<1> QED
  BY <1>2 DEF JobFits, job

LEMMA LeaveTyped ==
    ASSUME TreeTyped, NEW e \in Editors, Leave(e), node' \in [Categories -> Row],
           \A c \in Categories : node'[c].slug[1] = c /\ Fits(node'[c].path)
    PROVE  TreeTyped'
<1>1. /\ editor' \in [Editors -> Job]
      /\ \A f \in Editors : JobFits(editor'[f])
  BY AtDeskFits, TypedByParts DEF JobFits, Leave
<1> QED
  BY <1>1 DEF TreeTyped, JobFits, Fits

LEMMA InsertNodeTyped ==
    ASSUME TreeTyped, NEW e \in Editors, InsertNode(e)
    PROVE  TreeTyped'
<1> DEFINE c == editor[e].of
           row == editor[e].row
<1>1. c \in Categories /\ row \in Row /\ row.slug[1] = c /\ Fits(row.path)
  BY DEF TreeTyped, Job, InsertNode, EditorAt
<1>2. node' = [node EXCEPT ![c] = row] /\ Leave(e)
  BY DEF InsertNode
<1> HIDE DEF c, row
<1>3. node' \in [Categories -> Row] /\ \A d \in Categories : node'[d] = IF d = c THEN row ELSE node[d]
  BY <1>1, <1>2 DEF TreeTyped
<1> QED
  BY <1>1, <1>2, <1>3, LeaveTyped DEF TreeTyped

LEMMA WriteNodeTyped ==
    ASSUME TreeTyped, NEW e \in Editors, WriteNode(e)
    PROVE  TreeTyped'
<1> DEFINE c == editor[e].of
           row == editor[e].row
           parent == IF EditorAt(e, "move") THEN row.parent ELSE node[c].parent
           slug == IF EditorAt(e, "rename") THEN row.slug ELSE node[c].slug
<1>1. c \in Categories /\ row \in Row /\ row.slug[1] = c /\ Fits(row.path)
  BY DEF TreeTyped, Job, WriteNode, EditorAt
<1>2. parent \in Pages /\ slug \in Pages \X {"first", "second"} /\ slug[1] = c /\ row.path \in Seq(Slugs)
  BY <1>1 DEF TreeTyped, Row
<1>3. CASE editor[e].fresh
  <2> DEFINE written == [node[c] EXCEPT !.path = row.path, !.parent = parent, !.slug = slug]
             work == [other \in Editors |->
                        IF other = e THEN [AtDesk EXCEPT !.step = "below", !.todo = {c}]
                        ELSE [editor[other] EXCEPT !.fresh = @ /\ editor[other].of # c]]
  <2>1. node' = [node EXCEPT ![c].path = row.path, ![c].parent = parent, ![c].slug = slug]
    BY <1>3 DEF WriteNode
  <2>2. editor' = work
    BY <1>3 DEF WriteNode
  <2>3. \A f \in Editors : JobFits(work[f]) /\ work[f] \in Job
    <3>1. JobFits([AtDesk EXCEPT !.step = "below", !.todo = {c}])
      <4>1. {c} \in SUBSET Categories
        BY <1>1
      <4> QED
        BY <4>1, BelowFits, Zenon
    <3>2. ASSUME NEW f \in Editors, NEW b \in BOOLEAN PROVE JobFits([editor[f] EXCEPT !.fresh = b])
      <4> DEFINE job == [editor[f] EXCEPT !.fresh = b]
      <4>1. editor[f] \in Job /\ job = [editor[f] EXCEPT !.fresh = b] /\ JobFits(editor[f])
        BY TypedByParts DEF JobFits
      <4> HIDE DEF job
      <4>2. /\ job \in Job /\ job.step = editor[f].step /\ job.of = editor[f].of
            /\ job.row = editor[f].row
        BY <4>1 DEF Job
      <4> QED
        BY <4>1, <4>2 DEF JobFits, job
    <3>3. \A f \in Editors : editor[f].fresh \in BOOLEAN
      BY DEF TreeTyped, Job
    <3> QED
      BY <3>1, <3>2, <3>3 DEF JobFits
  <2>4. work \in [Editors -> Job]
    BY <2>3
  <2> HIDE DEF c, row, parent, slug, work
  <2>5. written \in Row /\ written.slug = slug /\ written.path = row.path
    BY <1>1, <1>2 DEF TreeTyped, Row
  <2>6. node' = [node EXCEPT ![c] = written]
    BY <1>1, <2>1 DEF TreeTyped, Row
  <2> HIDE DEF written
  <2>7. /\ node' \in [Categories -> Row]
        /\ \A d \in Categories : node'[d] = IF d = c THEN written ELSE node[d]
    BY <1>1, <2>5, <2>6 DEF TreeTyped
  <2>8. \A d \in Categories : node'[d].slug[1] = d /\ Fits(node'[d].path)
    BY <1>1, <1>2, <2>5, <2>7 DEF TreeTyped
  <2> QED
    BY <2>2, <2>3, <2>4, <2>7, <2>8, WrittenTyped
<1>4. CASE ~editor[e].fresh
  <2>1. Leave(e) /\ UNCHANGED node
    BY <1>4 DEF WriteNode
  <2> QED
    BY <2>1, LeaveTyped DEF TreeTyped
<1> QED
  BY <1>3, <1>4

\* What a deletion takes away, what it hands up, and what it has to rewrite then.
Gone(e) ==
    IF editor[e].strategy = "CASCADE_SOFT"
    THEN {editor[e].of} \cup Under(editor[e].row.path) ELSE {editor[e].of}
HandsUp(e) == editor[e].strategy = "REASSIGN_CHILDREN"
HandedUp(e) ==
    {d \in Categories : HandsUp(e) /\ node[d].state # "absent" /\ node[d].parent = editor[e].of}
Remaining(e) ==
    IF ~HandsUp(e) THEN {}
    ELSE IF editor[e].row.parent = NoCategory THEN editor[e].todo ELSE {editor[e].row.parent}

WrittenRow(e, d) ==
    [node[d] EXCEPT !.state = IF d \in Gone(e) THEN "deleted" ELSE @,
                    !.parent = IF d \in HandedUp(e) THEN editor[e].row.parent ELSE @]

LEMMA DeleteNodesIs ==
    ASSUME NEW e, DeleteNodes(e)
    PROVE  /\ EditorAt(e, "delete")
           /\ DOMAIN node' = Categories
           /\ node' = [d \in Categories |-> node'[d]]
           /\ \A d \in Categories : node'[d] = WrittenRow(e, d)
           /\ editor' = [editor EXCEPT ![e] = [AtDesk EXCEPT !.step = "below", !.todo = Remaining(e)]]
<1>1. EditorAt(e, "delete")
  BY Zenon DEF DeleteNodes
<1>2. node' = [d \in Categories |-> WrittenRow(e, d)]
  BY Zenon DEF DeleteNodes, Gone, HandsUp, HandedUp, WrittenRow
<1>3. editor' = [editor EXCEPT ![e] = [AtDesk EXCEPT !.step = "below", !.todo = Remaining(e)]]
  BY Zenon DEF DeleteNodes, HandsUp, Remaining, TakeUp
<1>4. DOMAIN node' = Categories /\ \A d \in Categories : node'[d] = WrittenRow(e, d)
  BY <1>2, Zenon
<1> QED
  BY <1>1, <1>2, <1>3, <1>4, Zenon

LEMMA DeleteNodesTyped ==
    ASSUME TreeTyped, NEW e \in Editors, DeleteNodes(e)
    PROVE  TreeTyped'
<1> DEFINE job == [AtDesk EXCEPT !.step = "below", !.todo = Remaining(e)]
<1>1. editor[e].row.parent \in Pages /\ Remaining(e) \in SUBSET Categories
  BY DEF TreeTyped, Job, Row, Pages, Remaining
<1>2. JobFits(job) /\ job \in Job
  <2>1. JobFits(job)
    BY <1>1, BelowFits, Zenon
  <2> QED
    BY <2>1 DEF JobFits
<1>3. editor' = [editor EXCEPT ![e] = job]
  BY DeleteNodesIs, Zenon
<1>4. \A d \in Categories :
        /\ node'[d] \in Row /\ node'[d].slug = node[d].slug /\ node'[d].path = node[d].path
  <2> SUFFICES ASSUME NEW d \in Categories
               PROVE  /\ node'[d] \in Row /\ node'[d].slug = node[d].slug
                      /\ node'[d].path = node[d].path
    OBVIOUS
  <2>1. node'[d] = WrittenRow(e, d)
    BY DeleteNodesIs, Zenon
  <2>2. node[d] \in Row
    BY RowFacts
  <2> QED
    BY <1>1, <2>1, <2>2 DEF Row, WrittenRow
<1>5. node' \in [Categories -> Row]
  <2>1. node' = [d \in Categories |-> node'[d]]
    BY DeleteNodesIs, Zenon
  <2> QED
    BY <1>4, <2>1
<1>6. \A d \in Categories : node'[d].slug[1] = d /\ Fits(node'[d].path)
  BY <1>4 DEF TreeTyped
<1> HIDE DEF job
<1>7. editor' \in [Editors -> Job] /\ \A f \in Editors : JobFits(editor'[f])
  BY <1>2, <1>3, TypedByParts
<1> QED
  BY <1>5, <1>6, <1>7 DEF TreeTyped, JobFits, Fits

LEMMA RestoreNodeTyped ==
    ASSUME TreeTyped, NEW e \in Editors, RestoreNode(e)
    PROVE  TreeTyped'
<1> DEFINE c == editor[e].of
           restored == [node[c] EXCEPT !.state = "live"]
<1>1. c \in Categories
  BY DEF TreeTyped, RestoreNode, EditorAt
<1> HIDE DEF c
<1>2. node[c] \in Row
  BY <1>1 DEF TreeTyped
<1>3. restored \in Row /\ restored.slug = node[c].slug /\ restored.path = node[c].path
  BY <1>2 DEF Row
<1>4. node' = [node EXCEPT ![c] = restored] /\ Leave(e)
  BY DEF RestoreNode, c
<1> HIDE DEF restored
<1>5. node' \in [Categories -> Row] /\ \A d \in Categories : node'[d] = IF d = c THEN restored ELSE node[d]
  BY <1>1, <1>3, <1>4 DEF TreeTyped
<1>6. \A d \in Categories : node'[d].slug[1] = d /\ Fits(node'[d].path)
  BY <1>1, <1>3, <1>5 DEF TreeTyped
<1> QED
  BY <1>4, <1>5, <1>6, LeaveTyped

\* A rewrite touches paths only, and those it writes fit.
LEMMA RewrittenIs ==
    ASSUME TreeTyped, NEW c \in Categories
    PROVE  /\ Rewritten(c) \in [Categories -> Row]
           /\ \A d \in Categories :
                /\ Rewritten(c)[d].state = node[d].state
                /\ Rewritten(c)[d].parent = node[d].parent
                /\ Rewritten(c)[d].slug = node[d].slug
                /\ Fits(Rewritten(c)[d].path)
                /\ (\A n \in 0..Height : Climb(d)[n] # c) => Rewritten(c)[d].path = node[d].path
                /\ \A n \in 0..Height :
                     /\ Climb(d)[n] = c
                     /\ \A m \in 0..Height : Climb(d)[m] = c => m = n
                     /\ Len(PathBelow(c, d, n)) <= DepthCap + 1
                     => Rewritten(c)[d].path = PathBelow(c, d, n)
<1> SUFFICES ASSUME NEW d \in Categories
             PROVE  /\ Rewritten(c)[d] \in Row
                    /\ Rewritten(c)[d].state = node[d].state
                    /\ Rewritten(c)[d].parent = node[d].parent
                    /\ Rewritten(c)[d].slug = node[d].slug
                    /\ Fits(Rewritten(c)[d].path)
                    /\ (\A n \in 0..Height : Climb(d)[n] # c) => Rewritten(c)[d].path = node[d].path
                    /\ \A n \in 0..Height :
                         /\ Climb(d)[n] = c
                         /\ \A m \in 0..Height : Climb(d)[m] = c => m = n
                         /\ Len(PathBelow(c, d, n)) <= DepthCap + 1
                         => Rewritten(c)[d].path = PathBelow(c, d, n)
  BY DEF Rewritten
<1> DEFINE n == CHOOSE n \in DOMAIN Climb(d) : Climb(d)[n] = c
<1>1. DOMAIN Climb(d) = 0..Height /\ node[d] \in Row /\ Fits(node[d].path)
  BY ClimbIs DEF TreeTyped
<1>2. CASE \E m \in 0..Height : Climb(d)[m] = c
  <2>1. n \in 0..Height /\ Climb(d)[n] = c
    BY <1>1, <1>2
  <2>2. Rewritten(c)[d] = IF WithinCap(PathBelow(c, d, n))
                          THEN [node[d] EXCEPT !.path = PathBelow(c, d, n)] ELSE node[d]
    BY <1>1, <1>2 DEF Rewritten
  <2> HIDE DEF n
  <2>3. PathBelow(c, d, n) \in Seq(Slugs)
    BY <2>1, PathBelowIs
  <2> QED
    BY <1>1, <1>2, <2>1, <2>2, <2>3 DEF Row, Fits, WithinCap
<1>3. CASE \A m \in 0..Height : Climb(d)[m] # c
  <2>1. Rewritten(c)[d] = node[d]
    BY <1>1, <1>3 DEF Rewritten
  <2> QED
    BY <1>1, <1>3, <2>1
<1> QED
  BY <1>2, <1>3

LEMMA RewriteBelowTyped ==
    ASSUME TreeTyped, NEW e \in Editors, RewriteBelow(e)
    PROVE  TreeTyped'
<1>1. CASE Leave(e) /\ UNCHANGED node
  BY <1>1, LeaveTyped DEF TreeTyped
<1>2. CASE \E c \in editor[e].todo :
             /\ node' = Rewritten(c)
             /\ Leave(e) \/ editor' = [editor EXCEPT ![e].todo = @ \ {c}]
  <2>1. PICK c \in editor[e].todo :
             /\ node' = Rewritten(c)
             /\ Leave(e) \/ editor' = [editor EXCEPT ![e].todo = @ \ {c}]
    BY <1>2
  <2>2. c \in Categories /\ editor[e] \in Job /\ JobFits(editor[e])
    BY TypedByParts DEF Job, JobFits
  <2>3. /\ node' \in [Categories -> Row]
        /\ \A d \in Categories : node'[d].slug[1] = d /\ Fits(node'[d].path)
    BY <2>1, <2>2, RewrittenIs, RowFacts
  <2>4. CASE Leave(e)
    BY <2>3, <2>4, LeaveTyped
  <2>5. CASE editor' = [editor EXCEPT ![e].todo = @ \ {c}]
    <3> DEFINE job == [editor[e] EXCEPT !.todo = @ \ {c}]
    <3>1. job \in Job /\ job.step = editor[e].step /\ job.of = editor[e].of /\ job.row = editor[e].row
      BY <2>2 DEF Job
    <3>2. JobFits(job)
      BY <2>2, <3>1 DEF JobFits
    <3>3. editor' = [editor EXCEPT ![e] = job]
      BY <2>2, <2>5 DEF TreeTyped
    <3> HIDE DEF job
    <3>4. editor' \in [Editors -> Job] /\ \A f \in Editors : JobFits(editor'[f])
      BY <3>1, <3>2, <3>3, TypedByParts
    <3> QED
      BY <2>3, <3>4 DEF TreeTyped, JobFits, Fits
  <2> QED
    BY <2>1, <2>4, <2>5
<1> QED
  BY <1>1, <1>2 DEF RewriteBelow

LEMMA TreeTypedStep == TreeTyped /\ [TreeNext]_treeVars => TreeTyped'
<1> SUFFICES ASSUME TreeTyped, [TreeNext]_treeVars PROVE TreeTyped'
  OBVIOUS
<1>1. CASE UNCHANGED treeVars
  BY <1>1 DEF TreeTyped, treeVars, Fits
<1>2. CASE TreeNext
  <2>1. PICK e \in Editors :
           \/ \E c \in Categories, p \in Pages : BeginCreate(e, c, p) \/ BeginMove(e, c, p)
           \/ \E c \in Categories : BeginRename(e, c) \/ BeginRestore(e, c)
           \/ \E c \in Categories, strategy \in Strategies : BeginDelete(e, c, strategy)
           \/ InsertNode(e) \/ WriteNode(e) \/ DeleteNodes(e) \/ RestoreNode(e) \/ RewriteBelow(e)
    BY <1>2 DEF TreeNext, Pages
  <2>2. CASE \E c \in Categories, p \in Pages : BeginCreate(e, c, p) \/ BeginMove(e, c, p)
    BY <2>2, BeginCreateTyped, BeginMoveTyped
  <2>3. CASE \E c \in Categories : BeginRename(e, c) \/ BeginRestore(e, c)
    BY <2>3, BeginRenameTyped, BeginRestoreTyped
  <2>4. CASE \E c \in Categories, strategy \in Strategies : BeginDelete(e, c, strategy)
    BY <2>4, BeginDeleteTyped
  <2>5. CASE InsertNode(e) \/ WriteNode(e) \/ DeleteNodes(e) \/ RestoreNode(e) \/ RewriteBelow(e)
    BY <2>5, InsertNodeTyped, WriteNodeTyped, DeleteNodesTyped, RestoreNodeTyped, RewriteBelowTyped
  <2> QED
    BY <2>1, <2>2, <2>3, <2>4, <2>5
<1> QED
  BY <1>1, <1>2

\* The rows of the tree, and what requests are about to write, are well-formed: paths
\* are within MAX_CATEGORY_DEPTH whatever administrators do at once.
THEOREM TreeTypeCorrect == TreeSpec => []TreeTypeOK
<1>1. TreeTyped => TreeTypeOK
  BY RowFacts DEF TreeTyped, TreeTypeOK, Job, Pages
<1> QED
  BY <1>1, TreeTypedInit, TreeTypedStep, PTL DEF TreeSpec

(***************************************************************************)
(* A tree whose paths follow its parents.                                  *)
(***************************************************************************)
\* A live category's path goes on from its parent's.
LEMMA FollowedPath ==
    ASSUME TreeTyped, Grown, AllFollow, NEW c \in Categories, InTree(c)
    PROVE  /\ node[c].parent \in Parents
           /\ Len(node[c].path) = Len(PathOf(node[c].parent)) + 1
           /\ Len(PathOf(node[c].parent)) \in Nat
           /\ \A k \in 1..Len(PathOf(node[c].parent)) : node[c].path[k] = PathOf(node[c].parent)[k]
           /\ node[c].path[Len(node[c].path)] = node[c].slug
           /\ node[c].parent \in Categories => InTree(node[c].parent)
<1>1. node[c].path = Append(PathOf(node[c].parent), node[c].slug)
  BY DEF AllFollow, Follows
<1>2. PathOf(node[c].parent) \in Seq(Slugs) /\ node[c].slug \in Slugs
  BY RowFacts
<1>3. node[c].parent \in Parents
  BY DEF Grown
<1>4. node[c].parent \in Categories => InTree(node[c].parent)
  BY <1>3, TreeBasics DEF Parents
<1> QED
  BY <1>1, <1>2, <1>3, <1>4

\* What is below a category by its path is what is below it by its children.
LEMMA BranchGrows ==
    ASSUME TreeTyped, Grown, AllFollow, NEW c \in Categories, InTree(c)
    PROVE  /\ \A d \in Categories : InTree(d) /\ d # c =>
                (d \in Under(node[c].path) <=> node[d].parent \in Branch(c))
           /\ c \notin Under(node[c].path)
           /\ \A d \in Branch(c) : InTree(d) /\ Len(node[c].path) <= Len(node[d].path)
<1>1. c \notin Under(node[c].path)
  BY RowFacts DEF Under, StartsWith
<1>2. \A d \in Branch(c) : InTree(d) /\ Len(node[c].path) <= Len(node[d].path)
  BY RowFacts DEF Branch, Under, StartsWith
<1>5. DOMAIN node[c].path = 1..Len(node[c].path)
  <2>1. node[c].path \in Seq(Slugs)
    BY RowFacts
  <2> QED
    BY <2>1
<1>3. ASSUME NEW d \in Categories, InTree(d), d # c, node[d].parent \in Branch(c)
      PROVE  d \in Under(node[c].path)
  <2> DEFINE p == node[d].parent
  <2>1. p \in Categories /\ InTree(p) /\ p # NoCategory
    BY <1>2, <1>3, TreeBasics DEF InTree
  <2>2. /\ node[c].path \in Seq(Slugs) /\ node[p].path \in Seq(Slugs)
        /\ Len(node[c].path) \in Nat /\ Len(node[p].path) \in Nat
        /\ Len(node[c].path) <= Len(node[p].path)
        /\ \A k \in 1..Len(node[c].path) : node[p].path[k] = node[c].path[k]
    <3>1. p = c \/ p \in Under(node[c].path)
      BY <1>3 DEF Branch
    <3> HIDE DEF p
    <3> QED
      BY <2>1, <3>1, RowFacts DEF Under, StartsWith
  <2>3. /\ Len(node[d].path) = Len(node[p].path) + 1
        /\ \A k \in 1..Len(node[p].path) : node[d].path[k] = node[p].path[k]
    BY <1>3, <2>1, FollowedPath DEF PathOf
  <2> HIDE DEF p
  <2>4. StartsWith(node[d].path, node[c].path)
    <3>1. \A k \in 1..Len(node[c].path) : node[d].path[k] = node[c].path[k]
      <4> SUFFICES ASSUME NEW k \in 1..Len(node[c].path) PROVE node[d].path[k] = node[c].path[k]
        OBVIOUS
      <4>1. k \in 1..Len(node[p].path)
        BY <2>2
      <4> QED
        BY <2>2, <2>3, <4>1
    <3>2. Len(node[c].path) < Len(node[d].path)
      BY <2>2, <2>3
    <3> QED
      BY <1>5, <3>1, <3>2 DEF StartsWith
  <2> QED
    BY <1>3, <2>4 DEF Under
<1>4. ASSUME NEW d \in Categories, InTree(d), d # c, d \in Under(node[c].path)
      PROVE  node[d].parent \in Branch(c)
  <2> DEFINE p == node[d].parent
  <2>1. /\ Len(node[c].path) < Len(node[d].path)
        /\ \A k \in 1..Len(node[c].path) : node[d].path[k] = node[c].path[k]
        /\ node[c].path \in Seq(Slugs) /\ Len(node[c].path) \in Nat
    BY <1>4, RowFacts DEF Under, StartsWith
  <2>2. /\ Len(node[d].path) = Len(PathOf(p)) + 1 /\ Len(PathOf(p)) \in Nat
        /\ \A k \in 1..Len(PathOf(p)) : node[d].path[k] = PathOf(p)[k]
        /\ p \in Parents
        /\ p \in Categories => InTree(p)
    BY <1>4, FollowedPath
  <2>3. /\ Len(node[c].path) \in 1..Len(node[c].path)
        /\ node[c].path[Len(node[c].path)] = node[c].slug /\ node[c].slug[1] = c
    BY FollowedPath, RowFacts
  <2> HIDE DEF p
  <2>4. Len(PathOf(p)) # 0
    BY <2>1, <2>2, <2>3
  <2>5. p \in Categories /\ PathOf(p) = node[p].path /\ InTree(p)
    BY <2>2, <2>4 DEF PathOf, Parents
  <2>6. CASE Len(node[c].path) = Len(node[p].path)
    <3>1. node[p].path[Len(node[p].path)] = node[p].slug /\ node[p].slug[1] = p
      BY <2>5, FollowedPath, RowFacts
    <3>2. node[p].path[Len(node[p].path)] = node[c].path[Len(node[c].path)]
      BY <2>1, <2>2, <2>3, <2>5, <2>6
    <3>3. p = c
      BY <2>3, <3>1, <3>2
    <3> QED
      BY <3>3 DEF Branch, p
  <2>7. CASE Len(node[c].path) < Len(node[p].path)
    <3>1. StartsWith(node[p].path, node[c].path)
      <4>1. \A k \in 1..Len(node[c].path) : node[p].path[k] = node[c].path[k]
        BY <2>1, <2>2, <2>5, <2>7
      <4> QED
        BY <1>5, <2>7, <4>1 DEF StartsWith
    <3>2. p \in Under(node[c].path)
      BY <2>5, <3>1 DEF Under
    <3> QED
      BY <3>2 DEF Branch, p
  <2> QED
    BY <2>1, <2>2, <2>5, <2>6, <2>7
<1> QED
  BY <1>1, <1>2, <1>3, <1>4

\* A depth for every row is the length of its path.
LEMMA FollowedFits == TreeTyped /\ Grown /\ AllFollow => DepthsFit
<1> SUFFICES ASSUME TreeTyped, Grown, AllFollow PROVE DepthsFit
  OBVIOUS
<1> DEFINE level == [c \in Categories |-> Len(node[c].path)]
<1>1. level \in [Categories -> 0..(DepthCap + 1)]
  BY RowFacts, TreeBasics
<1>2. ASSUME NEW c \in Categories, InTree(c) PROVE IsLevel(level, c)
  <2>1. /\ level[c] = Len(PathOf(node[c].parent)) + 1 /\ Len(PathOf(node[c].parent)) \in Nat
        /\ node[c].parent \in Parents
    BY <1>2, FollowedPath
  <2>2. CASE node[c].parent = NoCategory
    <3>1. PathOf(NoCategory) = <<>> /\ Len(<<>>) = 0
      BY DEF PathOf
    <3> QED
      BY <2>1, <2>2, <3>1 DEF IsLevel
  <2>3. CASE node[c].parent # NoCategory
    <3>1. node[c].parent \in Categories
      BY <2>1, <2>3 DEF Parents
    <3>2. level[node[c].parent] = Len(PathOf(node[c].parent))
      BY <2>3, <3>1 DEF PathOf
    <3> QED
      BY <2>1, <2>3, <3>2 DEF IsLevel
  <2> QED
    BY <2>2, <2>3
<1> HIDE DEF level
<1> QED
  BY <1>1, <1>2 DEF DepthsFit

(***************************************************************************)
(* Climbing a tree whose categories have depths.                           *)
(***************************************************************************)
Levelled(level) ==
    /\ level \in [Categories -> 0..(DepthCap + 1)]
    /\ \A c \in Categories : InTree(c) => IsLevel(level, c)

\* Each step of a climb is one level up.
LEMMA ClimbLevels ==
    ASSUME NEW level, Levelled(level), NEW d \in Categories, InTree(d)
    PROVE  \A n \in 0..Height : Climb(d)[n] # NoCategory =>
              /\ Climb(d)[n] \in Categories /\ InTree(Climb(d)[n])
              /\ level[Climb(d)[n]] + n = level[d]
<1> DEFINE up == Climb(d)
           Wrong == {n \in Nat : n <= Height /\ up[n] # NoCategory /\ level[up[n]] + n # level[d]}
<1>1. /\ Height \in Nat /\ up[0] = d /\ d # NoCategory
      /\ \A n \in 1..Height : up[n] = Above(up[n - 1])
      /\ \A n \in 0..Height : up[n] # NoCategory => up[n] \in Categories /\ InTree(up[n])
  BY ClimbIs, LoadedIs, TreeBasics DEF Height, InTree
<1>2. level \in [Categories -> Nat] /\ \A c \in Categories : InTree(c) => IsLevel(level, c)
  BY TreeBasics DEF Levelled
<1> HIDE DEF up
<1> SUFFICES ASSUME Wrong # {} PROVE FALSE
  BY <1>1 DEF up
<1>3. PICK n \in Wrong : \A m \in Wrong : n <= m
  BY LeastNumber
<1>4. n # 0
  BY <1>1, <1>2, <1>3
<1>5. /\ n - 1 \in Nat /\ n - 1 <= Height /\ n - 1 \notin Wrong
      /\ n \in 1..Height /\ n \in 0..Height /\ n - 1 \in 0..Height
  BY <1>1, <1>3, <1>4
<1>6. up[n] = Above(up[n - 1])
  BY <1>1, <1>5
<1>7. up[n - 1] # NoCategory /\ up[n] = Loaded(node[up[n - 1]].parent) /\ up[n] # NoCategory
  BY <1>3, <1>6 DEF Above
<1>8. up[n] = node[up[n - 1]].parent
  BY <1>7 DEF Loaded
<1>9. level[up[n - 1]] = 1 + level[up[n]] /\ up[n] \in Categories /\ up[n - 1] \in Categories
  BY <1>1, <1>2, <1>5, <1>7, <1>8 DEF IsLevel
<1>10. level[up[n - 1]] + (n - 1) = level[d]
  BY <1>5, <1>7
<1>11. level[up[n]] + n = level[d]
  BY <1>2, <1>5, <1>9, <1>10
<1> QED
  BY <1>3, <1>11

\* The climb of a category is that of its parent, one step later.
LEMMA ClimbShifts ==
    ASSUME NEW d \in Categories, InTree(d), NEW q \in Categories, q = node[d].parent
    PROVE  \A n \in 1..Height : Climb(d)[n] = Climb(q)[n - 1]
<1> DEFINE up == Climb(d)
           over == Climb(q)
           Wrong == {n \in Nat : 1 <= n /\ n <= Height /\ up[n] # over[n - 1]}
<1>1. /\ Height \in Nat /\ up[0] = d /\ d # NoCategory /\ over[0] = Loaded(q)
      /\ \A n \in 1..Height : up[n] = Above(up[n - 1])
      /\ \A n \in 1..Height : over[n] = Above(over[n - 1])
  BY ClimbIs, LoadedIs, TreeBasics DEF Height, InTree
<1> HIDE DEF up, over
<1> SUFFICES ASSUME Wrong # {} PROVE FALSE
  BY <1>1 DEF up, over
<1>2. PICK n \in Wrong : \A m \in Wrong : n <= m
  BY LeastNumber
<1>3. CASE n = 1
  <2>1. 1 \in 1..Height /\ 1 - 1 = 0
    BY <1>2, <1>3
  <2>2. up[1] = Above(up[0])
    BY <1>1, <2>1
  <2>3. up[1] = over[0]
    BY <1>1, <2>2 DEF Above
  <2> QED
    BY <1>2, <1>3, <2>1, <2>3
<1>4. CASE n # 1
  <2>1. n - 1 \in Nat /\ n - 1 \notin Wrong /\ n \in 1..Height /\ n - 1 \in 1..Height
    <3>1. n \in Nat /\ 1 <= n /\ n <= Height /\ ~(n <= n - 1)
      BY <1>2
    <3> QED
      BY <1>1, <1>2, <1>4, <3>1
  <2>2. up[n - 1] = over[(n - 1) - 1]
    BY <2>1
  <2>3. up[n] = Above(up[n - 1]) /\ over[n - 1] = Above(over[(n - 1) - 1])
    BY <1>1, <2>1
  <2> QED
    BY <1>2, <2>2, <2>3
<1> QED
  BY <1>3, <1>4

\* No more steps than there are categories: what is above the parent is met from the child.
LEMMA ClimbReaches ==
    ASSUME NEW level, Levelled(level), NEW d \in Categories, InTree(d),
           NEW q \in Categories, q = node[d].parent, InTree(q),
           NEW m \in 0..Height, Climb(q)[m] # NoCategory
    PROVE  m + 1 \in 1..Height /\ Climb(d)[m + 1] = Climb(q)[m]
<1> DEFINE up == Climb(q)
           f == [k \in 0..(m + 1) |-> IF k = 0 THEN d ELSE up[k - 1]]
<1>1. Height \in Nat /\ Height = Cardinality(Categories) /\ IsFiniteSet(Categories)
  BY TreeBasics DEF Height
<1>2. \A k \in 0..m : /\ k \in 0..Height /\ up[k] # NoCategory /\ up[k] \in Categories
                      /\ level[up[k]] + k = level[q]
  BY <1>1, ClimbGoesOn, ClimbLevels
<1>3. level \in [Categories -> Nat] /\ level[d] = 1 + level[q]
  BY TreeBasics DEF Levelled, IsLevel
<1> HIDE DEF up
<1>4. \A k \in 0..(m + 1) : f[k] \in Categories /\ level[f[k]] + k = level[d]
  <2> SUFFICES ASSUME NEW k \in 0..(m + 1) PROVE f[k] \in Categories /\ level[f[k]] + k = level[d]
    OBVIOUS
  <2>1. CASE k = 0
    BY <1>1, <1>3, <2>1
  <2>2. CASE k # 0
    <3>1. k - 1 \in 0..m /\ f[k] = up[k - 1]
      BY <1>1, <2>2
    <3> QED
      BY <1>2, <1>3, <3>1
  <2> QED
    BY <2>1, <2>2
<1>5. \A j, k \in 0..(m + 1) : f[j] = f[k] => j = k
  <2> HIDE DEF f
  <2> SUFFICES ASSUME NEW j \in 0..(m + 1), NEW k \in 0..(m + 1), f[j] = f[k] PROVE j = k
    OBVIOUS
  <2>1. level[f[j]] \in Nat /\ level[f[j]] + j = level[d] /\ level[f[j]] + k = level[d]
    BY <1>3, <1>4
  <2> QED
    BY <1>1, <1>3, <2>1
<1>6. f \in [0..(m + 1) -> Categories]
  BY <1>4
<1> HIDE DEF f
<1>7. PICK g : g = f
  OBVIOUS
<1>8. g \in Injection(0..(m + 1), Categories)
  BY <1>5, <1>6, <1>7 DEF Injection, IsInjective
<1>9. Cardinality(0..(m + 1)) <= Cardinality(Categories)
  BY <1>1, <1>8, FS_Injection
<1>10. Cardinality(0..(m + 1)) = m + 2
  BY <1>1, FS_Interval
<1>11. m + 1 \in 1..Height /\ (m + 1) - 1 = m
  BY <1>1, <1>9, <1>10
<1> QED
  BY <1>11, ClimbShifts

LEMMA NoLoop ==
    ASSUME NEW level, Levelled(level), NEW c \in Categories, InTree(c)
    PROVE  ~MakesCycle(c, node[c].parent)
<1>1. PICK q : q = node[c].parent
  OBVIOUS
<1> DEFINE up == Climb(q)
<1>2. DOMAIN up = 0..Height /\ Height \in Nat
  BY ClimbIs, TreeBasics DEF Height
<1>3. ASSUME NEW n \in 0..Height, up[n] # NoCategory
      PROVE  up[n] # c /\ \A m \in 0..(n - 1) : up[m] # up[n]
  <2>1. \A k \in 0..n : up[k] # NoCategory /\ k \in 0..Height
    BY <1>2, <1>3, ClimbGoesOn
  <2>2. Loaded(q) # NoCategory
    BY <1>2, <2>1, ClimbIs
  <2>3. q \in Categories /\ InTree(q)
    BY <2>2 DEF Loaded, InTree
  <2>4. \A k \in 0..n : up[k] \in Categories /\ level[up[k]] + k = level[q]
    BY <2>1, <2>3, ClimbLevels
  <2>5. level \in [Categories -> Nat] /\ level[c] = 1 + level[q]
    BY <1>1, <2>3, TreeBasics DEF Levelled, IsLevel
  <2> HIDE DEF up
  <2>6. n \in 0..n /\ \A m \in 0..(n - 1) : m \in 0..n /\ m # n
    BY <1>2
  <2>7. up[n] # c
    BY <1>2, <2>3, <2>4, <2>5, <2>6
  <2>8. ASSUME NEW m \in 0..(n - 1) PROVE up[m] # up[n]
    BY <1>2, <2>3, <2>4, <2>5, <2>6
  <2> QED
    BY <2>7, <2>8
<1> QED
  BY <1>1, <1>2, <1>3 DEF MakesCycle

\* Where everything nearer the root follows, a category comes to lie at its depth.
LEMMA ParentFits ==
    ASSUME TreeTyped, Grown, NEW level, Levelled(level), NEW c \in Categories, InTree(c),
           \A x \in Categories : InTree(x) /\ level[x] < level[c] => Follows(x)
    PROVE  Len(PathOf(node[c].parent)) + 1 = level[c] /\ level[c] \in Nat /\ level[c] <= DepthCap + 1
<1> DEFINE Wrong == {n \in Nat : \E x \in Categories : /\ InTree(x) /\ level[x] = n /\ n < level[c]
                                                      /\ Len(node[x].path) # n}
<1>1. /\ level \in [Categories -> Nat] /\ \A x \in Categories : level[x] <= DepthCap + 1
      /\ DepthCap \in Nat
  BY TreeBasics DEF Levelled
<1>2. ASSUME NEW x \in Categories, InTree(x)
      PROVE  /\ node[x].parent = NoCategory => PathOf(node[x].parent) = <<>> /\ level[x] = 1
             /\ node[x].parent # NoCategory =>
                  /\ node[x].parent \in Categories /\ InTree(node[x].parent)
                  /\ PathOf(node[x].parent) = node[node[x].parent].path
                  /\ level[x] = 1 + level[node[x].parent]
  BY <1>1, <1>2 DEF Levelled, IsLevel, PathOf, Grown, Parents
<1>3. Wrong = {}
  <2> SUFFICES ASSUME Wrong # {} PROVE FALSE
    OBVIOUS
  <2>1. PICK n \in Wrong : \A m \in Wrong : n <= m
    BY LeastNumber
  <2>2. PICK x \in Categories : InTree(x) /\ level[x] = n /\ n < level[c] /\ Len(node[x].path) # n
    BY <2>1
  <2>3. node[x].path = Append(PathOf(node[x].parent), node[x].slug)
    BY <2>2 DEF Follows
  <2>4. PathOf(node[x].parent) \in Seq(Slugs) /\ node[x].slug \in Slugs
    BY RowFacts
  <2>5. Len(node[x].path) = Len(PathOf(node[x].parent)) + 1
    BY <2>3, <2>4
  <2>6. CASE node[x].parent = NoCategory
    <3>1. Len(PathOf(node[x].parent)) = 0 /\ level[x] = 1
      BY <1>2, <2>2, <2>6
    <3> QED
      BY <2>2, <2>5, <3>1
  <2>7. CASE node[x].parent # NoCategory
    <3>1. PICK y \in Categories : y = node[x].parent
      BY <1>2, <2>2, <2>7
    <3>2. InTree(y) /\ PathOf(y) = node[y].path /\ level[x] = 1 + level[y]
      BY <1>2, <2>2, <2>7, <3>1
    <3>3. level[y] \in Nat /\ level[y] < n /\ level[y] < level[c] /\ level[y] \notin Wrong
      BY <1>1, <2>1, <2>2, <3>2
    <3>4. Len(node[y].path) = level[y]
      BY <3>2, <3>3
    <3> QED
      BY <1>1, <2>2, <2>5, <3>1, <3>2, <3>4
  <2> QED
    BY <2>6, <2>7
<1>4. CASE node[c].parent = NoCategory
  <2>1. Len(PathOf(node[c].parent)) = 0
    BY <1>2, <1>4
  <2> QED
    BY <1>1, <1>2, <1>4, <2>1
<1>5. CASE node[c].parent # NoCategory
  <2>1. PICK y \in Categories : y = node[c].parent
    BY <1>2, <1>5
  <2>2. InTree(y) /\ PathOf(y) = node[y].path /\ level[c] = 1 + level[y] /\ level[y] \in Nat
    BY <1>1, <1>2, <1>5, <2>1
  <2>3. level[y] < level[c] /\ level[y] \notin Wrong
    BY <1>3, <2>2
  <2>4. Len(node[y].path) = level[y]
    BY <2>2, <2>3
  <2> QED
    BY <1>1, <2>1, <2>2, <2>4
<1> QED
  BY <1>4, <1>5

\* assertNoCycle() by the parents keeps a category out of its own branch by the paths.
LEMMA MoveOutside ==
    ASSUME TreeTyped, Grown, AllFollow, NEW c \in Categories, InTree(c),
           NEW p \in Parents \ {c}, ~MakesCycle(c, p)
    PROVE  p \notin Branch(c)
<1> SUFFICES ASSUME p \in Branch(c) PROVE FALSE
  OBVIOUS
<1>1. p \in Categories /\ InTree(p) /\ p \in Under(node[c].path) /\ p # NoCategory
  BY TreeBasics DEF Branch, Under
<1> DEFINE up == Climb(p)
           Wrong == {n \in Nat : n <= Height /\ up[n] \notin Under(node[c].path)}
<1>2. /\ Height \in Nat /\ Height = Cardinality(Categories) /\ IsFiniteSet(Categories)
      /\ DOMAIN up = 0..Height /\ up[0] = p
      /\ \A n \in 1..Height : up[n] = Above(up[n - 1])
  BY <1>1, ClimbIs, LoadedIs, TreeBasics DEF Height
<1>3. \A n \in 0..Height : up[n] # NoCategory => up[n] # c
  BY <1>2 DEF MakesCycle
<1> HIDE DEF up
<1>4. Wrong = {}
  <2> SUFFICES ASSUME Wrong # {} PROVE FALSE
    OBVIOUS
  <2>1. PICK n \in Wrong : \A m \in Wrong : n <= m
    BY LeastNumber
  <2>2. n # 0
    BY <1>1, <1>2, <2>1
  <2>3. n - 1 \in Nat /\ n - 1 <= Height /\ n - 1 \notin Wrong /\ n \in 1..Height /\ n \in 0..Height
    BY <1>2, <2>1, <2>2
  <2>4. PICK d : d = up[n - 1]
    OBVIOUS
  <2>5. d \in Under(node[c].path)
    BY <2>3, <2>4
  <2>6. d \in Categories /\ InTree(d) /\ d # c /\ d # NoCategory
    BY <2>5, BranchGrows, TreeBasics DEF Under
  <2>7. node[d].parent \in Branch(c) /\ InTree(node[d].parent)
    BY <2>5, <2>6, BranchGrows
  <2>8. up[n] = node[d].parent
    BY <1>2, <2>3, <2>4, <2>6, <2>7, LoadedIs DEF Above
  <2>9. up[n] # NoCategory
    BY <2>7, <2>8, TreeBasics DEF InTree
  <2>10. up[n] # c
    BY <1>3, <2>3, <2>9
  <2>11. up[n] \in Under(node[c].path)
    BY <2>7, <2>8, <2>10 DEF Branch
  <2> QED
    BY <2>1, <2>11
<1>5. \A n \in 0..Height : up[n] \in Categories /\ up[n] # NoCategory
  BY <1>2, <1>4, TreeBasics DEF Under
<1>6. PICK level \in [Categories -> 0..(DepthCap + 1)] :
         \A d \in Categories : InTree(d) => IsLevel(level, d)
  BY FollowedFits DEF DepthsFit
<1>7. Levelled(level) /\ level \in [Categories -> Nat]
  BY <1>6, TreeBasics DEF Levelled
<1>8. \A n \in 0..Height : level[up[n]] \in Nat /\ level[up[n]] + n = level[p]
  BY <1>1, <1>5, <1>7, ClimbLevels DEF up
<1>9. \A n, m \in 0..Height : up[n] = up[m] => n = m
  <2> SUFFICES ASSUME NEW n \in 0..Height, NEW m \in 0..Height, up[n] = up[m] PROVE n = m
    OBVIOUS
  <2>1. level[up[n]] \in Nat /\ level[up[n]] + n = level[p] /\ level[up[n]] + m = level[p]
    BY <1>8
  <2> QED
    BY <1>1, <1>2, <1>7, <2>1
<1>10. up = [n \in 0..Height |-> up[n]]
  BY ClimbIs DEF up
<1>11. up \in [0..Height -> Categories]
  BY <1>5, <1>10
<1>12. PICK g : g = up
  OBVIOUS
<1>13. g \in Injection(0..Height, Categories)
  BY <1>2, <1>9, <1>11, <1>12 DEF Injection, IsInjective
<1>14. Cardinality(0..Height) <= Cardinality(Categories)
  BY <1>2, <1>13, FS_Injection
<1>15. Cardinality(0..Height) = Height + 1
  BY <1>2, FS_Interval
<1> QED
  BY <1>2, <1>14, <1>15

\* A path rewritten for a row is that rewritten for its parent, and its own slug.
LEMMA PathBelowGrows ==
    ASSUME TreeTyped, NEW c \in Categories, NEW d \in Categories, InTree(d),
           NEW q \in Categories, q = node[d].parent,
           NEW n \in 0..Height, Climb(q)[n] = c, n + 1 \in 0..Height, Climb(d)[n + 1] = c
    PROVE  PathBelow(c, d, n + 1) = Append(PathBelow(c, q, n), node[d].slug)
<1> DEFINE base == Append(PathOf(node[c].parent), node[c].slug)
           tail == [k \in 1..n |-> node[Climb(q)[n - k]].slug]
           longer == [k \in 1..(n + 1) |-> node[Climb(d)[n + 1 - k]].slug]
           slug == node[d].slug
<1>1. Height \in Nat /\ n \in Nat /\ Climb(d)[0] = d /\ slug \in Slugs
      /\ \A k \in 1..Height : Climb(d)[k] = Climb(q)[k - 1]
  BY ClimbIs, LoadedIs, ClimbShifts, TreeBasics, RowFacts DEF Height
<1>2. base \in Seq(Slugs)
  BY RowFacts
<1>3. \A k \in 1..n : node[Climb(q)[n - k]].slug \in Slugs
  <2> SUFFICES ASSUME NEW k \in 1..n PROVE node[Climb(q)[n - k]].slug \in Slugs
    OBVIOUS
  <2>1. n - k \in 0..n /\ n - k \in 0..Height /\ Climb(q)[n] # NoCategory
    BY <1>1, TreeBasics
  <2>2. Climb(q)[n - k] # NoCategory
    BY <2>1, ClimbGoesOn
  <2>3. Climb(q)[n - k] \in Categories
    BY <2>1, <2>2, ClimbIs DEF InTree
  <2> QED
    BY <2>3, RowFacts
<1>4. tail \in Seq(Slugs) /\ Len(tail) = n
  <2>1. tail \in [1..n -> Slugs]
    BY <1>3
  <2> HIDE DEF tail
  <2> QED
    BY <1>1, <2>1, FunctionIsPath
<1>5. \A k \in 1..n : longer[k] = tail[k]
  <2> SUFFICES ASSUME NEW k \in 1..n PROVE longer[k] = tail[k]
    OBVIOUS
  <2>1. /\ k \in 1..(n + 1) /\ n + 1 - k \in 1..Height /\ (n + 1 - k) - 1 = n - k
    BY <1>1
  <2>2. Climb(d)[n + 1 - k] = Climb(q)[n - k]
    BY <1>1, <2>1
  <2> QED
    BY <2>1, <2>2
<1>6. longer[n + 1] = slug
  BY <1>1
<1>7. longer = [k \in 1..(n + 1) |-> IF k = n + 1 THEN slug ELSE tail[k]]
  <2>1. \A k \in 1..(n + 1) : longer[k] = IF k = n + 1 THEN slug ELSE tail[k]
    BY <1>1, <1>5, <1>6
  <2> QED
    BY <2>1
<1> HIDE DEF base, tail, longer, slug
<1>8. longer = Append(tail, slug)
  BY <1>1, <1>4, <1>7
<1>9. base \o Append(tail, slug) = Append(base \o tail, slug)
  BY <1>1, <1>2, <1>4
<1>10. PathBelow(c, d, n + 1) = base \o longer
  BY DEF PathBelow, base, longer
<1>11. PathBelow(c, q, n) = base \o tail
  BY DEF PathBelow, base, tail
<1> QED
  BY <1>8, <1>9, <1>10, <1>11 DEF slug

(***************************************************************************)
(* Rewriting what is below a category.                                     *)
(***************************************************************************)
Below(c, d) == \E n \in 0..Height : Climb(d)[n] = c

\* Who is below a category, by their parents.
LEMMA BelowGrows ==
    ASSUME Grown, NEW level, Levelled(level), NEW c \in Categories, InTree(c)
    PROVE  /\ Below(c, c)
           /\ ~Below(c, node[c].parent)
           /\ \A d \in Categories : ~InTree(d) => ~Below(c, d)
           /\ \A d \in Categories : InTree(d) /\ d # c => (Below(c, d) <=> Below(c, node[d].parent))
<1>1. Height \in Nat /\ c # NoCategory
  BY TreeBasics DEF Height
<1>2. \A d \in Categories : InTree(d) => Climb(d)[0] = d
  BY ClimbIs, LoadedIs
<1>3. \A d : Below(c, d) => d \in Categories /\ InTree(d)
  <2> SUFFICES ASSUME NEW d, NEW n \in 0..Height, Climb(d)[n] = c PROVE d \in Categories /\ InTree(d)
    BY DEF Below
  <2>1. Climb(d)[0] # NoCategory
    BY <1>1, ClimbGoesOn
  <2>2. Loaded(d) # NoCategory
    BY <2>1, ClimbIs
  <2> QED
    BY <2>2 DEF Loaded, InTree
<1>4. Below(c, c)
  BY <1>1, <1>2 DEF Below
<1>5. ASSUME NEW d \in Categories, InTree(d), NEW q, q = node[d].parent, Below(c, q)
      PROVE  Below(c, d) /\ level[c] < level[d]
  <2>1. q \in Categories /\ InTree(q)
    BY <1>3, <1>5
  <2>2. PICK m \in 0..Height : Climb(q)[m] = c
    BY <1>5 DEF Below
  <2>3. m + 1 \in 1..Height /\ Climb(d)[m + 1] = c
    BY <1>1, <1>5, <2>1, <2>2, ClimbReaches
  <2>4. level[c] + m = level[q] /\ level[d] = 1 + level[q] /\ level \in [Categories -> Nat]
    BY <1>1, <1>5, <2>1, <2>2, ClimbLevels, TreeBasics DEF Levelled, IsLevel
  <2> QED
    BY <1>1, <2>1, <2>3, <2>4 DEF Below
<1>6. ASSUME NEW d \in Categories, InTree(d), NEW q, q = node[d].parent, d # c, Below(c, d)
      PROVE  Below(c, q)
  <2>1. PICK n \in 0..Height : Climb(d)[n] = c
    BY <1>6 DEF Below
  <2>2. n # 0
    BY <1>2, <1>6, <2>1
  <2>3. n \in 1..Height /\ 1 \in 0..n /\ 1 \in 1..Height /\ n - 1 \in 0..Height /\ 1 - 1 = 0
    BY <1>1, <2>1, <2>2
  <2>4. Climb(d)[1] # NoCategory
    BY <1>1, <2>1, <2>3, ClimbGoesOn
  <2>5. Climb(d)[1] = Above(Climb(d)[1 - 1]) /\ Climb(d)[1 - 1] = d
    BY <1>2, <1>6, <2>3, ClimbIs
  <2>6. Loaded(q) # NoCategory
    BY <1>6, <2>4, <2>5 DEF Above
  <2>7. q \in Categories
    BY <2>6 DEF Loaded, InTree
  <2>8. Climb(q)[n - 1] = c
    BY <1>6, <2>1, <2>3, <2>7, ClimbShifts
  <2> QED
    BY <2>3, <2>8 DEF Below
<1>7. level[c] \in Nat
  BY TreeBasics DEF Levelled
<1> QED
  BY <1>3, <1>4, <1>5, <1>6, <1>7

\* recomputeSubtree(): where the category comes to lie at its depth, all below it fit, and
\* their paths follow; the others' stay.
LEMMA RewriteFollows ==
    ASSUME TreeTyped, Grown, NEW level, Levelled(level), NEW c \in Categories, InTree(c),
           Len(PathOf(node[c].parent)) + 1 = level[c]
    PROVE  /\ ~TooDeep(c)
           /\ Rewritten(c)[c].path = Append(PathOf(node[c].parent), node[c].slug)
           /\ \A d \in Categories : ~Below(c, d) => Rewritten(c)[d].path = node[d].path
           /\ \A d \in Categories : InTree(d) /\ d # c /\ Below(c, d) =>
                 /\ node[d].parent \in Categories
                 /\ Rewritten(c)[d].path = Append(Rewritten(c)[node[d].parent].path, node[d].slug)
<1>1. Height \in Nat /\ c # NoCategory /\ DepthCap \in Nat
  BY TreeBasics DEF Height
<1>2. level \in [Categories -> Nat] /\ \A d \in Categories : level[d] <= DepthCap + 1
  BY <1>1 DEF Levelled
<1>3. ASSUME NEW d, NEW n \in 0..Height, Climb(d)[n] = c
      PROVE  /\ d \in Categories /\ InTree(d) /\ level[c] + n = level[d]
             /\ Len(PathBelow(c, d, n)) <= DepthCap + 1
  <2>1. Climb(d)[0] # NoCategory
    BY <1>1, <1>3, ClimbGoesOn
  <2>2. Loaded(d) # NoCategory
    BY <2>1, ClimbIs
  <2>3. d \in Categories /\ InTree(d)
    BY <2>2 DEF Loaded, InTree
  <2>4. level[c] + n = level[d]
    BY <1>1, <1>3, <2>3, ClimbLevels
  <2>5. Len(PathBelow(c, d, n)) = Len(PathOf(node[c].parent)) + 1 + n
    BY <1>3, PathBelowIs
  <2>6. Len(PathOf(node[c].parent)) \in Nat
    BY RowFacts
  <2> QED
    BY <1>1, <1>2, <2>3, <2>4, <2>5, <2>6
<1>4. ASSUME NEW d \in Categories, NEW n \in 0..Height, Climb(d)[n] = c
      PROVE  Rewritten(c)[d].path = PathBelow(c, d, n)
  <2>1. \A m \in 0..Height : Climb(d)[m] = c => m = n
    <3> SUFFICES ASSUME NEW m \in 0..Height, Climb(d)[m] = c PROVE m = n
      OBVIOUS
    <3>1. level[c] + m = level[d] /\ level[c] + n = level[d]
      BY <1>3, <1>4
    <3> QED
      BY <1>1, <1>2, <3>1
  <2>2. Len(PathBelow(c, d, n)) <= DepthCap + 1
    BY <1>3, <1>4
  <2> QED
    BY <1>4, <2>1, <2>2, RewrittenIs
<1>5. ~TooDeep(c)
  <2> SUFFICES ASSUME NEW d \in Categories, NEW n \in DOMAIN Climb(d), Climb(d)[n] = c
               PROVE  WithinCap(PathBelow(c, d, n))
    BY DEF TooDeep
  <2>1. n \in 0..Height
    BY ClimbIs
  <2> QED
    BY <1>3, <2>1 DEF WithinCap
<1>6. Rewritten(c)[c].path = Append(PathOf(node[c].parent), node[c].slug)
  <2>1. Climb(c)[0] = c /\ 0 \in 0..Height
    BY <1>1, ClimbIs, LoadedIs
  <2>2. Rewritten(c)[c].path = PathBelow(c, c, 0)
    BY <1>4, <2>1
  <2> DEFINE base == Append(PathOf(node[c].parent), node[c].slug)
             tail == [k \in 1..0 |-> node[Climb(c)[0 - k]].slug]
  <2>3. base \in Seq(Slugs)
    BY RowFacts
  <2>4. tail = <<>>
    OBVIOUS
  <2> HIDE DEF base, tail
  <2>5. PathBelow(c, c, 0) = base \o tail
    BY DEF PathBelow, base, tail
  <2>6. base \o <<>> = base
    BY <2>3
  <2> QED
    BY <2>2, <2>4, <2>5, <2>6 DEF base
<1>7. \A d \in Categories : ~Below(c, d) => Rewritten(c)[d].path = node[d].path
  BY RewrittenIs DEF Below
<1>8. ASSUME NEW d \in Categories, InTree(d), d # c, Below(c, d)
      PROVE  /\ node[d].parent \in Categories
             /\ Rewritten(c)[d].path = Append(Rewritten(c)[node[d].parent].path, node[d].slug)
  <2>1. PICK q : q = node[d].parent
    OBVIOUS
  <2>2. Below(c, q)
    BY <1>8, <2>1, BelowGrows
  <2>3. PICK m \in 0..Height : Climb(q)[m] = c
    BY <2>2 DEF Below
  <2>4. q \in Categories /\ InTree(q)
    BY <1>3, <2>3
  <2>5. m + 1 \in 1..Height /\ Climb(d)[m + 1] = c
    BY <1>1, <1>8, <2>1, <2>3, <2>4, ClimbReaches
  <2>6. m + 1 \in 0..Height
    BY <1>1, <2>5
  <2>7. Rewritten(c)[d].path = PathBelow(c, d, m + 1) /\ Rewritten(c)[q].path = PathBelow(c, q, m)
    BY <1>4, <2>3, <2>4, <2>5, <2>6
  <2>8. PathBelow(c, d, m + 1) = Append(PathBelow(c, q, m), node[d].slug)
    BY <1>8, <2>1, <2>3, <2>4, <2>5, <2>6, PathBelowGrows
  <2> QED
    BY <2>1, <2>4, <2>7, <2>8
<1> QED
  BY <1>5, <1>6, <1>7, <1>8

(***************************************************************************)
(* What a request knows, checked.                                          *)
(***************************************************************************)
LEMMA StandsStill ==
    UNCHANGED node => /\ TreeStands => TreeStands'
                      /\ AllFollow => AllFollow'
BY DEF TreeStands, Rooted, Grown, DepthsFit, IsLevel, AllFollow, Follows, InTree, PathOf, Parents

\* With the rows as they were, what a request knew it still knows.
LEMMA StillKnows ==
    ASSUME UNCHANGED node, NEW e \in Editors, NEW job, editor'[e] = job, Knows(job)
    PROVE  Knows(editor[e])'
<1> USE DEF InTree, PathOf, Parents, Under, Branch, Children
<1>1. AllFollow => AllFollow'
  BY StandsStill
<1>2. job.fresh /\ job.step # "restore"
  BY DEF Knows
<1>3. job.step = "create" => CreateKnows(editor[e])'
  BY <1>1 DEF Knows, CreateKnows
<1>4. job.step = "move" => MoveKnows(editor[e])'
  BY <1>1 DEF Knows, MoveKnows
<1>5. job.step = "rename" => RenameKnows(editor[e])'
  BY <1>1 DEF Knows, RenameKnows
<1>6. job.step = "delete" => DeleteKnows(editor[e])'
  BY <1>1 DEF Knows, DeleteKnows
<1>7. job.step = "below" => BelowKnows(editor[e])'
  BY <1>1 DEF Knows, BelowKnows, Follows
<1>8. job.step = "idle" => AllFollow'
  BY <1>1 DEF Knows
<1> QED
  BY <1>2, <1>3, <1>4, <1>5, <1>6, <1>7, <1>8 DEF Knows

LEMMA BeginCreateKnows ==
    ASSUME Branching, NEW e \in Editors, NEW c \in Categories, NEW p \in Pages, BeginCreate(e, c, p)
    PROVE  Knows(editor[e])'
<1> DEFINE path == Append(PathOf(p), node[c].slug)
           row == [node[c] EXCEPT !.state = "live", !.parent = p, !.path = path]
           job == [AtDesk EXCEPT !.step = "create", !.of = c, !.row = row]
<1>1. AllFollow /\ node[c].state = "absent" /\ p \in Parents
  BY DEF Branching, Knows, BeginCreate, EditorAt
<1>2. node[c].slug = <<c, "first">> /\ node[c] \in Row
  BY <1>1, RowFacts DEF Branching, TreeStands, Grown, Unplanted
<1>3. row.state = "live" /\ row.parent = p /\ row.path = path /\ row.slug = node[c].slug
  <2> HIDE DEF path
  <2> QED
    BY <1>2 DEF Row
<1>4. editor'[e] = job /\ UNCHANGED node
  BY DEF BeginCreate, TakeUp, Branching, TreeTyped
<1>5. job.step = "create" /\ job.of = c /\ job.row = row /\ job.fresh
  <2> HIDE DEF row
  <2> QED
    BY DEF AtDesk
<1> HIDE DEF row, job
<1>6. Knows(job)
  BY <1>1, <1>3, <1>5 DEF Knows, CreateKnows
<1>7. PICK rigid : rigid = job
  OBVIOUS
<1> QED
  BY <1>4, <1>6, <1>7, StillKnows

LEMMA BeginMoveKnows ==
    ASSUME Branching, NEW e \in Editors, NEW c \in Categories, NEW p \in Pages, BeginMove(e, c, p)
    PROVE  Knows(editor[e])'
<1> DEFINE path == Append(PathOf(p), node[c].slug)
           row == [node[c] EXCEPT !.parent = p, !.path = path]
           job == [AtDesk EXCEPT !.step = "move", !.of = c, !.row = row]
<1>1. AllFollow /\ InTree(c) /\ p \in Parents \ {c} /\ ~MakesCycle(c, p) /\ DeepestFits(c, path)
  BY DEF Branching, Knows, BeginMove, EditorAt
<1>2. node[c] \in Row /\ path \in Seq(Slugs) /\ Len(path) \in Nat
  BY RowFacts DEF Branching
<1>3. row.parent = p /\ row.path = path
  <2> HIDE DEF path
  <2> QED
    BY <1>2 DEF Row
<1>4. editor'[e] = job /\ UNCHANGED node
  BY DEF BeginMove, TakeUp, Branching, TreeTyped
<1>5. job.step = "move" /\ job.of = c /\ job.row = row /\ job.fresh
  <2> HIDE DEF row
  <2> QED
    BY DEF AtDesk
<1>6. p \in Parents \ Branch(c)
  BY <1>1, MoveOutside DEF Branching, TreeStands
<1>7. ASSUME NEW d \in Under(node[c].path)
      PROVE  Len(node[d].path) + Len(path) <= DepthCap + 1 + Len(node[c].path)
  <2>1. Len(node[d].path) \in Nat /\ Len(node[c].path) \in Nat /\ DepthCap \in Nat
    BY RowFacts, TreeBasics DEF Branching, Under
  <2>2. Len(node[d].path) + Len(path) - Len(node[c].path) <= DepthCap + 1
    <3> HIDE DEF path
    <3> QED
      BY <1>1 DEF DeepestFits
  <2>3. \A a, b, x, cap \in Nat : a + b - x <= cap + 1 => a + b <= cap + 1 + x
    OBVIOUS
  <2>4. Len(path) \in Nat
    BY <1>2
  <2> HIDE DEF path
  <2> QED
    BY <2>1, <2>2, <2>3, <2>4
<1> HIDE DEF row, job
<1>8. Knows(job)
  BY <1>1, <1>3, <1>5, <1>6, <1>7 DEF Knows, MoveKnows
<1>9. PICK rigid : rigid = job
  OBVIOUS
<1> QED
  BY <1>4, <1>8, <1>9, StillKnows

LEMMA BeginRenameKnows ==
    ASSUME Branching, NEW e \in Editors, NEW c \in Categories, BeginRename(e, c)
    PROVE  Knows(editor[e])'
<1> DEFINE slug == OtherSlug(c)
           path == [node[c].path EXCEPT ![Len(node[c].path)] = slug]
           row == [node[c] EXCEPT !.slug = slug, !.path = path]
           job == [AtDesk EXCEPT !.step = "rename", !.of = c, !.row = row]
<1>1. AllFollow /\ node[c].state # "absent"
  BY DEF Branching, Knows, BeginRename, EditorAt
<1>2. node[c] \in Row /\ slug \in Slugs
  BY RowFacts DEF Branching, OtherSlug, Slugs
<1>3. row.slug = slug /\ row.path = path
  <2> HIDE DEF path, slug
  <2> QED
    BY <1>2 DEF Row
<1>4. editor'[e] = job /\ UNCHANGED node
  BY DEF BeginRename, TakeUp, Branching, TreeTyped
<1>5. job.step = "rename" /\ job.of = c /\ job.row = row /\ job.fresh
  <2> HIDE DEF row
  <2> QED
    BY DEF AtDesk
<1> HIDE DEF row, job
<1>6. Knows(job)
  <2> HIDE DEF slug
  <2> QED
    BY <1>1, <1>2, <1>3, <1>5 DEF Knows, RenameKnows
<1>7. PICK rigid : rigid = job
  OBVIOUS
<1> QED
  BY <1>4, <1>6, <1>7, StillKnows

LEMMA BeginDeleteKnows ==
    ASSUME Branching, OneEditor, NEW e \in Editors, NEW c \in Categories, NEW strategy \in Strategies,
           BeginDelete(e, c, strategy)
    PROVE  Knows(editor[e])'
<1> DEFINE job == [AtDesk EXCEPT !.step = "delete", !.of = c, !.row = node[c],
                                 !.strategy = strategy, !.todo = Children(c)]
<1>1. AllFollow /\ InTree(c) /\ ~Blocked(c, strategy)
  BY DEF Branching, Knows, BeginDelete, EditorAt
<1>2. strategy \in {"BLOCK", "REASSIGN_CHILDREN", "CASCADE_SOFT"}
  BY TreeAssumption DEF OneEditor
<1>3. editor'[e] = job /\ UNCHANGED node
  BY DEF BeginDelete, TakeUp, Branching, TreeTyped
<1>4. /\ job.step = "delete" /\ job.of = c /\ job.row = node[c] /\ job.fresh
      /\ job.strategy = strategy /\ job.todo = Children(c)
  BY DEF AtDesk
<1> HIDE DEF job
<1>5. Knows(job)
  BY <1>1, <1>2, <1>4 DEF Knows, DeleteKnows, Blocked
<1>6. PICK rigid : rigid = job
  OBVIOUS
<1> QED
  BY <1>3, <1>5, <1>6, StillKnows

\* Depths once more, after a step.
LEMMA FollowedFitsThen == (TreeTyped /\ Grown /\ AllFollow)' => DepthsFit'
BY FollowedFits, PTL

LEMMA AtDeskKnows ==
    ASSUME TreeTyped, NEW e \in Editors, Leave(e), AllFollow'
    PROVE  Knows(editor[e])'
<1>1. editor'[e] = AtDesk
  BY DEF Leave, TreeTyped
<1>2. AtDesk.step = "idle" /\ AtDesk.fresh
  BY DEF AtDesk
<1> QED
  BY <1>1, <1>2 DEF Knows

LEMMA InsertNodeStands ==
    ASSUME Branching, NEW e \in Editors, InsertNode(e)
    PROVE  TreeStands' /\ Knows(editor[e])'
<1>0. PICK c, row : c = editor[e].of /\ row = editor[e].row
  OBVIOUS
<1>1. /\ AllFollow /\ node[c].state = "absent" /\ row.state = "live" /\ row.parent \in Parents
      /\ row.path = Append(PathOf(row.parent), row.slug)
      /\ c \in Categories /\ row \in Row
  BY <1>0 DEF Branching, Knows, CreateKnows, InsertNode, EditorAt, TreeTyped, Job
<1>2. node' = [node EXCEPT ![c] = row] /\ Leave(e)
  BY <1>0 DEF InsertNode
<1>3. TreeTyped' /\ TreeTyped /\ Grown /\ Rooted
  BY InsertNodeTyped DEF Branching, TreeStands
<1>4. node'[c] = row /\ \A d \in Categories : d # c => node'[d] = node[d]
  BY <1>1, <1>2, RowFacts DEF Branching
<1>5. /\ \A d \in Categories : node[d].parent # c
      /\ c \notin Parents /\ c # NoCategory /\ \A d \in Categories : InTree(d) => d # c
  BY <1>1, <1>3, TreeBasics DEF Grown, Parents, InTree
<1>6. \A p \in Pages : p # c => PathOf(p)' = PathOf(p)
  BY <1>4 DEF PathOf, Pages
<1>7. /\ \A d \in Categories : d # c => (InTree(d)' <=> InTree(d))
      /\ InTree(c)' /\ \A p \in Parents : p \in Parents' /\ p \in Pages
  BY <1>1, <1>4, <1>5 DEF InTree, Parents, Pages
<1>8. AllFollow'
  <2>1. ASSUME NEW d \in Categories, InTree(d)', d # c PROVE Follows(d)'
    <3>1. Follows(d) /\ node'[d] = node[d] /\ node[d].parent # c /\ node[d].parent \in Pages
      BY <1>1, <1>3, <1>4, <1>5, <1>7, <2>1, RowFacts DEF AllFollow
    <3>2. PathOf(node[d].parent)' = PathOf(node[d].parent)
      BY <1>6, <3>1 DEF PathOf
    <3> QED
      BY <3>1, <3>2 DEF Follows
  <2>2. Follows(c)'
    <3>1. row.parent # c /\ row.parent \in Pages
      BY <1>1, <1>5, <1>7
    <3>2. PathOf(node[c].parent)' = PathOf(row.parent)
      BY <1>4, <3>1 DEF PathOf, Pages
    <3> QED
      BY <1>1, <1>4, <3>2 DEF Follows
  <2> QED
    BY <2>1, <2>2 DEF AllFollow
<1>9. Grown'
  <2>1. node'[c].state = "live" /\ node'[c].path # <<>> /\ node'[c].parent \in Parents'
    <3>1. PathOf(row.parent) \in Seq(Slugs) /\ row.slug \in Slugs
      BY <1>1, <1>3, <1>4, <1>7, RowFacts, AppendProperties DEF TreeTyped, Row, Slugs
    <3>2. row.path # <<>>
      BY <1>1, <3>1
    <3> QED
      BY <1>1, <1>4, <1>7, <3>2
  <2>2. node[row.parent].state = "live" \/ row.parent = NoCategory
    BY <1>1 DEF Parents, InTree
  <2> QED
    BY <1>1, <1>3, <1>4, <1>5, <1>7, <2>1, <2>2 DEF Grown, Unplanted
<1>10. Rooted'
  <2> SUFFICES ASSUME NEW S \in SUBSET Categories, S # {}
               PROVE  \E d \in S : node'[d].parent \notin S
    BY DEF Rooted
  <2>1. CASE S \subseteq {c}
    BY <1>1, <1>4, <1>5, <2>1
  <2>2. CASE ~(S \subseteq {c})
    <3>1. PICK d \in S \ {c} : node[d].parent \notin S \ {c}
      <4>1. S \ {c} \in SUBSET Categories /\ S \ {c} # {}
        BY <2>2
      <4> HIDE DEF Rooted
      <4> QED
        BY <1>3, <4>1 DEF Rooted
    <3> QED
      BY <1>4, <1>5, <3>1
  <2> QED
    BY <2>1, <2>2
<1>11. DepthsFit'
  BY <1>3, <1>8, <1>9, FollowedFitsThen
<1> QED
  BY <1>2, <1>3, <1>8, <1>9, <1>10, <1>11, AtDeskKnows DEF TreeStands

LEMMA WriteNodeIs ==
    ASSUME TreeTyped, NEW e \in Editors, WriteNode(e), editor[e].fresh,
           NEW c, c = editor[e].of
    PROVE  /\ c \in Categories
           /\ \A d \in Categories : d # c => node'[d] = node[d]
           /\ node'[c].state = node[c].state /\ node'[c].path = editor[e].row.path
           /\ node'[c].parent = IF EditorAt(e, "move") THEN editor[e].row.parent ELSE node[c].parent
           /\ node'[c].slug = IF EditorAt(e, "rename") THEN editor[e].row.slug ELSE node[c].slug
           /\ editor'[e].step = "below" /\ editor'[e].todo = {c} /\ editor'[e].fresh
<1>1. EditorAt(e, "move") \/ EditorAt(e, "rename")
  BY DEF WriteNode
<1>2. c \in Categories /\ node[c] \in Row
  BY <1>1 DEF TreeTyped, EditorAt
<1>3. PICK path, parent, slug :
         /\ path = editor[e].row.path
         /\ parent = IF EditorAt(e, "move") THEN editor[e].row.parent ELSE node[c].parent
         /\ slug = IF EditorAt(e, "rename") THEN editor[e].row.slug ELSE node[c].slug
  OBVIOUS
<1>4. node' = [node EXCEPT ![c].path = path, ![c].parent = parent, ![c].slug = slug]
  BY <1>3 DEF WriteNode
<1>5. /\ \A d \in Categories : d # c => node'[d] = node[d]
      /\ node'[c].state = node[c].state /\ node'[c].path = path
      /\ node'[c].parent = parent /\ node'[c].slug = slug
  BY <1>2, <1>4 DEF TreeTyped, Row
<1>6. editor'[e] = [AtDesk EXCEPT !.step = "below", !.todo = {c}]
  BY DEF WriteNode
<1>7. editor'[e].step = "below" /\ editor'[e].todo = {c} /\ editor'[e].fresh
  BY <1>6 DEF AtDesk
<1> QED
  BY <1>1, <1>2, <1>3, <1>5, <1>7

LEMMA MoveStands ==
    ASSUME Branching, NEW e \in Editors, WriteNode(e), EditorAt(e, "move")
    PROVE  TreeStands' /\ Knows(editor[e])'
<1>1. PICK c, q, path : c = editor[e].of /\ q = editor[e].row.parent /\ path = editor[e].row.path
  OBVIOUS
<1>2. TreeTyped' /\ TreeTyped /\ Grown /\ Rooted
  BY WriteNodeTyped DEF Branching, TreeStands
<1>3. /\ AllFollow /\ InTree(c) /\ q \in Parents /\ q \notin Branch(c)
      /\ path = Append(PathOf(q), node[c].slug)
      /\ \A d \in Under(node[c].path) :
            Len(node[d].path) + Len(path) <= DepthCap + 1 + Len(node[c].path)
      /\ editor[e].fresh
  BY <1>1 DEF Branching, Knows, MoveKnows, EditorAt
<1>4. /\ c \in Categories /\ \A d \in Categories : d # c => node'[d] = node[d]
      /\ node'[c].state = node[c].state /\ node'[c].path = path
      /\ node'[c].parent = q /\ node'[c].slug = node[c].slug
      /\ editor'[e].step = "below" /\ editor'[e].todo = {c} /\ editor'[e].fresh
  <2>1. /\ c \in Categories /\ \A d \in Categories : d # c => node'[d] = node[d]
        /\ node'[c].state = node[c].state /\ node'[c].path = editor[e].row.path
        /\ node'[c].parent = IF EditorAt(e, "move") THEN editor[e].row.parent ELSE node[c].parent
        /\ node'[c].slug = IF EditorAt(e, "rename") THEN editor[e].row.slug ELSE node[c].slug
        /\ editor'[e].step = "below" /\ editor'[e].todo = {c} /\ editor'[e].fresh
    <3>1. TreeTyped /\ editor[e].fresh /\ c = editor[e].of
      BY <1>1, <1>2, <1>3
    <3> QED
      BY ONLY <3>1, e \in Editors, WriteNode(e), WriteNodeIs
  <2>2. ~EditorAt(e, "rename")
    BY DEF EditorAt
  <2> QED
    BY <1>1, <2>1, <2>2
<1>5. /\ \A d \in Categories : InTree(d)' <=> InTree(d)
      /\ q \in Pages /\ q # c /\ c # NoCategory /\ c \in Branch(c)
      /\ \A p \in Pages : p # c => PathOf(p)' = PathOf(p)
      /\ Parents' = Parents
  BY <1>3, <1>4, TreeBasics DEF InTree, Parents, Pages, PathOf, Branch
<1>6. Knows(editor[e])'
  <2>1. Follows(c)'
    BY <1>3, <1>4, <1>5 DEF Follows, PathOf
  <2>2. ASSUME NEW d \in Categories, InTree(d)', d # c, node[d].parent # c PROVE Follows(d)'
    <3>1. Follows(d) /\ node'[d] = node[d] /\ node[d].parent \in Pages
      BY <1>2, <1>3, <1>4, <1>5, <2>2, RowFacts DEF AllFollow
    <3>2. PathOf(node[d].parent)' = PathOf(node[d].parent)
      BY <1>5, <2>2, <3>1 DEF PathOf
    <3> QED
      BY <3>1, <3>2 DEF Follows
  <2>3. BelowKnows(editor[e])'
    BY <1>3, <1>4, <1>5, <2>1, <2>2 DEF BelowKnows
  <2> QED
    BY <1>4, <2>3 DEF Knows
<1>7. Grown'
  <2>1. node'[c].path # <<>>
    <3>1. PathOf(q) \in Seq(Slugs) /\ node[c].slug \in Slugs
      BY <1>2, <1>4, <1>5, RowFacts
    <3> QED
      BY <1>3, <1>4, <3>1
  <2>2. node[q].state = "live" \/ q = NoCategory
    BY <1>3 DEF Parents, InTree
  <2>3. node[c].state = "live"
    BY <1>3 DEF InTree
  <2>4. ASSUME NEW d \in Categories, d # c
        PROVE  /\ node'[d].state = "absent" => node'[d] = Unplanted(d)
               /\ node'[d].state # "absent" => node'[d].path # <<>>
               /\ node'[d].parent \in Categories => node'[node'[d].parent].state # "absent"
               /\ InTree(d)' => node'[d].parent \in Parents'
    BY <1>2, <1>4, <1>5, <2>3, <2>4 DEF Grown
  <2>5. /\ node'[c].state # "absent" /\ node'[c].path # <<>>
        /\ node'[c].parent \in Categories => node'[node'[c].parent].state # "absent"
        /\ node'[c].parent \in Parents'
    BY <1>3, <1>4, <1>5, <2>1, <2>2, <2>3, TreeBasics
  <2> QED
    BY <2>4, <2>5 DEF Grown
<1>8. Rooted'
  <2> SUFFICES ASSUME NEW S \in SUBSET Categories, \A d \in S : node'[d].parent \in S, S # {}
               PROVE  FALSE
    BY DEF Rooted
  <2>1. CASE c \notin S
    <3>1. \A d \in S : node[d].parent \in S
      BY <1>4, <2>1
    <3> QED
      BY <1>2, <3>1 DEF Rooted
  <2>2. CASE c \in S
    <3> DEFINE T == {d \in S : InTree(d)} \ Branch(c)
    <3>1. q \in T
      BY <1>3, <1>4, <2>2, TreeBasics DEF Parents
    <3>2. T \in SUBSET Categories
      OBVIOUS
    <3>3. PICK d \in T : node[d].parent \notin T
      BY <1>2, <3>1, <3>2 DEF Rooted
    <3>4. d # c /\ d \in Categories /\ InTree(d) /\ node[d].parent \in S
      BY <1>4, <1>5, <3>3
    <3>5. InTree(node[d].parent)
      BY <1>2, <3>4, TreeBasics DEF Grown, Parents
    <3>6. node[d].parent \in Branch(c)
      BY <3>3, <3>4, <3>5
    <3>7. d \in Under(node[c].path)
      BY <1>2, <1>3, <1>4, <3>4, <3>6, BranchGrows
    <3> QED
      BY <3>3, <3>7 DEF Branch
  <2> QED
    BY <2>1, <2>2
<1>9. DepthsFit'
  <2>1. /\ Len(path) \in Nat /\ Len(path) <= DepthCap + 1 /\ DepthCap \in Nat
        /\ Len(path) = Len(PathOf(q)) + 1 /\ Len(PathOf(q)) \in Nat
    <3>1. Len(node'[c].path) \in Nat /\ Len(node'[c].path) <= DepthCap + 1
      BY <1>2, <1>4 DEF TreeTyped, Row, Fits
    <3>2. PathOf(q) \in Seq(Slugs) /\ node[c].slug \in Slugs /\ Len(PathOf(q)) \in Nat
      BY <1>2, <1>4, <1>5, RowFacts
    <3>3. Len(path) = Len(PathOf(q)) + 1
      BY <1>3, <3>2
    <3> QED
      BY <1>4, <3>1, <3>2, <3>3, TreeBasics
  <2>2. \A d \in Categories : Len(node[d].path) \in Nat /\ Len(node[d].path) <= DepthCap + 1
    BY <1>2, RowFacts
  <2>3. \A d \in Branch(c) : /\ d \in Categories /\ Len(node[c].path) <= Len(node[d].path)
                             /\ Len(node[d].path) + Len(path) <= DepthCap + 1 + Len(node[c].path)
    <3>1. ASSUME NEW d \in Branch(c), d # c
          PROVE  Len(node[d].path) + Len(path) <= DepthCap + 1 + Len(node[c].path)
      BY <1>3, <3>1 DEF Branch
    <3>2. Len(node[c].path) + Len(path) <= DepthCap + 1 + Len(node[c].path)
      BY <1>4, <2>1, <2>2
    <3>3. \A d \in Branch(c) : Len(node[c].path) <= Len(node[d].path)
      BY <1>2, <1>3, <1>4, BranchGrows
    <3> QED
      BY <1>4, <3>1, <3>2, <3>3 DEF Branch, Under
  <2>7. PICK len, new, level :
           /\ len = [d \in Categories |-> Len(node[d].path)] /\ new = Len(path)
           /\ level = [d \in Categories |-> IF d \in Branch(c) THEN len[d] + new - len[c] ELSE len[d]]
    OBVIOUS
  <2>8. /\ len \in [Categories -> Nat] /\ new \in Nat /\ new <= DepthCap + 1 /\ DepthCap \in Nat
        /\ new = Len(PathOf(q)) + 1 /\ Len(PathOf(q)) \in Nat
        /\ \A d \in Categories : len[d] = Len(node[d].path) /\ len[d] <= DepthCap + 1
        /\ \A d \in Branch(c) : d \in Categories /\ len[c] <= len[d] /\ len[d] + new <= DepthCap + 1 + len[c]
    BY <1>4, <2>1, <2>2, <2>3, <2>7
  <2>9. /\ \A d \in Categories : d \in Branch(c) => level[d] = len[d] + new - len[c]
        /\ \A d \in Categories : d \notin Branch(c) => level[d] = len[d]
    BY <2>7
  <2>4. level \in [Categories -> 0..(DepthCap + 1)]
    <3>1. ASSUME NEW d \in Categories PROVE level[d] \in 0..(DepthCap + 1)
      <4>1. CASE d \in Branch(c)
        BY <1>4, <2>8, <2>9, <4>1
      <4>2. CASE d \notin Branch(c)
        BY <1>4, <2>8, <2>9, <4>2
      <4> QED
        BY <4>1, <4>2
    <3> QED
      BY <2>7, <3>1
  <2>5. ASSUME NEW d \in Categories, InTree(d), d # c PROVE IsLevel(level, d)'
    <3>1. /\ node[d].parent \in Parents /\ node'[d] = node[d]
          /\ Len(node[d].path) = Len(PathOf(node[d].parent)) + 1
          /\ d \in Branch(c) <=> node[d].parent \in Branch(c)
      BY <1>2, <1>3, <1>4, <2>5, FollowedPath, BranchGrows DEF Branch
    <3>2. CASE node[d].parent = NoCategory
      <4>1. Len(PathOf(node[d].parent)) = 0
        BY <3>2 DEF PathOf
      <4>2. d \notin Branch(c)
        BY <2>3, <3>1, <3>2, TreeBasics
      <4>3. level[d] = 1
        <5>1. level[d] = len[d]
          BY <2>9, <4>2
        <5>2. len[d] = Len(node[d].path)
          BY <2>8
        <5> QED
          BY <3>1, <4>1, <5>1, <5>2
      <4> QED
        BY <3>1, <3>2, <4>3 DEF IsLevel
    <3>3. CASE node[d].parent # NoCategory
      <4>1. PICK p \in Categories : p = node[d].parent /\ PathOf(p) = node[p].path
        BY <3>1, <3>3 DEF Parents, PathOf
      <4>2. level[d] = 1 + level[p]
        <5>1. /\ len[d] = 1 + len[p] /\ len[p] \in Nat /\ new \in Nat /\ len[c] \in Nat
              /\ d \in Branch(c) <=> p \in Branch(c)
          BY <1>4, <2>8, <3>1, <4>1
        <5>2. CASE d \in Branch(c)
          <6>1. level[d] = len[d] + new - len[c] /\ level[p] = len[p] + new - len[c]
            BY <2>9, <5>1, <5>2
          <6> QED
            BY <5>1, <6>1
        <5>3. CASE d \notin Branch(c)
          <6>1. level[d] = len[d] /\ level[p] = len[p]
            BY <2>9, <5>1, <5>3
          <6> QED
            BY <5>1, <6>1
        <5> QED
          BY <5>2, <5>3
      <4> QED
        BY <3>1, <3>3, <4>1, <4>2 DEF IsLevel
    <3> QED
      BY <3>2, <3>3
  <2>6. IsLevel(level, c)'
    <3>1. level[c] = Len(PathOf(q)) + 1
      BY <1>4, <1>5, <2>8, <2>9
    <3>2. CASE q = NoCategory
      <4>1. Len(PathOf(q)) = 0
        BY <3>2 DEF PathOf
      <4> QED
        BY <1>4, <3>1, <3>2, <4>1 DEF IsLevel
    <3>3. CASE q # NoCategory
      <4>1. q \in Categories /\ PathOf(q) = node[q].path
        BY <1>3, <3>3 DEF Parents, PathOf
      <4> QED
        BY <1>3, <1>4, <2>8, <2>9, <3>1, <3>3, <4>1 DEF IsLevel
    <3> QED
      BY <3>2, <3>3
  <2> QED
    BY <1>5, <2>4, <2>5, <2>6 DEF DepthsFit
<1> QED
  BY <1>6, <1>7, <1>8, <1>9 DEF TreeStands

\* Changing the last slug of a path.
LEMMA LastSlug ==
    ASSUME NEW p \in Seq(Slugs), NEW old \in Slugs, NEW new \in Slugs, NEW path, path = Append(p, old)
    PROVE  [path EXCEPT ![Len(path)] = new] = Append(p, new)
<1>1. path \in Seq(Slugs) /\ Len(path) = Len(p) + 1 /\ Len(p) \in Nat /\ DOMAIN path = 1..(Len(p) + 1)
  OBVIOUS
<1>2. path \in Seq(Slugs) /\ \A i \in 1..(Len(p) + 1) : path[i] = IF i = Len(p) + 1 THEN old ELSE p[i]
  OBVIOUS
<1> DEFINE longer == [i \in 1..(Len(p) + 1) |-> IF i = Len(p) + 1 THEN new ELSE p[i]]
<1>7. longer = [i \in 1..(Len(p) + 1) |-> IF i = Len(p) + 1 THEN new ELSE p[i]] /\ Len(p) \in Nat
  OBVIOUS
<1> HIDE DEF longer
<1>3. longer = Append(p, new)
  <2>1. longer \in Seq(Slugs) /\ Len(longer) = Len(p) + 1
    <3>1. \A i \in 1..(Len(p) + 1) : (IF i = Len(p) + 1 THEN new ELSE p[i]) \in Slugs
      OBVIOUS
    <3>2. longer \in [1..(Len(p) + 1) -> Slugs]
      BY <1>7, <3>1
    <3> QED
      BY <1>7, <3>2
  <2>2. /\ Append(p, new) \in Seq(Slugs) /\ Len(Append(p, new)) = Len(p) + 1
        /\ \A i \in 1..(Len(p) + 1) : Append(p, new)[i] = IF i = Len(p) + 1 THEN new ELSE p[i]
    BY <1>7
  <2>3. \A i \in 1..(Len(p) + 1) : Append(p, new)[i] = longer[i]
    BY <1>7, <2>2
  <2> QED
    BY <2>1, <2>2, <2>3, SeqEqual
<1> DEFINE changed == [path EXCEPT ![Len(path)] = new]
<1>4. changed = [i \in 1..(Len(p) + 1) |-> IF i = Len(path) THEN new ELSE path[i]]
  BY <1>1
<1>5. \A i \in 1..(Len(p) + 1) :
         (IF i = Len(path) THEN new ELSE path[i]) = IF i = Len(p) + 1 THEN new ELSE p[i]
  BY <1>1, <1>2
<1> HIDE DEF changed
<1>6. changed = longer
  BY <1>4, <1>5, <1>7
<1> QED
  BY <1>3, <1>6 DEF changed

LEMMA RenameStands ==
    ASSUME Branching, NEW e \in Editors, WriteNode(e), EditorAt(e, "rename")
    PROVE  TreeStands' /\ Knows(editor[e])'
<1>1. PICK c, slug, path : c = editor[e].of /\ slug = editor[e].row.slug /\ path = editor[e].row.path
  OBVIOUS
<1>2. TreeTyped' /\ TreeTyped /\ Grown /\ Rooted /\ DepthsFit
  BY WriteNodeTyped DEF Branching, TreeStands
<1>3. /\ AllFollow /\ node[c].state # "absent" /\ slug \in Slugs
      /\ path = [node[c].path EXCEPT ![Len(node[c].path)] = slug]
      /\ editor[e].fresh
  BY <1>1 DEF Branching, Knows, RenameKnows, EditorAt
<1>4. /\ c \in Categories /\ \A d \in Categories : d # c => node'[d] = node[d]
      /\ node'[c].state = node[c].state /\ node'[c].path = path
      /\ node'[c].parent = node[c].parent /\ node'[c].slug = slug
      /\ editor'[e].step = "below" /\ editor'[e].todo = {c} /\ editor'[e].fresh
  <2>1. /\ c \in Categories /\ \A d \in Categories : d # c => node'[d] = node[d]
        /\ node'[c].state = node[c].state /\ node'[c].path = editor[e].row.path
        /\ node'[c].parent = IF EditorAt(e, "move") THEN editor[e].row.parent ELSE node[c].parent
        /\ node'[c].slug = IF EditorAt(e, "rename") THEN editor[e].row.slug ELSE node[c].slug
        /\ editor'[e].step = "below" /\ editor'[e].todo = {c} /\ editor'[e].fresh
    <3>1. TreeTyped /\ editor[e].fresh /\ c = editor[e].of
      BY <1>1, <1>2, <1>3
    <3> QED
      BY ONLY <3>1, e \in Editors, WriteNode(e), WriteNodeIs
  <2>2. ~EditorAt(e, "move") /\ EditorAt(e, "rename")
    BY DEF EditorAt
  <2> QED
    BY <1>1, <2>1, <2>2
<1>5. /\ \A d \in Categories : InTree(d)' <=> InTree(d)
      /\ \A d \in Categories : node'[d].parent = node[d].parent /\ node'[d].state = node[d].state
      /\ Parents' = Parents /\ node[c].parent # c
      /\ \A p \in Pages : p # c => PathOf(p)' = PathOf(p)
  <2>1. node[c].parent # c
    <3>1. {c} \in SUBSET Categories /\ {c} # {}
      BY <1>4
    <3> QED
      BY <1>2, <3>1 DEF Rooted
  <2> QED
    BY <1>4, <2>1 DEF InTree, Parents, Pages, PathOf
<1>6. ASSUME NEW d \in Categories, InTree(d), d # c, node[d].parent # c PROVE Follows(d)'
  <2>1. Follows(d) /\ node'[d] = node[d] /\ node[d].parent \in Pages
    BY <1>2, <1>3, <1>4, <1>6, RowFacts DEF AllFollow
  <2>2. PathOf(node[d].parent)' = PathOf(node[d].parent)
    BY <1>5, <1>6, <2>1 DEF PathOf
  <2> QED
    BY <2>1, <2>2 DEF Follows
<1>7. ASSUME InTree(c) PROVE Knows(editor[e])'
  <2>1. PICK p \in Pages : p = node[c].parent
    BY <1>2, <1>4, RowFacts
  <2>2. PathOf(p) \in Seq(Slugs) /\ node[c].slug \in Slugs /\ node[c].path = Append(PathOf(p), node[c].slug)
    BY <1>2, <1>3, <1>4, <1>7, <2>1, RowFacts DEF AllFollow, Follows
  <2>3. PICK base, old, was : base = PathOf(p) /\ old = node[c].slug /\ was = node[c].path
    OBVIOUS
  <2>4. path = Append(base, slug)
    BY <1>3, <2>2, <2>3, LastSlug
  <2>5. Follows(c)'
    BY <1>4, <1>5, <2>1, <2>3, <2>4 DEF Follows, PathOf
  <2>6. BelowKnows(editor[e])'
    BY <1>4, <1>5, <1>6, <1>7, <2>5 DEF BelowKnows
  <2>7. editor'[e].step = "below" /\ editor'[e].fresh
    BY <1>4
  <2> QED
    BY <2>6, <2>7 DEF Knows
<1>8. ASSUME ~InTree(c) PROVE Knows(editor[e])'
  <2>1. \A d \in Categories : InTree(d) => d # c /\ node[d].parent # c
    BY <1>2, <1>4, <1>8, TreeBasics DEF Grown, Parents
  <2>2. AllFollow'
    BY <1>5, <1>6, <2>1 DEF AllFollow
  <2>3. editor'[e].step = "below" /\ editor'[e].fresh
    BY <1>4
  <2>4. BelowKnows(editor[e])'
    BY <2>2 DEF BelowKnows
  <2> QED
    BY <2>3, <2>4 DEF Knows
<1>9. path # <<>>
  <2>1. Len(path) = Len(node[c].path) /\ node[c].path \in Seq(Slugs)
    <3>1. PICK was : was = node[c].path /\ was \in Seq(Slugs)
      BY <1>2, <1>4, RowFacts
    <3> QED
      BY <1>3, <3>1, RenamedPath
  <2>2. node[c].path # <<>>
    BY <1>2, <1>3, <1>4 DEF Grown
  <2> QED
    BY <2>1, <2>2
<1>10. Grown'
  <2>1. ASSUME NEW d \in Categories, d # c
        PROVE  /\ node'[d].state = "absent" => node'[d] = Unplanted(d)
               /\ node'[d].state # "absent" => node'[d].path # <<>>
    BY <1>2, <1>4, <2>1 DEF Grown
  <2>2. node'[c].state # "absent" /\ node'[c].path # <<>>
    BY <1>3, <1>4, <1>9
  <2>3. ASSUME NEW d \in Categories
        PROVE  /\ node'[d].parent \in Categories => node'[node'[d].parent].state # "absent"
               /\ InTree(d)' => node'[d].parent \in Parents'
    BY <1>2, <1>5 DEF Grown
  <2> QED
    BY <2>1, <2>2, <2>3 DEF Grown
<1>11. Rooted' /\ DepthsFit'
  BY <1>2, <1>5 DEF Rooted, DepthsFit, IsLevel
<1> QED
  BY <1>7, <1>8, <1>10, <1>11 DEF TreeStands

LEMMA DeletionIs ==
    ASSUME Branching, NEW e \in Editors, DeleteNodes(e), NEW c, c = editor[e].of
    PROVE  /\ AllFollow /\ c \in Categories /\ InTree(c) /\ editor[e].row.parent = node[c].parent
           /\ editor[e].strategy = "CASCADE_SOFT" => Gone(e) = Branch(c)
           /\ editor[e].strategy # "CASCADE_SOFT" => Gone(e) = {c}
           /\ \A d \in Categories :
                /\ node'[d].state = IF d \in Gone(e) THEN "deleted" ELSE node[d].state
                /\ node'[d].parent = IF d \in HandedUp(e) THEN node[c].parent ELSE node[d].parent
                /\ node'[d].path = node[d].path /\ node'[d].slug = node[d].slug
                /\ d \notin Gone(e) /\ d \notin HandedUp(e) => node'[d] = node[d]
           /\ editor'[e].step = "below" /\ editor'[e].todo = Remaining(e) /\ editor'[e].fresh
           /\ editor[e].todo = Children(c)
           /\ editor[e].strategy \in {"BLOCK", "REASSIGN_CHILDREN", "CASCADE_SOFT"}
           /\ editor[e].strategy = "BLOCK" => Children(c) = {}
<1>1. /\ AllFollow /\ InTree(c) /\ editor[e].row = node[c] /\ editor[e].todo = Children(c)
      /\ editor[e].strategy \in {"BLOCK", "REASSIGN_CHILDREN", "CASCADE_SOFT"}
      /\ editor[e].strategy = "BLOCK" => Children(c) = {}
  <2>1. editor[e].step = "delete"
    BY DeleteNodesIs, Zenon DEF EditorAt
  <2> QED
    BY <2>1 DEF Branching, Knows, DeleteKnows
<1>2. c \in Categories /\ TreeTyped
  BY <1>1 DEF InTree, Branching
<1>3. /\ editor[e].strategy = "CASCADE_SOFT" => Gone(e) = Branch(c)
      /\ editor[e].strategy # "CASCADE_SOFT" => Gone(e) = {c}
  BY <1>1 DEF Gone, Branch
<1>4. ASSUME NEW d \in Categories
      PROVE  /\ node'[d].state = IF d \in Gone(e) THEN "deleted" ELSE node[d].state
             /\ node'[d].parent = IF d \in HandedUp(e) THEN node[c].parent ELSE node[d].parent
             /\ node'[d].path = node[d].path /\ node'[d].slug = node[d].slug
             /\ d \notin Gone(e) /\ d \notin HandedUp(e) => node'[d] = node[d]
  <2>1. node'[d] = WrittenRow(e, d)
    BY DeleteNodesIs, Zenon
  <2>2. node[d] \in Row /\ editor[e].row.parent = node[c].parent
    BY <1>1, <1>2, RowFacts
  <2> QED
    BY <2>1, <2>2 DEF WrittenRow, Row
<1>5. editor'[e] = [AtDesk EXCEPT !.step = "below", !.todo = Remaining(e)]
  <2>1. editor' = [editor EXCEPT ![e] = [AtDesk EXCEPT !.step = "below", !.todo = Remaining(e)]]
    BY DeleteNodesIs, Zenon
  <2> QED
    BY <1>2, <2>1 DEF TreeTyped
<1>6. editor'[e].step = "below" /\ editor'[e].todo = Remaining(e) /\ editor'[e].fresh
  BY <1>5 DEF AtDesk
<1> QED
  BY <1>1, <1>2, <1>3, <1>4, <1>6

LEMMA CutStands ==
    ASSUME Branching, NEW e \in Editors, DeleteNodes(e), editor[e].strategy # "REASSIGN_CHILDREN"
    PROVE  TreeStands' /\ Knows(editor[e])'
<1>1. PICK c, gone : c = editor[e].of /\ gone = Gone(e)
  OBVIOUS
<1>2. TreeTyped' /\ TreeTyped /\ Grown /\ Rooted
  BY DeleteNodesTyped DEF Branching, TreeStands
<1>3. HandedUp(e) = {} /\ Remaining(e) = {}
  BY DEF HandedUp, HandsUp, Remaining
<1>4. /\ AllFollow /\ c \in Categories /\ InTree(c)
      /\ editor[e].strategy = "CASCADE_SOFT" => gone = Branch(c)
      /\ editor[e].strategy # "CASCADE_SOFT" => gone = {c} /\ Children(c) = {}
      /\ \A d \in Categories :
           /\ node'[d].state = IF d \in gone THEN "deleted" ELSE node[d].state
           /\ node'[d].parent = node[d].parent
           /\ node'[d].path = node[d].path /\ node'[d].slug = node[d].slug
           /\ d \notin gone => node'[d] = node[d]
      /\ editor'[e].step = "below" /\ editor'[e].fresh
  BY <1>1, <1>3, DeletionIs
<1>5. \A d \in gone : d \in Categories /\ InTree(d)
  BY <1>4 DEF Branch, Under
<1>6. ASSUME NEW d \in Categories, InTree(d), d \notin gone PROVE node[d].parent \notin gone
  <2>1. CASE editor[e].strategy = "CASCADE_SOFT"
    <3>1. d # c /\ d \notin Under(node[c].path) /\ gone = Branch(c)
      BY <1>4, <1>6, <2>1 DEF Branch
    <3> QED
      BY <1>2, <1>4, <1>6, <3>1, BranchGrows
  <2>2. CASE editor[e].strategy # "CASCADE_SOFT"
    BY <1>4, <1>6, <2>2 DEF Children
  <2> QED
    BY <2>1, <2>2
<1>7. /\ \A d \in Categories : InTree(d)' <=> InTree(d) /\ d \notin gone
      /\ \A p \in Pages : PathOf(p)' = PathOf(p)
      /\ \A p \in Parents : p \notin gone => p \in Parents'
  BY <1>4 DEF InTree, PathOf, Pages, Parents
<1>8. AllFollow'
  <2>1. ASSUME NEW d \in Categories, InTree(d)' PROVE Follows(d)'
    <3>1. Follows(d) /\ node'[d] = node[d] /\ node[d].parent \in Pages
      BY <1>2, <1>4, <1>7, <2>1, RowFacts DEF AllFollow
    <3>2. PathOf(node[d].parent)' = PathOf(node[d].parent)
      BY <1>7, <3>1
    <3> QED
      BY <3>1, <3>2 DEF Follows
  <2> QED
    BY <2>1 DEF AllFollow
<1>9. Grown'
  <2>1. ASSUME NEW d \in Categories
        PROVE  /\ node'[d].state = "absent" => node'[d] = Unplanted(d)
               /\ node'[d].state # "absent" => node'[d].path # <<>>
               /\ node'[d].parent \in Categories => node'[node'[d].parent].state # "absent"
    <3>1. /\ node[d].state = "absent" => node[d] = Unplanted(d)
          /\ node[d].state # "absent" => node[d].path # <<>>
          /\ node[d].parent \in Categories => node[node[d].parent].state # "absent"
      BY <1>2 DEF Grown
    <3>2. d \in gone => node[d].state = "live"
      BY <1>5 DEF InTree
    <3> QED
      BY <1>4, <3>1, <3>2
  <2>2. ASSUME NEW d \in Categories, InTree(d)' PROVE node'[d].parent \in Parents'
    <3>1. InTree(d) /\ d \notin gone /\ node[d].parent \in Parents /\ node'[d].parent = node[d].parent
      BY <1>2, <1>4, <1>7, <2>2 DEF Grown
    <3> QED
      BY <1>6, <1>7, <3>1
  <2> QED
    BY <2>1, <2>2 DEF Grown
<1>10. Rooted'
  BY <1>2, <1>4 DEF Rooted
<1>11. DepthsFit'
  BY <1>2, <1>8, <1>9, FollowedFitsThen
<1>12. Knows(editor[e])'
  <2>1. editor'[e].step = "below" /\ editor'[e].fresh
    BY <1>4
  <2>2. BelowKnows(editor[e])'
    BY <1>8 DEF BelowKnows
  <2> QED
    BY <2>1, <2>2 DEF Knows
<1> QED
  BY <1>9, <1>10, <1>11, <1>12 DEF TreeStands

LEMMA HandUpStands ==
    ASSUME Branching, NEW e \in Editors, DeleteNodes(e), editor[e].strategy = "REASSIGN_CHILDREN"
    PROVE  TreeStands' /\ Knows(editor[e])'
<1>1. PICK c, p, up, todo : /\ c = editor[e].of /\ p = node[c].parent
                            /\ up = HandedUp(e) /\ todo = Remaining(e)
  OBVIOUS
<1>2. TreeTyped' /\ TreeTyped /\ Grown /\ Rooted
  BY DeleteNodesTyped DEF Branching, TreeStands
<1>3. /\ AllFollow /\ c \in Categories /\ InTree(c) /\ c # NoCategory
      /\ \A d \in Categories :
           /\ node'[d].state = IF d = c THEN "deleted" ELSE node[d].state
           /\ node'[d].parent = IF d \in up THEN p ELSE node[d].parent
           /\ node'[d].path = node[d].path /\ node'[d].slug = node[d].slug
           /\ d # c /\ d \notin up => node'[d] = node[d]
      /\ editor'[e].step = "below" /\ editor'[e].fresh /\ editor'[e].todo = todo
  <2>1. Gone(e) = {c}
    BY <1>1, DeletionIs
  <2> QED
    BY <1>1, <2>1, DeletionIs, TreeBasics
<1>4. /\ up = {d \in Categories : node[d].state # "absent" /\ node[d].parent = c}
      /\ p = NoCategory => todo = Children(c)
      /\ p # NoCategory => todo = {p}
  <2>1. editor[e].todo = Children(c) /\ editor[e].row.parent = p
    BY <1>1, DeletionIs
  <2>2. HandsUp(e)
    BY DEF HandsUp
  <2>3. todo = IF p = NoCategory THEN Children(c) ELSE {p}
    BY <1>1, <2>1, <2>2 DEF Remaining
  <2>4. up = {d \in Categories : node[d].state # "absent" /\ node[d].parent = c}
    BY <1>1, <2>2 DEF HandedUp
  <2> QED
    BY <2>3, <2>4
<1>5. p # c /\ c \notin up /\ p \in Parents /\ p \in Pages
  <2>1. {c} \in SUBSET Categories /\ {c} # {}
    BY <1>3
  <2>2. p # c
    BY <1>1, <1>2, <2>1 DEF Rooted
  <2> QED
    BY <1>1, <1>2, <1>3, <1>4, <2>2, RowFacts DEF Grown
<1>6. /\ \A d \in Categories : InTree(d)' <=> InTree(d) /\ d # c
      /\ \A x \in Pages : PathOf(x)' = PathOf(x)
      /\ \A x \in Parents : x # c => x \in Parents'
  BY <1>3 DEF InTree, PathOf, Pages, Parents
<1>7. ASSUME NEW d \in Categories, InTree(d), d # c, d \notin up PROVE Follows(d)' /\ node[d].parent # c
  <2>1. Follows(d) /\ node'[d] = node[d] /\ node[d].parent \in Pages
    BY <1>2, <1>3, <1>7, RowFacts DEF AllFollow
  <2>2. PathOf(node[d].parent)' = PathOf(node[d].parent)
    BY <1>6, <2>1
  <2>3. node[d].parent # c
    BY <1>4, <1>7 DEF InTree
  <2> QED
    BY <2>1, <2>2, <2>3 DEF Follows
<1>8. Knows(editor[e])'
  <2>1. ASSUME NEW x \in todo PROVE InTree(x)' /\ (p = NoCategory => node'[x].parent = NoCategory)
    <3>1. CASE p = NoCategory
      <4>1. x \in Categories /\ InTree(x) /\ node[x].parent = c /\ x # c /\ x \in up
        BY <1>1, <1>4, <1>5, <2>1, <3>1 DEF Children, InTree
      <4> QED
        BY <1>3, <1>6, <3>1, <4>1
    <3>2. CASE p # NoCategory
      <4>1. x = p /\ p \in Categories /\ InTree(p)
        BY <1>4, <1>5, <2>1, <3>2 DEF Parents
      <4> QED
        BY <1>5, <1>6, <3>2, <4>1
    <3> QED
      BY <3>1, <3>2
  <2>2. ASSUME NEW x \in todo, NEW y \in todo, x # y PROVE node'[x].parent = NoCategory
    BY <1>4, <2>1, <2>2
  <2>3. ASSUME NEW d \in Categories, InTree(d)'
        PROVE  Follows(d)' \/ d \in todo \/ node'[d].parent \in todo
    <3>1. CASE d \notin up
      BY <1>6, <1>7, <2>3, <3>1
    <3>2. CASE d \in up
      <4>1. p = NoCategory => d \in todo
        BY <1>4, <1>6, <2>3, <3>2 DEF Children
      <4>2. p # NoCategory => node'[d].parent \in todo
        BY <1>3, <1>4, <3>2
      <4> QED
        BY <4>1, <4>2
    <3> QED
      BY <3>1, <3>2
  <2>4. BelowKnows(editor[e])'
    <3>1. editor'[e].todo = todo
      BY <1>3
    <3> QED
      BY <2>1, <2>2, <2>3, <3>1 DEF BelowKnows
  <2>5. editor'[e].step = "below" /\ editor'[e].fresh
    BY <1>3
  <2> QED
    BY <2>4, <2>5 DEF Knows
<1>9. Grown'
  <2>1. \A d \in Categories : node'[d].state = "absent" <=> node[d].state = "absent"
    BY <1>3 DEF InTree
  <2>2. ASSUME NEW d \in Categories
        PROVE  /\ node'[d].state = "absent" => node'[d] = Unplanted(d)
               /\ node'[d].state # "absent" => node'[d].path # <<>>
    <3>1. /\ node[d].state = "absent" => node[d] = Unplanted(d) /\ d # c /\ d \notin up
          /\ node[d].state # "absent" => node[d].path # <<>>
      BY <1>2, <1>3, <1>4 DEF Grown, InTree
    <3> QED
      BY <1>3, <2>1, <3>1
  <2>3. ASSUME NEW d \in Categories, node'[d].parent \in Categories
        PROVE  node'[node'[d].parent].state # "absent"
    <3>1. p \in Categories => node[p].state # "absent"
      BY <1>5, TreeBasics DEF Parents, InTree
    <3>2. node[d].parent \in Categories => node[node[d].parent].state # "absent"
      BY <1>2 DEF Grown
    <3> QED
      BY <1>3, <2>1, <2>3, <3>1, <3>2
  <2>4. ASSUME NEW d \in Categories, InTree(d)' PROVE node'[d].parent \in Parents'
    <3>1. InTree(d) /\ d # c /\ node[d].parent \in Parents
      BY <1>2, <1>6, <2>4 DEF Grown
    <3>2. CASE d \in up
      BY <1>3, <1>5, <1>6, <3>2
    <3>3. CASE d \notin up
      BY <1>3, <1>6, <1>7, <3>1, <3>3
    <3> QED
      BY <3>2, <3>3
  <2> QED
    BY <2>2, <2>3, <2>4 DEF Grown
<1>10. Rooted'
  <2> SUFFICES ASSUME NEW S \in SUBSET Categories, \A d \in S : node'[d].parent \in S, S # {}
               PROVE  FALSE
    BY DEF Rooted
  <2>1. CASE S \cap up = {}
    <3>1. \A d \in S : node[d].parent \in S
      BY <1>3, <2>1
    <3> QED
      BY <1>2, <3>1 DEF Rooted
  <2>2. CASE S \cap up # {}
    <3>1. p \in S
      BY <1>3, <2>2
    <3>2. \A d \in S \cup {c} : node[d].parent \in S \cup {c}
      BY <1>1, <1>3, <1>4, <3>1
    <3>3. S \cup {c} \in SUBSET Categories /\ S \cup {c} # {}
      BY <1>3
    <3> QED
      BY <1>2, <3>2, <3>3 DEF Rooted
  <2> QED
    BY <2>1, <2>2
<1>11. DepthsFit'
  <2>1. PICK len, level :
           /\ len = [d \in Categories |-> Len(node[d].path)]
           /\ level = [d \in Categories |-> IF d \in Under(node[c].path) THEN len[d] - 1 ELSE len[d]]
    OBVIOUS
  <2>2. /\ len \in [Categories -> Nat] /\ DepthCap \in Nat
        /\ \A d \in Categories : len[d] = Len(node[d].path) /\ len[d] <= DepthCap + 1
        /\ \A d \in Under(node[c].path) : d \in Categories /\ len[c] < len[d]
        /\ len[c] = Len(PathOf(p)) + 1 /\ Len(PathOf(p)) \in Nat
    <3>1. \A d \in Categories : Len(node[d].path) \in Nat /\ Len(node[d].path) <= DepthCap + 1
      BY <1>2, RowFacts
    <3>2. \A d \in Under(node[c].path) : d \in Categories /\ Len(node[c].path) < Len(node[d].path)
      BY DEF Under, StartsWith
    <3>3. Len(node[c].path) = Len(PathOf(p)) + 1 /\ Len(PathOf(p)) \in Nat
      BY <1>1, <1>2, <1>3, FollowedPath
    <3> QED
      BY <1>3, <2>1, <3>1, <3>2, <3>3, TreeBasics
  <2>3. /\ \A d \in Categories : d \in Under(node[c].path) => level[d] = len[d] - 1
        /\ \A d \in Categories : d \notin Under(node[c].path) => level[d] = len[d]
    BY <2>1
  <2>4. level \in [Categories -> 0..(DepthCap + 1)]
    <3>1. ASSUME NEW d \in Categories PROVE level[d] \in 0..(DepthCap + 1)
      <4>1. len[d] \in Nat /\ len[c] \in Nat /\ len[d] <= DepthCap + 1
        BY <1>3, <2>2
      <4>2. CASE d \in Under(node[c].path)
        <5>1. level[d] = len[d] - 1 /\ len[c] < len[d]
          BY <2>2, <2>3, <4>2
        <5> QED
          BY <2>2, <4>1, <5>1
      <4>3. CASE d \notin Under(node[c].path)
        <5>1. level[d] = len[d]
          BY <2>3, <4>3
        <5> QED
          BY <2>2, <4>1, <5>1
      <4> QED
        BY <4>2, <4>3
    <3> QED
      BY <2>1, <3>1
  <2>5. p \notin Under(node[c].path)
    <3> SUFFICES ASSUME p \in Under(node[c].path) PROVE FALSE
      OBVIOUS
    <3>1. PathOf(p) = node[p].path /\ p \in Categories
      BY <2>2, TreeBasics DEF PathOf
    <3>2. len[p] = Len(PathOf(p)) /\ len[c] < len[p] /\ len[c] \in Nat
      BY <1>3, <2>2, <3>1
    <3> QED
      BY <2>2, <3>2
  <2>6. ASSUME NEW d \in Categories, InTree(d)' PROVE IsLevel(level, d)'
    <3>1. InTree(d) /\ d # c
      BY <1>6, <2>6
    <3>2. /\ node[d].parent \in Parents
          /\ len[d] = Len(PathOf(node[d].parent)) + 1
          /\ d \in Under(node[c].path) <=> node[d].parent \in Branch(c)
      <4>1. Len(node[d].path) = Len(PathOf(node[d].parent)) + 1 /\ node[d].parent \in Parents
        BY <1>2, <1>3, <3>1, FollowedPath
      <4>2. d \in Under(node[c].path) <=> node[d].parent \in Branch(c)
        BY <1>2, <1>3, <3>1, BranchGrows
      <4> QED
        BY <2>2, <4>1, <4>2
    <3>3. PICK q : q = node'[d].parent
      OBVIOUS
    <3>4. CASE d \in up
      <4>1. q = p /\ node[d].parent = c /\ d \in Under(node[c].path)
        BY <1>3, <1>4, <3>2, <3>3, <3>4 DEF Branch
      <4>2. PathOf(c) = node[c].path
        BY <1>3 DEF PathOf
      <4>3. level[d] = len[d] - 1 /\ len[d] = len[c] + 1 /\ len[c] \in Nat
        BY <1>3, <2>2, <2>3, <3>2, <4>1, <4>2
      <4>4. level[d] = Len(PathOf(p)) + 1
        BY <2>2, <4>3
      <4>5. CASE p = NoCategory
        <5>1. Len(PathOf(p)) = 0
          BY <4>5 DEF PathOf
        <5> QED
          BY <3>3, <4>1, <4>4, <4>5, <5>1 DEF IsLevel
      <4>6. CASE p # NoCategory
        <5>1. p \in Categories /\ PathOf(p) = node[p].path
          BY <1>5, <4>6 DEF Parents, PathOf
        <5>2. level[p] = Len(PathOf(p)) /\ Len(PathOf(p)) \in Nat
          BY <2>2, <2>3, <2>5, <5>1
        <5> QED
          BY <3>3, <4>1, <4>4, <4>6, <5>2 DEF IsLevel
      <4> QED
        BY <4>5, <4>6
    <3>5. CASE d \notin up
      <4>1. q = node[d].parent /\ q # c
        BY <1>3, <1>7, <3>1, <3>3, <3>5
      <4>2. d \in Under(node[c].path) <=> q \in Under(node[c].path)
        BY <3>2, <4>1 DEF Branch
      <4>3. CASE q = NoCategory
        <5>1. Len(PathOf(q)) = 0
          BY <4>3 DEF PathOf
        <5>2. q \notin Under(node[c].path)
          BY <2>2, <4>3, TreeBasics
        <5>3. level[d] = 1
          BY <2>3, <3>2, <4>1, <4>2, <5>1, <5>2
        <5> QED
          BY <3>3, <4>3, <5>3 DEF IsLevel
      <4>4. CASE q # NoCategory
        <5>1. q \in Categories /\ PathOf(q) = node[q].path
          BY <3>2, <4>1, <4>4 DEF Parents, PathOf
        <5>2. len[d] = 1 + len[q] /\ len[q] \in Nat
          <6>1. len[q] = Len(node[q].path) /\ len[q] \in Nat
            BY <2>2, <5>1
          <6>2. len[d] = Len(PathOf(q)) + 1
            BY <3>2, <4>1
          <6> QED
            BY <5>1, <6>1, <6>2
        <5>3. level[d] = 1 + level[q]
          <6>1. CASE d \in Under(node[c].path)
            <7>1. level[d] = len[d] - 1 /\ level[q] = len[q] - 1
              BY <2>3, <4>2, <5>1, <6>1
            <7> QED
              BY <5>2, <7>1
          <6>2. CASE d \notin Under(node[c].path)
            <7>1. level[d] = len[d] /\ level[q] = len[q]
              BY <2>3, <4>2, <5>1, <6>2
            <7> QED
              BY <5>2, <7>1
          <6> QED
            BY <6>1, <6>2
        <5> QED
          BY <3>3, <4>4, <5>3 DEF IsLevel
      <4> QED
        BY <4>3, <4>4
    <3> QED
      BY <3>4, <3>5
  <2> QED
    BY <2>4, <2>6 DEF DepthsFit
<1> QED
  BY <1>8, <1>9, <1>10, <1>11 DEF TreeStands

\* Whatever is nearer the root than a category still to do follows already.
LEMMA NearerFollow ==
    ASSUME TreeTyped, Grown, NEW level, Levelled(level), NEW job, BelowKnows(job),
           NEW c, c \in job.todo, c \in Categories, InTree(c),
           NEW x \in Categories, InTree(x), level[x] < level[c]
    PROVE  Follows(x)
<1>1. CASE AllFollow
  BY <1>1 DEF AllFollow
<1>2. CASE ~AllFollow
  <2>1. /\ \A d \in job.todo : InTree(d)
        /\ \A a, b \in job.todo : a # b => node[a].parent = NoCategory
        /\ Follows(x) \/ x \in job.todo \/ node[x].parent \in job.todo
    BY <1>2 DEF BelowKnows
  <2>2. level \in [Categories -> Nat] /\ IsLevel(level, c) /\ IsLevel(level, x)
    BY TreeBasics DEF Levelled
  <2>3. node[c].parent # NoCategory
    <3> SUFFICES ASSUME node[c].parent = NoCategory PROVE FALSE
      OBVIOUS
    <3>1. level[c] = 1
      BY <2>2 DEF IsLevel
    <3>2. node[x].parent \in Categories \cup {NoCategory}
      BY RowFacts DEF Pages
    <3>3. level[x] \in Nat /\ level[x] >= 1
      BY <2>2, <3>2 DEF IsLevel
    <3> QED
      BY <3>1, <3>3
  <2>4. \A d \in job.todo : d = c
    BY <2>1, <2>3
  <2>5. x # c
    BY <2>2
  <2>6. node[x].parent # c
    <3> SUFFICES ASSUME node[x].parent = c PROVE FALSE
      OBVIOUS
    <3>1. level[x] = 1 + level[c]
      BY <2>2, TreeBasics DEF IsLevel
    <3> QED
      BY <2>2, <3>1
  <2> QED
    BY <2>1, <2>4, <2>5, <2>6
<1> QED
  BY <1>1, <1>2

\* recomputeSubtree() refuses none of them.
LEMMA IsRewritable ==
    ASSUME TreeTyped, Grown, NEW level, Levelled(level), NEW c \in Categories, InTree(c),
           Len(PathOf(node[c].parent)) + 1 = level[c]
    PROVE  Rewritable(c)
<1>1. node[c].parent \in Parents
  BY DEF Grown
<1>2. ~MakesCycle(c, node[c].parent)
  BY NoLoop
<1>3. WithinCap(PathBelow(c, c, 0))
  <2>1. Climb(c)[0] = c /\ 0 \in 0..Height
    BY ClimbIs, LoadedIs, TreeBasics DEF Height
  <2>2. Len(PathBelow(c, c, 0)) = Len(PathOf(node[c].parent)) + 1 + 0
    BY <2>1, PathBelowIs
  <2>3. Len(PathOf(node[c].parent)) \in Nat /\ level[c] <= DepthCap + 1
    BY RowFacts, TreeBasics DEF Levelled
  <2> QED
    BY <2>2, <2>3 DEF WithinCap
<1> QED
  BY <1>1, <1>2, <1>3 DEF Rewritable

\* One rewrite: its category and all below follow, and everybody else as before.
LEMMA RewriteKeeps ==
    ASSUME TreeTyped, Grown, Rooted, DepthsFit, NEW level, Levelled(level),
           NEW c \in Categories, InTree(c), Len(PathOf(node[c].parent)) + 1 = level[c],
           node' = Rewritten(c)
    PROVE  /\ TreeStands'
           /\ \A d \in Categories : /\ InTree(d)' <=> InTree(d)
                                    /\ node'[d].parent = node[d].parent
           /\ \A d \in Categories : InTree(d) => \/ Follows(d)'
                                                 \/ /\ Follows(d) => Follows(d)'
                                                    /\ d # c /\ node[d].parent # c
<1>1. /\ node' \in [Categories -> Row]
      /\ \A d \in Categories :
           /\ node'[d].state = node[d].state /\ node'[d].parent = node[d].parent
           /\ node'[d].slug = node[d].slug
  BY RewrittenIs
<1>2. /\ Below(c, c) /\ ~Below(c, node[c].parent)
      /\ \A d \in Categories : ~InTree(d) => ~Below(c, d)
      /\ \A d \in Categories : InTree(d) /\ d # c => (Below(c, d) <=> Below(c, node[d].parent))
  BY BelowGrows
<1>3. /\ node'[c].path = Append(PathOf(node[c].parent), node[c].slug)
      /\ \A d \in Categories : ~Below(c, d) => node'[d].path = node[d].path
      /\ \A d \in Categories : InTree(d) /\ d # c /\ Below(c, d) =>
            /\ node[d].parent \in Categories
            /\ node'[d].path = Append(node'[node[d].parent].path, node[d].slug)
  BY RewriteFollows
<1>4. /\ \A d \in Categories : InTree(d)' <=> InTree(d)
      /\ Parents' = Parents
      /\ \A p \in Pages : ~Below(c, p) => PathOf(p)' = PathOf(p)
  BY <1>1, <1>3 DEF InTree, Parents, PathOf, Pages
<1>5. Follows(c)'
  <2>1. PICK p \in Pages : p = node[c].parent
    BY RowFacts
  <2>2. PathOf(p)' = PathOf(p)
    BY <1>2, <1>4, <2>1
  <2>3. node'[c].path = Append(PathOf(p), node[c].slug) /\ node'[c].parent = p
    BY <1>1, <1>3, <2>1
  <2> QED
    BY <1>1, <2>2, <2>3 DEF Follows, PathOf
<1>6. ASSUME NEW d \in Categories, InTree(d), d # c, Below(c, d) PROVE Follows(d)'
  <2>1. PICK p : p = node[d].parent
    OBVIOUS
  <2>2. p \in Categories /\ node'[d].path = Append(node'[p].path, node[d].slug)
    BY <1>3, <1>6, <2>1
  <2>3. p # NoCategory /\ node'[d].parent = p /\ node'[d].slug = node[d].slug
    BY <1>1, <2>1, <2>2, TreeBasics
  <2> QED
    BY <2>2, <2>3 DEF Follows, PathOf
<1>7. ASSUME NEW d \in Categories, InTree(d), ~Below(c, d)
      PROVE  (Follows(d) => Follows(d)') /\ d # c /\ node[d].parent # c
  <2>1. d # c
    BY <1>2, <1>7
  <2>2. PICK p \in Pages : p = node[d].parent
    BY RowFacts
  <2>3. ~Below(c, p)
    BY <1>2, <1>7, <2>1, <2>2
  <2>4. p # c
    BY <1>2, <2>3
  <2>5. PathOf(p)' = PathOf(p)
    BY <1>4, <2>3
  <2>6. node'[d].parent = p /\ node'[d].path = node[d].path /\ node'[d].slug = node[d].slug
    BY <1>1, <1>3, <1>7, <2>2
  <2>7. Follows(d) => Follows(d)'
    BY <2>2, <2>5, <2>6 DEF Follows, PathOf
  <2> QED
    BY <2>1, <2>2, <2>4, <2>7
<1>8. Rooted' /\ DepthsFit'
  <2>1. Rooted'
    BY <1>1 DEF Rooted
  <2>2. \A l, d : d \in Categories => (IsLevel(l, d) <=> IsLevel(l, d)')
    BY <1>1 DEF IsLevel
  <2>3. DepthsFit'
    BY <1>4, <2>2 DEF DepthsFit
  <2> QED
    BY <2>1, <2>3
<1>9. Grown'
  <2>1. ASSUME NEW d \in Categories, ~Below(c, d) PROVE node'[d] = node[d]
    <3>1. node'[d] \in Row /\ node[d] \in Row
      BY <1>1, RowFacts
    <3>2. /\ node'[d].state = node[d].state /\ node'[d].parent = node[d].parent
          /\ node'[d].slug = node[d].slug /\ node'[d].path = node[d].path
      BY <1>1, <1>3, <2>1
    <3> QED
      BY <3>1, <3>2 DEF Row
  <2>2. ASSUME NEW d \in Categories, node'[d].state = "absent" PROVE node'[d] = Unplanted(d)
    <3>1. node[d].state = "absent"
      BY <1>1, <2>2
    <3>2. ~Below(c, d)
      BY <1>2, <3>1 DEF InTree
    <3>3. node[d] = Unplanted(d)
      BY <3>1 DEF Grown
    <3> QED
      BY <2>1, <3>2, <3>3
  <2>3. ASSUME NEW d \in Categories, node'[d].state # "absent" PROVE node'[d].path # <<>>
    <3>1. CASE Below(c, d)
      <4>1. InTree(d)
        BY <1>2, <3>1
      <4>2. Follows(d)'
        BY <1>5, <1>6, <3>1, <4>1
      <4>3. PICK p \in Pages : p = node[d].parent
        BY RowFacts
      <4>4. PathOf(p)' \in Seq(Slugs)
        <5>1. \A x \in Categories : node'[x].path \in Seq(Slugs)
          BY <1>1 DEF Row
        <5>2. <<>> \in Seq(Slugs)
          OBVIOUS
        <5> QED
          BY <5>1, <5>2 DEF PathOf, Pages
      <4>5. node[d].slug \in Slugs /\ node'[d].slug = node[d].slug /\ node'[d].parent = p
        BY <1>1, <4>3, RowFacts
      <4>6. node'[d].path = Append(PathOf(p)', node[d].slug)
        BY <4>2, <4>5 DEF Follows, PathOf
      <4> QED
        BY <4>4, <4>5, <4>6
    <3>2. CASE ~Below(c, d)
      BY <1>1, <2>1, <2>3, <3>2 DEF Grown
    <3> QED
      BY <3>1, <3>2
  <2>4. ASSUME NEW d \in Categories
        PROVE  /\ node'[d].parent \in Categories => node'[node'[d].parent].state # "absent"
               /\ InTree(d)' => node'[d].parent \in Parents'
    BY <1>1, <1>4 DEF Grown
  <2> QED
    BY <2>2, <2>3, <2>4 DEF Grown
<1> QED
  BY <1>1, <1>4, <1>5, <1>6, <1>7, <1>8, <1>9 DEF TreeStands

LEMMA RewriteBelowStands ==
    ASSUME Branching, NEW e \in Editors, RewriteBelow(e)
    PROVE  TreeStands' /\ Knows(editor[e])'
<1>1. TreeTyped /\ TreeStands /\ Rooted /\ Grown /\ DepthsFit
  BY DEF Branching, TreeStands
<1>2. PICK job, todo : job = editor[e] /\ todo = job.todo
  OBVIOUS
<1>3. BelowKnows(job) /\ todo \subseteq Categories /\ job.step = "below" /\ job.fresh
  BY <1>1, <1>2 DEF Branching, Knows, RewriteBelow, EditorAt, TreeTyped, Job
<1>4. PICK level : Levelled(level)
  BY <1>1 DEF DepthsFit, Levelled
<1>5. ASSUME Leave(e), UNCHANGED node, AllFollow PROVE TreeStands' /\ Knows(editor[e])'
  BY <1>1, <1>5, StandsStill, AtDeskKnows
<1>6. ASSUME NEW c \in todo, InTree(c)
      PROVE  Len(PathOf(node[c].parent)) + 1 = level[c] /\ Rewritable(c) /\ ~TooDeep(c)
  <2>1. \A x \in Categories : InTree(x) /\ level[x] < level[c] => Follows(x)
    BY <1>1, <1>2, <1>3, <1>4, <1>6, NearerFollow
  <2>2. c \in Categories /\ Len(PathOf(node[c].parent)) + 1 = level[c]
    BY <1>1, <1>3, <1>4, <1>6, <2>1, ParentFits
  <2> QED
    BY <1>1, <1>4, <1>6, <2>2, IsRewritable, RewriteFollows
<1>7. CASE todo = {}
  <2>1. AllFollow
    BY <1>2, <1>3, <1>7 DEF BelowKnows, AllFollow
  <2>2. Leave(e) /\ UNCHANGED node
    BY <1>2, <1>7 DEF RewriteBelow
  <2> QED
    BY <1>5, <2>1, <2>2
<1>8. CASE todo # {}
  <2>1. PICK c \in todo :
           IF ~Rewritable(c) THEN Leave(e) /\ UNCHANGED node
           ELSE /\ node' = Rewritten(c)
                /\ IF TooDeep(c) THEN Leave(e) ELSE editor' = [editor EXCEPT ![e].todo = @ \ {c}]
    BY <1>2, <1>8 DEF RewriteBelow
  <2>2. CASE ~Rewritable(c)
    <3>1. ~InTree(c)
      BY <1>6, <2>2
    <3>2. AllFollow
      BY <1>2, <1>3, <3>1 DEF BelowKnows
    <3> QED
      BY <1>5, <2>1, <2>2, <3>2
  <2>3. CASE Rewritable(c)
    <3>1. InTree(c) /\ c \in Categories
      BY <2>3 DEF Rewritable, InTree
    <3>2. /\ node' = Rewritten(c) /\ editor' = [editor EXCEPT ![e].todo = @ \ {c}]
          /\ Len(PathOf(node[c].parent)) + 1 = level[c]
      BY <1>6, <2>1, <2>3, <3>1
    <3>3. /\ TreeStands'
          /\ \A d \in Categories : /\ InTree(d)' <=> InTree(d)
                                   /\ node'[d].parent = node[d].parent
          /\ \A d \in Categories : InTree(d) => \/ Follows(d)'
                                                \/ /\ Follows(d) => Follows(d)'
                                                   /\ d # c /\ node[d].parent # c
      BY <1>1, <1>4, <3>1, <3>2, RewriteKeeps
    <3>4. /\ editor'[e].step = "below" /\ editor'[e].fresh /\ editor'[e].todo = todo \ {c}
      <4>1. editor'[e] = [job EXCEPT !.todo = @ \ {c}]
        BY <1>1, <1>2, <3>2 DEF TreeTyped
      <4>2. job \in Job
        BY <1>1, <1>2 DEF TreeTyped
      <4> QED
        BY <1>2, <1>3, <4>1, <4>2 DEF Job
    <3>5. AllFollow => AllFollow'
      BY <3>3 DEF AllFollow
    <3>6. ASSUME ~AllFollow PROVE BelowKnows(editor[e])'
      <4>1. /\ \A d \in todo : InTree(d)
            /\ \A a, b \in todo : a # b => node[a].parent = NoCategory
            /\ \A d \in Categories : InTree(d) => \/ Follows(d)
                                                  \/ d \in todo
                                                  \/ node[d].parent \in todo
        BY <1>2, <1>3, <3>6 DEF BelowKnows
      <4>2. \A d \in Categories : InTree(d)' => \/ Follows(d)'
                                                \/ d \in todo \ {c}
                                                \/ node'[d].parent \in todo \ {c}
        BY <3>3, <4>1
      <4>3. /\ \A d \in todo \ {c} : InTree(d)'
            /\ \A a, b \in todo \ {c} : a # b => node'[a].parent = NoCategory
        BY <1>3, <3>3, <4>1
      <4>4. editor'[e].todo = todo \ {c}
        BY <3>4
      <4> QED
        BY <4>2, <4>3, <4>4 DEF BelowKnows
    <3>7. BelowKnows(editor[e])'
      BY <3>5, <3>6 DEF BelowKnows
    <3>8. Knows(editor[e])'
      BY <3>4, <3>7 DEF Knows
    <3> QED
      BY <3>3, <3>8
  <2> QED
    BY <2>2, <2>3
<1> QED
  BY <1>7, <1>8

(***************************************************************************)
(* The invariant, and what it says.                                        *)
(***************************************************************************)
\* No category is met again above itself: those met would have no root.
IsAncestry(up, c) ==
    up = [n \in 0..Cardinality(Categories) |->
            IF n = 0 THEN node[c].parent
            ELSE IF up[n - 1] = NoCategory THEN NoCategory ELSE node[up[n - 1]].parent]

LEMMA NoCycleUnfolds ==
    NoCycle <=> \A c \in Categories :
                   LET up == CHOOSE f : IsAncestry(f, c) IN \A n \in DOMAIN up : up[n] # c
BY DEF NoCycle, IsAncestry

LEMMA AncestryIs ==
    ASSUME TreeTyped, NEW c \in Categories, NEW up, up = CHOOSE f : IsAncestry(f, c)
    PROVE  /\ up \in [0..Height -> Pages] /\ up[0] = node[c].parent
           /\ \A n \in 1..Height : up[n] = IF up[n - 1] = NoCategory THEN NoCategory
                                           ELSE node[up[n - 1]].parent
<1> DEFINE Next(x) == IF x = NoCategory THEN NoCategory ELSE node[x].parent
<1>1. Height \in Nat /\ node[c].parent \in Pages /\ \A x \in Pages : Next(x) \in Pages
  BY TreeBasics, RowFacts DEF Height, Pages
<1>2. PICK g, a, n : g = [x \in Pages |-> Next(x)] /\ a = node[c].parent /\ n = Height
  OBVIOUS
<1>3. g \in [Pages -> Pages] /\ \A x \in Pages : g[x] = Next(x)
  BY <1>1, <1>2
<1> HIDE DEF Next
<1>4. g \in [Pages -> Pages]
  BY <1>3
<1>5. a \in Pages
  BY <1>1, <1>2
<1>6. n \in Nat
  BY <1>1, <1>2
<1>7. \E f : IsChain(f, Pages, g, a, n)
  BY ONLY <1>4, <1>5, <1>6, ChainExists, Zenon
<1>8. PICK f : f \in [0..Height -> Pages] /\ f[0] = a /\ \A k \in 1..Height : f[k] = g[f[k - 1]]
  BY <1>2, <1>7 DEF IsChain
<1>9. \A k \in 1..Height : f[k] = Next(f[k - 1])
  <2> SUFFICES ASSUME NEW k \in 1..Height PROVE f[k] = Next(f[k - 1])
    OBVIOUS
  <2>1. k - 1 \in 0..Height
    BY <1>1
  <2>2. f[k - 1] \in Pages
    BY <1>8, <2>1
  <2> QED
    BY <1>3, <1>8, <2>2
<1>10. IsAncestry(f, c)
  BY <1>1, <1>2, <1>8, <1>9 DEF IsAncestry, Next, Height
<1>11. IsAncestry(up, c)
  BY <1>10
<1>12. up = [k \in 0..Height |-> IF k = 0 THEN node[c].parent ELSE Next(up[k - 1])]
  BY <1>11, Zenon DEF IsAncestry, Next, Height
<1>13. /\ \A k \in 0..Height : up[k] = IF k = 0 THEN node[c].parent ELSE Next(up[k - 1])
       /\ DOMAIN up = 0..Height
  BY <1>12, Zenon
<1>14. up[0] = node[c].parent /\ \A k \in 1..Height : up[k] = Next(up[k - 1])
  BY <1>1, <1>13
<1> DEFINE Wrong == {k \in Nat : k <= Height /\ up[k] \notin Pages}
<1>15. Wrong = {}
  <2> SUFFICES ASSUME Wrong # {} PROVE FALSE
    OBVIOUS
  <2>1. PICK k \in Wrong : \A m \in Wrong : k <= m
    BY LeastNumber
  <2>2. k # 0
    BY <1>1, <1>14, <2>1
  <2>3. k - 1 \in Nat /\ k - 1 <= Height /\ k - 1 \notin Wrong /\ k \in 1..Height
    BY <1>1, <2>1, <2>2
  <2>4. up[k - 1] \in Pages /\ up[k] = Next(up[k - 1])
    BY <1>14, <2>3
  <2>5. up[k] \in Pages
    BY <1>1, <1>3, <2>4
  <2> QED
    BY <2>1, <2>5
<1>16. \A k \in 0..Height : up[k] \in Pages
  BY <1>1, <1>15
<1>17. up \in [0..Height -> Pages]
  BY <1>12, <1>16
<1> QED
  BY <1>14, <1>17 DEF Next

LEMMA RootedMeansNoCycle == TreeTyped /\ Rooted => NoCycle
<1> SUFFICES ASSUME TreeTyped, Rooted, NEW c \in Categories, NEW up,
                    up = CHOOSE f : IsAncestry(f, c), NEW n \in DOMAIN up, up[n] = c
             PROVE  FALSE
  BY NoCycleUnfolds
<1>1. /\ up \in [0..Height -> Pages] /\ up[0] = node[c].parent /\ Height \in Nat
      /\ c # NoCategory
      /\ \A k \in 1..Height : up[k] = IF up[k - 1] = NoCategory THEN NoCategory
                                      ELSE node[up[k - 1]].parent
  BY AncestryIs, TreeBasics DEF Height
<1>2. n \in 0..Height
  BY <1>1
<1> DEFINE Ended == {k \in Nat : k <= n /\ up[n - k] = NoCategory}
<1>3. Ended = {}
  <2> SUFFICES ASSUME Ended # {} PROVE FALSE
    OBVIOUS
  <2>1. PICK k \in Ended : \A j \in Ended : k <= j
    BY LeastNumber
  <2>2. k # 0
    BY <1>1, <1>2, <2>1
  <2>3. /\ k - 1 \in Nat /\ k - 1 <= n /\ k - 1 \notin Ended
        /\ n - (k - 1) \in 1..Height /\ (n - (k - 1)) - 1 = n - k
    BY <1>1, <1>2, <2>1, <2>2
  <2>4. up[n - (k - 1)] = NoCategory
    BY <1>1, <2>1, <2>3
  <2> QED
    BY <2>3, <2>4
<1>4. \A k \in 0..n : up[k] # NoCategory /\ up[k] \in Categories /\ k \in 0..Height
  <2> SUFFICES ASSUME NEW k \in 0..n
               PROVE  up[k] # NoCategory /\ up[k] \in Categories /\ k \in 0..Height
    OBVIOUS
  <2>1. n - k \in Nat /\ n - k <= n /\ n - (n - k) = k /\ k \in 0..Height
    BY <1>1, <1>2
  <2>2. up[k] # NoCategory
    BY <1>3, <2>1
  <2> QED
    BY <1>1, <2>1, <2>2 DEF Pages
<1> DEFINE S == {x \in Categories : \E k \in 0..n : up[k] = x}
<1>5. c \in S /\ S \in SUBSET Categories
  <2>1. n \in 0..n /\ up[n] \in Categories
    BY <1>1, <1>2, <1>4
  <2> QED
    BY <2>1
<1>6. ASSUME NEW x \in S PROVE node[x].parent \in S
  <2>1. PICK k \in 0..n : up[k] = x
    BY <1>6
  <2>2. CASE k = n
    <3>1. 0 \in 0..n /\ node[x].parent = up[0]
      BY <1>1, <1>2, <2>1, <2>2
    <3> QED
      BY <1>4, <3>1
  <2>3. CASE k # n
    <3>1. k + 1 \in 0..n /\ k + 1 \in 1..Height /\ (k + 1) - 1 = k
      BY <1>1, <1>2, <2>1, <2>3
    <3>2. up[k + 1] = node[x].parent
      BY <1>1, <1>4, <2>1, <3>1
    <3> QED
      BY <1>4, <3>1, <3>2
  <2> QED
    BY <2>2, <2>3
<1> HIDE DEF S
<1> QED
  BY <1>5, <1>6 DEF Rooted

LEMMA BranchingInit == OneEditor /\ TreeInit => Branching
<1> SUFFICES ASSUME OneEditor, TreeInit PROVE Branching
  OBVIOUS
<1>1. TreeTyped
  BY TreeTypedInit
<1>2. \A c \in Categories : node[c] = Unplanted(c) /\ ~InTree(c) /\ node[c].parent = NoCategory
                            /\ node[c].state = "absent"
  BY DEF TreeInit, Unplanted, InTree
<1>3. Grown /\ Rooted
  BY <1>2, TreeBasics DEF Grown, Rooted
<1>4. AllFollow
  BY <1>2 DEF AllFollow
<1>5. DepthsFit
  BY <1>1, <1>3, <1>4, FollowedFits
<1>6. \A e \in Editors : Knows(editor[e])
  BY <1>4 DEF Knows, TreeInit, AtDesk
<1> QED
  BY <1>1, <1>3, <1>5, <1>6 DEF Branching, TreeStands

LEMMA BranchingStep == OneEditor /\ Branching /\ [TreeNext]_treeVars => Branching'
<1> SUFFICES ASSUME OneEditor, Branching, [TreeNext]_treeVars PROVE Branching'
  OBVIOUS
<1>1. TreeTyped'
  BY TreeTypedStep DEF Branching
<1>2. PICK e : Editors = {e}
  BY DEF OneEditor
<1>3. SUFFICES TreeStands' /\ Knows(editor[e])'
  BY <1>1, <1>2 DEF Branching
<1>4. CASE UNCHANGED treeVars
  <2>1. UNCHANGED node /\ UNCHANGED editor /\ Knows(editor[e]) /\ TreeStands /\ e \in Editors
    BY <1>2, <1>4 DEF treeVars, Branching
  <2>2. PICK job : job = editor[e]
    OBVIOUS
  <2> QED
    BY <2>1, <2>2, StandsStill, StillKnows
<1>5. CASE TreeNext
  <2>1. \/ \E c \in Categories, p \in Pages : BeginCreate(e, c, p) \/ BeginMove(e, c, p)
        \/ \E c \in Categories : BeginRename(e, c) \/ BeginRestore(e, c)
        \/ \E c \in Categories, strategy \in Strategies : BeginDelete(e, c, strategy)
        \/ InsertNode(e) \/ WriteNode(e) \/ DeleteNodes(e) \/ RestoreNode(e) \/ RewriteBelow(e)
    BY <1>2, <1>5 DEF TreeNext, Pages
  <2>2. e \in Editors /\ TreeStands /\ Knows(editor[e])
    BY <1>2 DEF Branching
  <2>3. CASE \E c \in Categories, p \in Pages : BeginCreate(e, c, p) \/ BeginMove(e, c, p)
    <3>1. UNCHANGED node
      BY <2>3 DEF BeginCreate, BeginMove
    <3> QED
      BY <2>2, <2>3, <3>1, BeginCreateKnows, BeginMoveKnows, StandsStill
  <2>4. CASE \E c \in Categories : BeginRename(e, c) \/ BeginRestore(e, c)
    <3>1. PICK c \in Categories : BeginRename(e, c)
      BY <2>4 DEF BeginRestore, OneEditor
    <3>2. UNCHANGED node
      BY <3>1 DEF BeginRename
    <3> QED
      BY <2>2, <3>1, <3>2, BeginRenameKnows, StandsStill
  <2>5. CASE \E c \in Categories, strategy \in Strategies : BeginDelete(e, c, strategy)
    <3>1. UNCHANGED node
      BY <2>5 DEF BeginDelete
    <3> QED
      BY <2>2, <2>5, <3>1, BeginDeleteKnows, StandsStill
  <2>6. CASE InsertNode(e)
    BY <2>2, <2>6, InsertNodeStands
  <2>7. CASE WriteNode(e)
    <3>1. EditorAt(e, "move") \/ EditorAt(e, "rename")
      BY <2>7 DEF WriteNode
    <3> QED
      BY <2>2, <2>7, <3>1, MoveStands, RenameStands
  <2>8. CASE DeleteNodes(e)
    BY <2>2, <2>8, CutStands, HandUpStands
  <2>9. CASE RestoreNode(e)
    BY <2>2, <2>9 DEF RestoreNode, EditorAt, Knows
  <2>10. CASE RewriteBelow(e)
    BY <2>2, <2>10, RewriteBelowStands
  <2> QED
    BY <2>1, <2>3, <2>4, <2>5, <2>6, <2>7, <2>8, <2>9, <2>10
<1> QED
  BY <1>4, <1>5

\* category.admin.service.ts, materializedPath.ts: edited by one administrator, without
\* restoring or leaving children behind, the catalogue is a tree of any size and shape, and
\* when no request is under way every path is the parent's and the row's own slug.
THEOREM PathsAreTrue == ASSUME OneEditor PROVE TreeSpec => []PathsFollowParents
<1>1. TreeInit => Branching
  BY BranchingInit
<1>2. Branching /\ [TreeNext]_treeVars => Branching'
  BY BranchingStep
<1>3. Branching => PathsFollowParents
  <2> SUFFICES ASSUME Branching PROVE PathsFollowParents
    OBVIOUS
  <2>1. NoCycle
    BY RootedMeansNoCycle DEF Branching, TreeStands
  <2>2. NobodyEdits => AllFollow
    BY DEF NobodyEdits, EditorAt, Branching, Knows, OneEditor
  <2> QED
    BY <2>1, <2>2 DEF PathsFollowParents, AllFollow, Follows
<1> QED
  BY <1>1, <1>2, <1>3, PTL DEF TreeSpec
==============================================================================

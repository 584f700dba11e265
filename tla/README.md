# TLA+ models of trust-anchor

trust-anchor downloads the EU list of the trusted lists (the LOTL) and the
national trusted lists it points to, verifies them, extracts the certificates
they vouch for, and serves these anchors as PEM and JSON bundles. This directory
holds TLA+ specifications of its parts, TLC configurations that check them on
small instances, and TLAPS proofs of their main safety properties for every
instance.

`PROJECT.json` is the index: which definition models which lines, which run
checks which property, which theorem states it, and the hazards the properties
were chosen for.

## The system and its parts

| Part | Source | Model |
|---|---|---|
| Snapshot value, content id, diff, change tests | `trust/anchor.go`, `trust/diff.go`, `ingest/manager.go` | `Snapshot` |
| Ingestion cycle: territory loop, carry-over, `.sha2` reuse, regression checks, declared certificates, hold mode | `ingest/pipeline.go`, `ingest/source_national.go`, `ingest/pointers.go` | `Pipeline` |
| Manager: refresh, approval, reconcile, boot, persistence | `ingest/manager.go`, `app.go`, `routes/admin.go` | `Manager`, which implements `Bundle` |
| LOTL verification and the pivot chain | `ingest/source_lotl.go`, `ingest/pivot.go`, `tsl/verify.go` | `LotlChain` |
| Refresh loop | `tasks/refresh.go` | `RefreshTask` |
| Store backends | `store/*.go` | `ObjectStore`, which implements `Register` |
| Bundle endpoints | `routes/anchors.go`, `trust/filter.go` | `Serving` |
| Anchor extraction | `trust/extract.go`, `trust/vocabulary.go` | `Extract` |
| Declared anchors: the operator's file and its two loads per refresh | `trust/internal.go`, `trust/declared.go` | `Declared`, `Service` |
| Events and telemetry | `events/events.go`, `ingest/telemetry.go` | partly: the anchor changes in `Manager`, the gauges of anchors, skipped services and failures in `Service` |
| Fetcher, source seam, bootstrap manifest | `ingest/fetcher.go`, `source/source.go`, `trust/bootstrap.go` | partly: their outcomes, in `Pipeline` and `Manager` |
| XML and ASN.1 decoding | `tsl/parse.go`, `trust/certs.go`, `trust/certbody.go` | partly: the outcomes for a certificate, in `Extract` and `Declared` |
| Configuration, router, SQL, health endpoints, OJ comparison | `config.go`, `routes/router.go`, `migrations/`, ... | not modelled, see the end |

How they interact: the refresh loop (`RefreshTask`) and the admin routes call
`Manager.Refresh`, which under one mutex runs a cycle of the pipeline. The cycle
takes the LOTL (`LotlChain`), then each territory's list, extracts its anchors
(`Extract`) and builds a successor of the served snapshot. The manager saves it
(`ObjectStore`), makes it the served one with an atomic pointer, and emits the
change events. The bundle routes (`Serving`) read that pointer without a lock. A
restart begins with what the store holds. Beside all this the operator edits the
file of declared anchors, which each refresh reads twice, and a monitor reads the
gauges (`Service`).

What one model assumes of another: `Manager` treats a save as one step that
succeeds, fails, or fails after it was carried out; `Register` states that, and
`ObjectStore` is shown to implement it for all four backends. `Manager` lets a
load of the operator's file have any outcome; `Service` composes it with
`Declared`, which computes the outcome from the file, and is shown to implement
`Manager`, so that what holds of any loads holds of these. `Manager` lets LOTL
verification accept anything in `Lotls`; `LotlChain` is about what it accepts.
`RefreshTask` treats a cycle as something that waits for the mutex and takes any time, `Serving` treats the
manager as an environment that activates any snapshot, and `Pipeline` starts from
the set of anchors a list yields, which is what `Extract` computes. `Serving`
assumes of a snapshot that a territory without data has no anchors, which
`ServedIsListed` says of every snapshot the manager serves, and that its anchors
were extracted with their kind of key (`KeysKnown`, see "Also observed").

## Modules

**Snapshot** has the records of the program and the functions on them:
`ComputeID`, `ComputeDiff`, `StaleAt`, and the tests by which `Refresh` decides
whether to save. A certificate is its fingerprint, a digest is the list it is the
digest of, and a content hash is the hashed content. `health` joins the fields
`CarriedOver` and `Failed`. `SameState`, what a restart has to find again, leaves
out a territory's dates and digest at the same sequence number, the reason of a
carry-over and the labels of declared anchors, which the change tests of the code
leave out as well. Pending anchors are a set; the code compares sorted slices, and
may save once more when equal fingerprints are sorted differently.

**Pipeline** is one cycle as operators, from the previous snapshot and what
upstream answers to the set of possible next snapshots. Upstream is
unconstrained: a request fails, or answers with any list, an older one included,
and the `.sha2` file may name any list.

**Manager** is the state machine: `active`, the store, the mutex, and per
goroutine a program counter with the snapshots it works on. The steps are cut
where someone else can tell: taking the mutex, saving, activating, answering.
`behind` records that the last save of a snapshot went wrong.

| Action | Code |
|---|---|
| `CallRefresh`, `LockRefresh`, `Cycle`, `CycleFails`, `Activate`, `Respond` | `Manager.Refresh` and its callers |
| `ReconcileUnchanged`, `ReconcileChanged`, `ReconcileActivate` | `reconcileDeclared`, in `Refresh` and at boot |
| `CallApprove`, `Approve`, `ApproveFails`, `ApproveActivate` | `ApprovePending` and its route |
| `Boot`, `SeedFails` | `Initialize` and `App.Start` |
| `Crash`, `Tick` | the process ends at any step, the clock moves |

The outcome of a load is a parameter of `ReconcileUnchanged`, `ReconcileChanged`
and `Cycle`; `Next` takes any of `Declarations` or an error.

**Bundle** is what `Manager` promises to whoever reads the pointer or the store:
one object that a refresh, a reconcile or an approval replaces in a single step by
what it makes of the very snapshot it replaces, and a kept copy that changes only
to what one such operation makes of the served snapshot. There is no mutex, no
goroutine and no failure in it. What the operations compute are its parameters;
`Manager` instantiates them with the operators of `Pipeline` (`CycledFrom`,
`ReconciledFrom`, `ApprovedFrom`) and maps `active` and `stored` to the object and
its copy.

**Declared** is `LoadInternal`: the checks on an entry (`ValidTypes`,
`ValidSource`, `HasCert`, the certificate's expiry at the time of the load), those
on the file as a whole (`NoDuplicates`), and the declaration it yields, one role
for each certificate and type with the label that is served of it. Any invalid
entry refuses the file.

**Service** puts `Manager`, `Declared` and the gauges together. Each of its steps
is a step of `Manager` with the load of the file as it is then (`Reconcile`,
`RunCycle`) or with the gauges (`MakeActive`, `Start`, `Die`), or an edit of the
file (`Edit`). `lastGood` records the file of the last load that succeeded. The
gauges are one value per series (`Series`: failed territories, skipped services by
territory and reason, anchors by source, territory and type) and `seen`, the series
that were ever set: `SetGauges` sets what the snapshot gives a value (`Live`,
`Reading`) and zeroes what was seen and is gone; it touches no other series.

**LotlChain** has a publisher (external: it numbers lists and pivots, rotates its
keys, and one with `mistakes` publishes what it should not have; which publisher
there is, is chosen in `Init`; some lists of one that is `undated` have no
`NextUpdate`) and the verifying side: `VerifyDirect`, `VerifyByPivots` with the
walk, `Carry` on a `.sha2` match, and `Restart` from an older saved state. A list
without a date never expires, and is never carried over without a download. Signature arithmetic is abstracted to
"signed by this key".

**RefreshTask** is the loop's goroutine (`FirstCycle`, `SkipFirstCycle`, `Arm`,
`SelectDone`, `SelectKick`, `SelectTimer`, `LockRefresh`, `CycleSucceeds`,
`CycleFails`) beside `TriggerRefresh`, admin requests that have the same mutex
(`AdminLock`, `AdminReturns`) and `Stop`. The test of the context and the start of
the cycle are two steps, with the wait for the mutex between them. `read`, `armed` and `owed` record
what the timer was armed for, when, and whether a trigger is outstanding.

**ObjectStore** takes a save apart into its writes: a version and then a pointer,
each through a temporary file and a rename on the filesystem, one insert on the
database. A failure or a crash may come at each. **Register** is the abstract
specification: a save takes effect once, or not at all.

**Serving** has clients that poll with `If-None-Match`, handlers that load the
served snapshot once and answer from it, the content id as entity tag, the filter
with all its parameters, and the staleness header.

**Extract** is `ExtractAnchors` loop by loop: the statuses of each certificate,
the selection of entries and of their certificates one by one, `sort.Slice`
leaving equal elements in any order, and the merging of duplicates. The last loop
returns a prefix of the slice it ranges over, so `anchors` is both and `kept` says
how long the prefix is. A certificate is parsed, held for its curve, refused, or
not base64, which fails the read of the whole entry. Slices of qualifiers are
modelled with the arrays they share and their capacity, since `append` writes into
spare capacity.

The `MC*` modules have the small sets that the configurations use. Definitions
whose comment starts with "Mutant" are wrong variants of the definition after
them; with the definition replaced by its variant, the property they are meant
for is violated.

## Runs

Passing:

| Run | Checks | Distinct states |
|---|---|---|
| `hold` | Hold mode, two callers, crashes, one bad save, two seed files: `TypeOK`, `BuiltOnServed`, `ServedIsListed`, `StoredIsServed`, `SequencesNeverRegress`, `HoldGate`, `SeededOnce`, `StoreMovesForward`, `HeldIsKept` | 420,116 |
| `territories` | Two territories, one configured and one of the EU group that the second LOTL drops, restarts, and an operator's file that is edited and holds a certificate that expires: `StoredIsServed`, `SequencesNeverRegress`, `OnlyListsRemove`, `DeclaredIsLastGood`, `GaugesTellServed`, `EditIsServedOrShown` | 184,784 |
| `calls` | Declared certificates, hold mode, a bad save: `EventsTellServed`, `HolderAdvances`, `OneOperationAtATime`, `EveryCallReturns` | 132,630 |
| `lotl` | A publisher with overlapping rotations and mistakes, and two that hand over cleanly; lists without a date, an expiring key, stale answers, several rotations between two cycles, restarts: `TypeOK`, `HeldVerifies`, `NoExpiredList`, `SignersEndorsed`, `NeverLockedOut`, `HandoversFollowed` | 389,384 |
| `task` | Wake-ups, triggers, admin requests on the mutex and stopping: `NextUpdateHonored`, `NoBusyLoop`, `TriggerIsServed`, `StopReturns` | 169,468 |
| `store` | All backends, a failure or crash at every write, a shared version key: `NothingTorn`, `LatestIsVersioned`, `IsRegister` | 6,457 |
| `serving` | A polling client while snapshots are replaced and grow stale: `CachedPEMIsCurrent`, `CachedJSONIsCurrent`, `StaleIsNoticed` | 72,816 |
| `extract` | Lists of two and three entries, certificates that cannot be read, every order of equal elements: `ServedIffAgreed`, `NothingSilent`, `FlagsAreUnion`, `NamedByFirstEntry` | 321,755 |

Violations, each against a sentence of the repository:

* `extract_shared`, `QualifiersAreUnion`. The anchors of one service entry share
  the array of their qualifiers. When a duplicate entry of the first certificate
  and one of the second are merged, both `append`s write into the same spare
  element, so the first anchor loses its merged qualifier and gets the second's.
  A comment in `ExtractAnchors` says a second entry's metadata is never
  silently dropped.
* `extract_dropped`, `FriendlierHalfNotServed`. When one value of an entry is not
  base64, the read of all its certificates fails, and in the first loop the entry
  contributes no statuses. A certificate it lists with another status is then
  served on its other entry. Comments in `extract.go` say that a service is never dropped
  whole because one of its identities failed, and that the friendlier half of
  conflicting entries is never served on its own. The entry itself is reported if
  its status is accepted, which is `NothingSilent`.
* `lotl_overlap`, `RotationsFollowed`. A list after a rotation that is signed by a
  key of both the old and the new set verifies directly. All pivots then count as
  processed while the old set stays pinned, and no later list signed by a key
  that only the new set has can be verified.
* `held_lost`, `ListedIsServedOrHeld`. Hold mode looks for additions in the
  anchors of the entry at hand. An entry that is reused on a `.sha2` match, or
  carried over, has only the served anchors, so a held addition disappears from
  the pending set at the next such cycle, and a later download holds it with a new
  window. `HeldIsKept` says that nothing else drops or restarts it.

### Bounds

* `hold`: three lists suffice for an addition, a removal and a list without
  `NextUpdate`; three clock ticks and a hold window of two, so that a window can
  be seen half elapsed, elapsed, and begun late, and a list can become stale; two
  goroutines for every race on one mutex. One bad save is
  enough because a save has no memory: what it leaves behind is one store value.
* `territories`: two territories, so that one can fail while the other succeeds,
  and two LOTLs, so that a territory can leave and return. Two files, of two
  entries and of one, between which the operator goes back and forth at any time;
  an entry of the first expires at the one tick of the clock, an entry of both has
  two roles, in another territory than the first. The second list skips a service,
  so that every kind of series comes and goes. Auto mode and one goroutine; the interplay with hold mode and races on
  the mutex are `hold`'s question. No save goes wrong in it; the theorem
  `DeclaredFollowsFile` covers saves that do.
* `calls`: two lists and two goroutines, in hold mode with every declaration.
  There are no crashes in it: see `EventsTellServed` under "Also observed".
* `lotl`: the publisher with mistakes has two keys and three publications, for a
  rotation to a disjoint set, one to an overlapping set, and a mistaken pivot at
  each place of the chain; the second has three keys and five publications, for two
  rotations that are both missed; the third leaves dates out, as the first does.
  Two ticks let the bootstrap key and a list expire.
* `task`: `Interval` 4 and `MinWake` 2 over seven units, so that a date before,
  between and after both occurs twice in a row.
* `store`: three snapshots, two of which share a version key.
* `serving`: ten contents that differ in one thing each, eight queries that
  differ in one parameter each, one client (clients do not influence each other)
  and time for every list to pass its grace.
* `extract`: entries of admitted and other types, accepted, rejected and national
  statuses, no, one and two certificates, parsed, held, refused and not base64.

Deadlock is checked except for `Extract`, a function that returns.

### Fairness

* `Manager.Fairness`: a goroutine at work goes on (`GoesOn`: its program counter
  moves; every request to upstream has a timeout, so a cycle ends, and saves, which
  have no timeout of their own, are assumed to end), and a goroutine that waits for the
  mutex gets it if it is free again and again (`sync.Mutex` hands over to a waiter
  after a millisecond).
* `Service.ServiceFairSpec`: the same for the steps of the service, and the
  refresh task, whose loop does nothing else, calls `Refresh` again and again.
  Nothing is assumed of upstream: every cycle may fail.
* `LotlChain.FairSpec`: if a cycle on the current list is possible again and
  again, one happens: the task repeats cycles, and upstream does not answer with
  old lists for ever. Nothing is assumed of the publisher.
* `RefreshTask.Fairness`: the goroutine runs, cycles and admin requests end, the
  mutex is handed over as above; `select` chooses uniformly among ready cases, so a
  cancelled context is noticed in the end.
* `Serving.FairSpec`: the client keeps polling, and handlers, which wait for
  nothing, return.

## Proofs

Eight modules, from the constants' named assumptions only (`SentinelsAssumption`,
`PipelineAssumption`, `ManagerAssumption`, `FilesAssumption`, `SeriesAssumption`,
`LotlAssumption`, `TaskAssumption`, `StoreAssumption`, `ServingAssumption`, `ListsAssumption`): the
sentinel values are distinct from the data, bounds are numbers, and inputs are
well-typed.

* **ManagerProofs**. Lemmas on what a cycle, a reconcile and an approval make of a
  snapshot come first. `TypeOK` and `LockInv` (who is in a critical step holds the
  mutex and builds on what is served; a process that is down has nobody at work)
  are inductive together and give `TypeCorrect` and `MutationsSerialized`.
  `GoodInv` extends them to `OnlyListedServed`: it speaks of the stored snapshot
  and of those still to be activated as well as the served one, since a crash or
  an activation may make any of them the served one, and it adds that no anchor
  is held twice. `SuccessorInv` says that a snapshot about to be activated is not
  older than its predecessor and adds only what hold mode admits; at the
  activation step this is `NoRegression` and `HoldModeGates`.
* **StoreProofs**. `PersistInv` (unless the last save went wrong, what is served,
  or about to be, is stored) gives `RestartResumes`; the core is a lemma that snapshots which
  the change tests take for equal are the same state. `EventsInv` gives
  `EventsComplete`, for processes that do not crash, and `SeedInv` gives
  `BootstrapIsFinal`.
  `ManagerImplementsBundle` is the refinement. `MadeInv` says that a snapshot that
  waits to be activated is what one operation makes of the snapshot it was built
  on, which is the served one (`BuiltOnServed`): without the mutex another
  activation could come between. A save then is `Keep` or a stutter, an
  activation `Replace` or a stutter, a crash `Stop` and a boot `Start`.
  The same `MadeInv`, with lemmas on what each operation may do to a snapshot,
  gives `OutagesRemoveNothing` (anchors leave only by a list) and
  `HeldAreKept`; with `PersistInv`, which relates the store to what is served
  across restarts, it gives `StoreForward`. `MutexIsGivenBack` is the safety half
  of `EveryCallReturns`: `HolderInv` says that who has the mutex is in a
  critical step, and these count down (`StepsLeft`).
* **ServiceProofs**. `ServiceImplementsManager`: every step of the service is a
  step of `Manager` or leaves its variables alone, so the theorems above hold of
  the service too. `LastGoodInv` says that, while no save went wrong
  (`CleanInv`), the
  store declares the roles of the last file that loaded; `EmptyInv` covers a process
  that serves nothing yet, and `PersistInv` carries the fact from the store to what
  is served. After a save that went wrong the store may be behind, so `ShownInv`
  says the same of the snapshots in memory, as long as the gauge does not show a
  failed load, and `BootInv` that a process that starts has the mutex until it has
  reconciled. Together they give `DeclaredFollowsFile`, with and without failing
  saves. The lemma behind it is that a file which loads declares the roles of all
  its entries.
  `GaugesFollow` needs `SeenInv`: a series that was never seen reads zero, so one
  that is not in the snapshot is zeroed or was never set.
* **LotlProofs**. `LotlInv` states `Sound` of the served and of the saved fields,
  because a restart serves the saved ones. The step that needs an argument is
  `WalkEndorsed`: in a walk that succeeds from an endorsed signer set, the oldest
  pivot that advertises a set not endorsed would be signed under an endorsed one.
  Hence `SignersGoBackToBootstrap`, for walks of any length, with
  `HeldListVerifies` and `ExpiredListRefused`.
  `EveryHandoverVerifies` is the safety half of `HandoversFollowed`. For a
  publisher that makes no mistakes and retires its keys, `CleanInv` says that each
  pivot is signed under the set after the pivots before it (`ChainInv`), that a
  list names the pivots before it, advertises the set after them and is signed by
  no key of an earlier set (`ListsInv`), and that what is held or saved has the
  signers and the pivot number that go with its list (`InStep`). Hence a list that
  is not older than the held one either brings no new pivot, and verifies
  directly, or brings pivots that are all newer than the processed ones, over
  which the walk succeeds and ends with the set the list advertises
  (`CleanWalk`). A list that verifies directly brings none (`CleanDirect`), which
  is what the overlapping publisher of `lotl_overlap` breaks.
* **TaskProofs**. `SleepInv` (while the loop sleeps its deadline is the one
  `NextWake` gave for the date it read, and has not passed) gives
  `NextUpdateIsHonored` and `TimerKeepsDistance`.
* **RegisterProofs**. `StoreInv` gives `NeverTorn` and `PointerHasVersion`, and
  with a step lemma `BackendIsRegister`: every backend refines `Register`.
* **ServingProofs**. `TagDeterminesBundle` shows that equal ids mean equal
  certificate bundles for every query, that is, that the hashed projection keeps
  everything the filter looks at, but for the kind of key, which the certificate
  has (`KeysKnown`). With `ServingInv` (what a client holds was sent
  from some content under its tag) it gives `PEMCacheIsCurrent`. For JSON,
  `TagDeterminesAnchors` and `JSONCacheIsCurrent` say the same of everything a
  consumer decides on; names are not in the id (see "Also observed").
* **ExtractProofs**. `ExtractInv` speaks of the anchors that are kept or still to
  be read, the two parts of the array that count while the last loop overwrites
  it. `SourceInv`: such an anchor says nothing that no entry of its certificate
  says. `CoverInv`: every certificate the second loop is past has such an anchor
  that says all its entry says, until a conflict drops it. `StatusesInv` relates
  the collected statuses to the entries read so far, `KeptInv` keeps what is
  returned distinct, `ReportInv` keeps the warnings of the entries read so far.
  The loops are steps of the model, so invariants replace an induction over the
  list. They give `ServedExactlyAgreed`, `NothingLeftOut` and `FlagsOfAllEntries`
  for every list and every order that sorting may leave.

Only model-checked: the liveness properties (`EveryCallReturns`,
`EditIsServedOrShown`, `HandoversFollowed`, `TriggerIsServed`, `StopReturns`,
`StaleIsNoticed`), since fairness and ENABLED are beyond the prover. For three of
them the safety half is proved: whoever has the mutex advances (`HolderAdvances`),
the current list always verifies (`NeverLockedOut`), and what is declared is the
last file that loaded (`DeclaredIsLastGood`); what TLC adds is that the steps are
taken. `NamedByFirstEntry` is only model-checked too.

## Also observed

Disagreements met while modelling that have no run of their own:

* `manager.go` says of a failed save that the next cycle retries persistence. A
  cycle saves only when it differs from the snapshot in memory, so an unchanged
  cycle does not. This is why `StoredIsServed` does not speak of the time between
  a failed save and the next one (`behind`).
* A snapshot is saved before its events are emitted. After a crash in between,
  the restarted process finds nothing changed and never emits them, although the
  repository's README says every anchor-set change emits an event. This is why
  `EventsTellServed` is checked and proved without crashes.
* `POST /v1/refresh` reports a snapshot after the mutex is released; an approval
  or another refresh may already have replaced it.
* An admin refresh may install a list with an earlier `NextUpdate` while the loop
  sleeps; the loop still wakes for the date it read. This is why
  `NextUpdateHonored` speaks of that date.
* `Refresh` detaches from the context it is called with, so a cycle of the loop that
  waits for the mutex when `Stop` is called still runs, to its end.
* `TriggerRefresh` has no caller in the repository: the admin route runs a cycle
  itself. The channel is modelled as it is offered.
* The kind of key by which the default bundle is selected is a field of the anchor
  and not in the content id. It is empty in a snapshot that an older version
  persisted, where it counts as common: when the territory is downloaded again, a
  certificate with an uncommon key leaves the default bundle under the same entity
  tag. `Serving` assumes that all anchors have the field (`KeysKnown`).
* The JSON bundle also has qualifiers and the time a status began, which are not in
  the content id either; `CachedJSONIsCurrent` is about the fields that are.
* A certificate that two entries list under different admitted types is served
  under the type of the entry that comes first by name (`NamedByFirstEntry`); with
  equal names, of either.
* The content id leaves out the name of a declared anchor, so the JSON bundle of
  a renamed declaration is answered with 304.
* `Refresh` loads the declared anchors twice, first to reconcile them and then in
  the cycle. An edit between the two is served, and the answer of the refresh
  reports the outcome of the first load: declared unchanged.
* The repository's README calls a metadata-only edit of the declared file
  "silently a no-op". A cycle that succeeds serves the new name (as `tspName`);
  the content id leaves it out, so it is not saved for that and no event tells of it.
* One expired certificate in the declared file refuses the whole file, so from
  then on the last good set is carried over, the expired certificate included,
  and no other edit takes effect until the entry is removed. `DeclaredIsLastGood`
  and `EditIsServedOrShown` are stated accordingly.
* A territory whose list is confirmed by its `.sha2` keeps the anchors extracted
  when it was downloaded. After a restart with other accepted types or statuses
  it keeps them until the list changes or becomes stale.
* When entries of one certificate are merged, an empty set of uses means all
  uses, so the union with another set narrows it.

## Not modelled

* Configuration is read once and becomes the constants of the models.
* XML and ASN.1 decoding are parsers over unbounded input; the models start from
  decoded lists and from certificates that are parsed, held, refused or not base64.
* Several instances on one store. An instance reads the store only when it starts,
  so each serves what the models say of one; which snapshot, and at the first start
  which seed, the store ends up with is decided by who writes last.
* A request to the object store that fails and is carried out after the next save
  has succeeded. The store would then hold the older snapshot, whole, until the
  save after that; the models let a failed request take effect at once or never.
* A list of the lists that drops a territory and takes it back later is modelled;
  that the territory's list then has no lower bound on its sequence number is what
  the code does, and `SequencesNeverRegress` is stated for territories that stay.
* The fetcher's allow list, size and time limits are reasons for a request to
  fail and are not told apart.
* Routing and authorisation are a static table and one test per request.
* The database's procedures are an insert and a select of the newest row.
* Counters, logging, the other events, the health and snapshot endpoints and the
  comparison with the Official Journal reference only read state.
* Power failures: a crash ends the process and keeps what the kernel was given.

# Dotmac Cloud: a verification project

TLA+ models of the Dotmac Cloud assembly (`src/src/dotmac_cloud`), model-checked
with TLC on small instances, and theorems about them proved with TLAPS for every
value of the constants. Paths below are relative to the repository.

## The system

Cloud is an assembly: it owns almost no domain logic and a lot of seams. Its own
code is the adapter that hands Subscriptions' rated obligations to Billing, the
receipt ledger that is the evidence of it, the reconciliation that reads that
evidence, the tenant-scoped transaction they run in, the gate that says whether
the composition is complete, and the wiring of foreign migration lineages.
`dotmac_kernel`, `dotmac_billing` and `dotmac_subscriptions` are installed
distributions whose source is not here; they are modelled from how this code
uses them, and marked external.

| component | state | operations | what makes it correct |
|---|---|---|---|
| `adapters/subscriptions_to_billing.py` | none of its own: writes Billing's obligations, Cloud's receipts and Subscriptions' acknowledgements in the caller's transaction | `drain_rated_obligations`, `apply_rated_obligation`, `to_command` | a charge, its receipt and its acknowledgement appear together; one verdict per fact version; every offered output is handed over |
| `receipts.py` | none (pure) | `reconcile`, `_latest_by_key`, `repairable_by_redelivery` | the report is what the newest receipts say, whatever order they come in; a loop that acts on it ends, and what it calls settled stays settled |
| `receipt_store.py`, `models.py`, `ca_0001_adapter_receipts.py` | `cloud_adapter_receipts` and the kernel's idempotency records | `append`, `receipts_for` | append-only, one row per exact fact and tenant, a row iff a record, no tenant sees another's |
| `database.py`, `runtime.py` | a connection pool, a transaction-local tenant scope | `install_runtime`, `tenant_session`, `dispose`, `close` | the scope dies with the transaction; a connection always returns to its pool; an outage of the server ends with it; close releases everything |
| `composition.py`, `__main__.py`, `cloud_v1_bom.json` | none (pure) | `load_manifest`, `evaluate`, `require_production_ready` | ready only when every component is released and composed |
| `migration_lineages.py`, `migration_bindings.py`, `module_planes.py`, `alembic/env.py` | the revision graph of one migration process; heads and schema in the database | `compose_lineages`, upgrade online and `--sql`, downgrade | nothing is applied without what it depends on, at any step of overlapping runs; no lineage is silently missing |
| `scripts/check_poetry_toolchain.py` | none | a textual comparison of pinned versions | out of scope: no state, no concurrency |

Interactions: a caller opens `tenant_session`, builds a `SqlAlchemyReceiptLedger`
on it and calls `drain_rated_obligations` with two ports (`tax_for`,
`resolve_billing_account`). Everything is synchronous; concurrency comes from
several callers draining the same tenant, and meets in PostgreSQL's unique keys
and row locks. No scheduler, transport or retry loop is composed
(ADR-0004): a drain that fails is simply run again by someone.

What is hard here: overlapping drains of one tenant, an exception in the middle
of a batch, a verdict that changes between two drains, a record looked up before
it is written, a pooled connection that outlives its tenant or its server, two
deployments that migrate one database at once. The list with
source lines is `hazards` in `PROJECT.json`.

## Modules

| module | role |
|---|---|
| `ReceiptEvidence` | facts, receipts, the idempotency key and what conflicts with what; extended by the modules about receipts |
| `HandoffPromise` | abstract hand-off: a batch of facts is settled in one step, each once and for good |
| `RatedHandoff` | detailed hand-off: drainers, their pending writes, lock waits, commits and rollbacks |
| `RatedHandoffProofs`, `HandoffPromiseProofs` | its invariants and its ledger, what an acknowledgement vouches for, and that ordered drains do not deadlock; the promise, what it is enough for, and the refinement |
| `ReceiptLedger` | abstract ledger: evidence of one tenant is added, never changed |
| `ReceiptStore`, `ReceiptStoreProofs` | detailed ledger: sessions on a pool, scope, policy, row and record; its theorems |
| `Reconcile`, `ReconcileProofs` | the reconciliation, one receipt and one fact at a time; its theorems |
| `RepairLoop`, `RepairLoopProofs` | owner, adapter and auditors around `Reconcile`: lost and repeated deliveries, reports and repairs; its theorems |
| `Composition`, `CompositionProofs` | manifest, report and production gate; its theorems |
| `Prerequisites` | what revisions need and where the kernel supplies it: bindings, `depends_on`, plane selections |
| `SchemaPromise` | abstract migration: the database goes from one whole schema to another |
| `Lineages`, `LineagesProofs` | `env.py`, its revision graph and the revisions, run by overlapping migrators; its theorems |
| `Runtime`, `RuntimeProofs` | the installed process: its pool, its sessions, restarts of the server, `close`; its theorems |
| `MCRatedHandoff`, `MCReceiptStore`, `MCReconcile`, `MCRepairLoop`, `MCComposition`, `MCLineages`, `MCRuntime` | instances for TLC |

`RatedHandoff` and `ReceiptStore` look at the same ledger from two sides. The
hand-off has one tenant, whose ledger and session agree, and folds execute_once
into one step, because its subject is what three owners' tables say together.
The store takes execute_once apart (look up, insert, record), adds the tenants,
the connection pool and what a caller hears, and forgets Billing. Both are shown
to implement the same `ReceiptLedger`, and `RepairLoop` builds on just that:
receipts of one exact fact are unique and are only ever added.

A few definitions in the detailed modules are variants of the one that follows
them and are headed "Mutation of": each is that definition with a plausible
defect, kept to show that a property would notice it. No specification uses them.

### RatedHandoff

`offer` is what Subscriptions currently publishes per occurrence (generation,
fingerprint, acknowledged). `ports` is the first thing the caller's ports and
Billing's rules would say of an output now: an account, or one of the four
objections the code distinguishes. `obligations` and `receipts` are the committed
rows; an obligation has a key and an account, since `to_command` passes Billing no
publisher fingerprint, and the account stands for all that Billing compares beside
the key. Each drainer has a place in its drain (`pc`, `todo`, `output`, `answer`)
and its uncommitted writes (`newObligations`, `newReceipts`, `newAcks`).

| action | code |
|---|---|
| `Begin` | `tenant_session` is entered and `unacknowledged_outputs(limit)` read |
| `Evaluate` | `tax_for`, `_fact`, `resolve_billing_account`, `to_command` |
| `TaxRaises` | `TaxOutcome.__post_init__` raises inside `tax_for`, outside every `try` |
| `Accept`, `RuleOut`, `BillingConflict` | `accept_rated_obligation`: written or replayed, refused by a rule (caught), or in conflict (not caught) |
| `Append`, `AppendConflict` | `ledger.append`: written or replayed, or `IdempotencyConflict` |
| `Acknowledge` | `acknowledge_output` |
| `Commit`, `Fail`, `GiveUp` | the end of `tenant_session`: success, an exception anywhere, a waiting statement that fails |

A statement that meets another transaction's uncommitted row of the same key
waits (`WaitsFor`); after the wait it decides from what is committed. `GiveUp`
covers the other outcomes of a wait (deadlock victim, timeout, an insert that
lost its race and raises), which all leave through the same rollback.

### ReceiptStore

`rows` and `records` are the committed receipt table and the kernel's
idempotency records. Each connection has a `scope` (`app.current_tenant`), each
caller a connection, a task (session tenant, ledger tenant, receipts), its
pending writes, the `evidence` it read back, and what it `heard`.

| action | code |
|---|---|
| `Begin`, `Checkout`, `SetScope` | `tenant_session`: a new session, a pooled connection, `set_config(..., true)` |
| `Replay`, `Conflict`, `Execute` | `execute_once` finds the key with the same request, with another one, or not at all |
| `WriteRow`, `WriteRefused`, `WriteRaced` | `_write`: the flush inserts, meets the policy's `WITH CHECK`, or meets the unique key |
| `WriteRecord` | the kernel records the key |
| `ReadEvidence` | `receipts_for` |
| `Commit`, `CommitUnheard` | the block ends normally; the connection is lost after the commit and before its answer |
| `Fail`, `GiveUp` | an exception anywhere; a waiting insert that is ended |

### Reconcile and Composition

`Fold` is one turn of the loop in `_latest_by_key`, `Classify` one turn of the
loop in `reconcile`; the four lists of a report are the published facts of each
verdict. `ReadRoot`, `LoadComponent`, `FinishLoading`, `EvaluateComponent`, `Report`
and `Gate` are what `load_manifest` asks of the root (readable, schema 1, components),
its loop, its checks of the whole, the loop of `evaluate`, the report and `require_production_ready`. A declaration is reduced
to what the code decides on: readable, availability, activation, whether the
release evidence is absent, valid or wrong, and whether a blocker is given.

### RepairLoop

The owner's `current` facts and all `outputs` it ever gave out; the adapter's
`ledger`; for each auditor the two arguments of `reconcile` it has read, its
report and what it still has to redeliver.

| action | code |
|---|---|
| `Publish`, `Republish` | the owner: a new version; the defect `DivergentFact` names |
| `Deliver` | the adapter handles any output, however late or often, in one transaction |
| `ReadPublished`, `ReadReceipts` | the two arguments, read at different moments; the owner's read may lag |
| `Audit` | `reconcile` in one step: `Reconcile!Judge` of each published fact, which the theorem `ReportIsOfTheSet` shows to be what its loops compute |
| `Redeliver`, `Lose` | what `repairable_by_redelivery` names is delivered again, or is not |

The repository composes no auditor; it stands for any caller that does what the
docstrings of the report allow.

### Lineages

`applied` is the committed database: how far each lineage has been applied.
Every migrator runs with the distributions of one `release`, and keeps what
`env.py` has installed so far (`bound`, `selected`, `locations`), the heads it
read and the heads as its transaction leaves them (`work`). Lineages are chains.

| action | code |
|---|---|
| `Redeploy`, `Start` | other distributions are installed; alembic is called with `upgrade heads`, the same with `--sql`, or `downgrade <lineage>@base` |
| `InstallBindings`, `SelectPlanes` | `install_prerequisite_bindings`, `install_module_plane_selections` |
| `ComposeLineages`, `LineageMissing` | `compose_lineages`, or the `ModuleNotFoundError` of `_locations` |
| `Connect`, `Refuse` | the graph is built and the heads are read; or a revision does not load, does not resolve or is not located |
| `Upgrade`, `Downgrade` | one revision of the walk, in dependency order |
| `Clash`, `Deadlock` | another migrator committed the same revision first; PostgreSQL ends a cycle of waits |
| `Commit`, `Fail` | the single transaction of the run ends; no URL, no server, an exception or a crash |

`Rank` stands for the order of Alembic's walk where dependencies leave it open.
What a revision does is reduced to the kernel effects other revisions need
(`WholeAt` says from which kernel revision each is whole).

### Runtime

A connection is the number of the server start it was made in. The pool is the
queue of idle ones and the count of those taken out; each worker holds at most
one; `orphans` are those returned to a pool that `dispose` has replaced.

| action | code |
|---|---|
| `Install` | `install_runtime`, given a PostgreSQL URL; any other raises and leaves nothing behind |
| `Begin`, `Checkout`, `Unreachable`, `TimeOut` | `tenant_session` is entered and a connection taken, pinged first |
| `SetScope`, `Commit`, `Raise`, `Lose` | the transaction and its ends; `Lose` meets a dead connection |
| `Close`, `Collect` | `CloudRuntime.close`; the forgotten pool is collected |
| `StopServer`, `StartServer` | PostgreSQL restarts |

### What is assumed of the external packages

Taken from how the adapter, its docs and its integration tests use them:

- Billing's identity is source fact and version; a different request of that
  identity is a `BillingConflict`, an equal one a replay.
- `acknowledge_output` is idempotent and acknowledges whatever generation the
  occurrence currently has; only the current generation is offered. Because the
  acknowledgement names no generation, `AckedIffApplied` and `KeepsThePromise`
  are checked and proved under the assumption that an occurrence is not re-rated
  while a drainer works on it. `Disturbances` makes that explicit ("race"); the
  other safety properties are checked and proved without it. What is left of
  the acknowledgement then is `AcknowledgedWasCharged`: some generation of the
  occurrence was charged, though perhaps not the one that is acknowledged.
- The kernel's idempotency records live in the same transaction and under the
  same tenant scope as the receipts (docs/ARCHITECTURE.md:163-165), and
  `execute_once` runs its callback before it records the key. When another
  session wins the insert, the kernel may raise or look again: both are modelled.
- SQLAlchemy's pool gives a connection to one session at a time and serves its
  waiters in turn; leaving the session returns it, rolled back. A pre-ping that
  fails replaces the connection; `dispose` closes idle connections and starts a
  new pool, and connections taken from the old one are closed with it
  when they are back.
- Alembic builds its revision map when the run needs it, from the live
  `ScriptDirectory`; it runs a revision when its ancestors and what it depends on
  are applied, refuses heads it cannot locate, and takes dependents with what is
  unwound. The kernel refuses to load a revision whose plane is not selected or
  whose effect is not bound.
- PostgreSQL runs a migration in one transaction; the second of two runs that
  change one lineage waits for the first and then fails on what it committed.

## Runs

| run | question | bounds |
|---|---|---|
| `handoff_one_output` | do charges, receipts and keys stay consistent, and was what is acknowledged charged, when everything that can change does? | 1 occurrence, 2 drainers, 2 accounts and all objections, 2 fingerprints, 2 generations, 1 lost transaction; re-linking, re-publishing and racing re-ratings all allowed |
| `handoff_batches` | does a batch settle in one step, seen from outside; can drains that read in one order deadlock; is every offer handed over? | 2 occurrences read in one order, 2 drainers, stable answers, a window that holds all, 2 generations, 1 lost transaction |
| `store_sessions` | is the store an append-only ledger of isolated tenants, is what a caller hears true, and is a caller that tries again answered? | 2 callers, 2 connections, 5 tasks that overlap, disagree, belong to another tenant or use the wrong ledger, 2 faults |
| `reconcile` | is each verdict what the evidence says, and the report one of the set of receipts, whatever their order? | all inputs of up to 2 published facts and 3 receipts, 2 keys, 2 versions, 2 fingerprints, valid evidence or not |
| `composition` | does the gate open on adopted manifests only, and is every refusal for a cause that is there? | every root with all declarations, and all hand-built tuples, of up to 2 components |
| `repair_loop` | is a report true for good, and does repair end? | 1 subject, 2 versions, 2 contents of a version, 1 auditor, any delivery any number of times, lagging reads |
| `lineages_overlap` | is every applied revision supported, at every step, and is success whole? | 2 migrators, 5 releases (two sound ones, a missing module, an older kernel, an effect nobody binds), upgrades, scripts and three unwindings, 1 redeployment, 1 fault |
| `lineages_steady` | is a sound release installed in the end, and do migrators of one walk stay clear of deadlock? | the same releases, upgrades and unwinding of the foundation |
| `runtime` | whom does an outage harm, does the pool keep its limit, does nobody wait in vain, does every session end, does close release everything? | 3 workers, a pool of 1 and an overflow of 1, 1 restart of the server, 1 close |
| `refusal_repair`, `incoherent_tax`, `window_starvation` | see Findings | 1 drainer, 1 or 2 occurrences |

Why the bounds are enough to be interesting: two drainers and two outputs are the
least that overlap in part and can wait for one another in opposite orders;
a second generation is the least that separates "this output" from "this
version of it"; one fault can hit between any two steps. Three workers and room
for two leave someone waiting for a connection (in `store_sessions` nobody needs
to). Three receipts are enough for every way the receipts of one key can be
late, early, superseded or contradictory; two versions and two contents for every
verdict a report can give. The kernel's chain is modelled at its real length,
since the bindings name revisions of it, and the lineage runs use the walk that
comes to the kernel last unless a dependency forbids it, the worst one for
what depends on it. Every safety property is also proved, so for these the bounds
only decide how soon a mistake would be found. The proofs leave the order of a
drain's reads and of the walk open, but for the two about deadlock, which need
them to be one order for everybody.

`reconcile` and `composition` end, so deadlock is not checked there; every other
passing run checks it. Symmetry of the drainers and of the migrators is used in
`handoff_one_output` and `lineages_overlap`, never together with liveness.

### Fairness

Nothing in the repository schedules a drain or repeats a session (ADR-0004:
no scheduler or transport is composed). The liveness runs therefore say what
holds *if* someone keeps calling:

- `RatedHandoff!Fairness`: `Begin` weakly fair (callers keep draining),
  `DrainStep` strongly fair (the code between two statements is straight-line,
  and PostgreSQL grants a lock wait in queue order, so a statement that is
  runnable again and again runs). `Fail` and `GiveUp` have no fairness.
- `ReceiptStore!Fairness`: `Step` weakly fair, `Checkout` strongly fair (the pool
  serves its waiters in turn), `Retry` weakly fair (a caller that heard an error
  runs the same task again). `ReadEvidence` is optional.

- `RepairLoop!Fairness`: auditors read and audit (weakly fair), an owner's read
  that lags is current again and again, and a redelivery that is tried again and
  again is recorded (strongly fair). Nothing is assumed of the owner's own
  deliveries: `Deliver` may never happen, and a repair may be lost any finite
  number of times in a row.
- `Lineages!Fairness`: `upgrade heads` is asked for again and again, `Install`
  weakly fair (straight-line code), `Perform` strongly fair (lock waits are
  granted). `lineages_steady` assumes one order of the walk (`OneWalk`), as one
  installed Alembic has: migrators that walk in different orders can be one
  another's deadlock victims for ever. In `lineages_overlap` two lineages tie, so
  `Deadlock` does happen there.
- `Runtime!Fairness`: `Step` weakly fair (blocks end), `Checkout` strongly fair
  (the pool serves its waiters in turn), `Collect` weakly fair. The server need
  not come back and a wait need not time out.

`handoff_batches` assumes stable answers and a window that holds every
unacknowledged output. Neither is decoration: the findings below are what
happens without one or the other.

## Findings

Three places where the code does not do what its documents say, each a run
that TLC refutes under fair scheduling, with one drainer, so without any race:

- `refusal_repair`: a refusal spends the fact's idempotency key. Link the account
  afterwards and every drain appends `APPLIED` under the same key with another
  fingerprint: `IdempotencyConflict`, rollback, for ever. "Remains visible for
  repair" is true, the repair is not possible short of a re-rating. Since
  `drain_rated_obligations` catches nothing, healthy outputs in the same window
  are rolled back with it, every time.
- `incoherent_tax`: a tax decision no `TaxOutcome` can express raises in
  `tax_for`, outside the `try` of `apply_rated_obligation`; no `REFUSED`
  receipt is written although ARCHITECTURE.md says such tax is refused.
- `window_starvation`: refused outputs are never acknowledged and the window has
  no cursor, so `limit` of them fill every window. This needs a read order in
  which they come first; the order is Subscriptions' own and is assumed fixed.

## Proofs

All theorems hold for every value of the constants that satisfies the `ASSUME`
of the module: any number of drainers, occurrences, callers, tenants and
connections, inputs of any length.

**Hand-off** (`RatedHandoffProofs`). `TypeCorrect`, then `ChargesMatchEvidence`
and `VerdictsAreUnique`, which are not inductive: the committed tables only
stay consistent because of what the drainers hold. `PendingIsBacked` says that in what a
drainer sees an applied receipt and its charge back each other, except in
the one place between `Accept` and `Append`; `KeysHeldOnce` says that no key is
held by two drainers or by one that sees it spent, which is what waiting on
uncommitted rows buys. `IInv` is the conjunction, and each commit moves a
consistent set into a consistent table (`CommitBacked`, `HeldOncePublish`).

`AcknowledgementsWereCharged` holds even when an occurrence is re-rated under a
running drain: a drainer acknowledges only after it saw a charge of the
occurrence, and charges and acknowledgements commit together.
`LedgerRefinement` shows that the receipts are one tenant's `ReceiptLedger`: a
commit adds evidence of facts that had none.

**No deadlock between drains** (`RatedHandoffProofs`). If `Rank` orders all outputs
and is bounded, `NoDeadlock` proves `NoWaitCycle` for any number of drainers.
`LocksInOrder` says that what a drainer has locked is behind the output it works on;
so of any set of drainers, the one that works on the highest rank (and furthest
into it) waits for none of the others.

**Acknowledgements and refinement** (`HandoffPromiseProofs`), without "race".
`AckInv` strengthens `AckedIffApplied`: what a drainer works on is the current
generation, no receipt is ahead of it, and a drainer's acknowledgements are
exactly the charges it sees. With it `CommitSettles` shows that `Commit` is a
`Settle` of `HandoffPromise`, every publishing step a `Publish`, and every
other step a stutter: `Refinement` is `Spec => Promise!Spec`. `PromiseIsEnough`
shows that the abstract specification is strong enough to be worth implementing:
whatever keeps the promise has `ChargeMatchesEvidence`, `OneVerdictPerFact` and
`AckedIffApplied`.

**Store** (`ReceiptStoreProofs`). `Invariance` proves `IInv`: a connection has one
holder, a scoped session's connection carries its tenant, pending rows belong
to the session's own tenant, are new to the table and held by nobody else, and
pending records trail pending rows by the one in flight. From it follow
`RowsAndRecords`, `PoolStaysClean`, `EvidenceStaysOwn` (row level security even
for a ledger of another tenant), `DoneIsDurable`, and `Refinement` to
`ReceiptLedger`. `AnswersAreTrue`: a caller that hears of a conflict did contradict
committed evidence or itself, even if its last success was never heard.
`LedgerIsEnough`: whatever implements `ReceiptLedger` has one entry per exact
fact and only ever appends.

**Reconciliation** (`ReconcileProofs`). The loop invariant `LatestIsFirstNewest`
says the dictionary holds the first of the newest receipts of each key; with
what the second loop has judged so far it is `IInv`. On the
evidence of one ledger, where a key and version occur once, each verdict has
its meaning and no other verdict fits (`VerdictsJust`), and the report of the two
loops is a function of the sets of published facts and receipts
(`ReportIsOfTheSet`): no order of the receipts can change it. Without that
hypothesis it would not hold: of two receipts that disagree on one version the
first decides, and `settled` and `converged` do not look at the other. That no
such pair is ever written is the ledger's part (`KeepsTheLedger`).
`ConvergedIsSound` needs no such premise.

**Gate** (`CompositionProofs`). `LoopInv` says what the two loops have established
about the components they have taken; `GateSound`, `ReportComplete` and
`RefusalsHaveCause` are its readings at the end. `Invariance` is the conjunction
of all this; the run checks the readings, not the conjunction.

**Repair** (`RepairLoopProofs`). `IInv` says that the ledger, and each auditor's old
copy of it, is faithful: one receipt per exact fact, each going back to something
the owner gave out. Since evidence only grows, a settled verdict on an old copy
holds of the present one (`SettledForGood`), a divergent one shows two contents
of one version (`DivergenceIsADefect`), and `NeverHeals` is the action property.
`LedgerRefinement` shows that the loop uses the ledger as `ReceiptLedger` says,
and so assumes no more of it than the store and the hand-off are shown to give.

**Migration** (`LineagesProofs`). `SchemaStaysSupported` is not inductive: the
committed schema stays supported because of what running migrators hold.
`IInv` says that unwinding is done alone, a run has the whole graph, its work
supports itself, an upgrade only adds to lineages nobody has committed since it
read them, and no lineage is held twice. A commit then joins two supported
schemas into one. `SuccessWhole` and `Refinement` (to `SchemaPromise`) follow. The
theorems hold for every set of releases and declared needs and every `Rank`; only
the bindings themselves are this repository's.

**No deadlock between migrators** (`LineagesProofs`). `NobodyIsStuck`: if everybody
walks in one order (`OneWalk`), no set of migrators waits in a cycle, whatever releases they have.
Locks are not taken in rank order, since a dependency can put a lineage of a
higher rank first. `TakenInOrder` says what does hold: a lineage in a migrator's
hands had its turn before every lineage of lower priority that the heads the
migrator read already allowed. With it the rank rises along every wait
(`WaitsRise`), and the lineages are finitely many, so one of any set waits for
nobody in it (`SomeIsLast`).

**Runtime** (`RuntimeProofs`). `IInv` joins the type, the pool's count and the
waiters: the engine's pool never has more connections than it and its overflow allow
(`PoolKeepsItsLimit`), and whoever waits for a connection waits for a session
in flight that will give one back (`WaitersAreServed`), after an outage and after a
close too. What carries `OutagesEnd` is `HeldIsFresh`: no session was
begun in a later start of the server than
its connection was made in, because `Checkout` pings, and starts only grow. A
session begun in the present start therefore has a connection of that start,
which only a stop of the server can lose.

Only model-checked: the liveness properties (`EveryOfferIsHandedOver`,
`EveryCallerIsAnswered`, `LostIsDelivered`, `RepairEnds`,
`SoundReleaseIsInstalled`, `EverySessionEnds`, `CloseReleases`): fairness and
ENABLED are beyond the prover.

## Not modelled

- A re-rating between the read of an output and its acknowledgement, as far as
  `AckedIffApplied` and the promise go: `acknowledge_output` is not told the
  generation, so this repository cannot exclude that a generation nobody charged
  is acknowledged. Whether Subscriptions does is not known here. With such races
  (`handoff_one_output`) only `AcknowledgedWasCharged` is claimed.
- `to_command` field by field, money and currency arithmetic, digests (modelled by
  what they compare), column widths.
- What a version that was lost after an earlier one had arrived needs:
  `repairable_by_redelivery` names missing facts only, so a stale subject stays
  stale until its owner publishes again. `LostIsDelivered` therefore promises
  some version, not the current one.
- Unwinding one lineage while another migrator runs: CI does it alone.
- What revisions do to their tables beyond the effects others need; foreign
  revisions that branch.
- The text of the report `__main__.py` prints.
- `check_poetry_toolchain.py`, CI and packaging: textual comparison, without state.

## Plan

Done: the hand-off, its promise and its lock order, the ledger under it, the
reconciliation and the repair loop over it, the gate, the migration lineages, the
runtime. What is left, in this order:

1. Unwinding under a running migrator, and lineages that branch.
2. The repair loop over several owners of colliding references.

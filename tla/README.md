# Orbital Economy Intelligence: TLA+ models and proofs

The repository turns public space catalogues (CelesTrak SATCAT and GP, Jonathan McDowell's
GCAT, UCS, Space-Track, FCC filings) into one identity graph with claims, resolved attributes
and benchmarks, rebuilt every night and served by a FastAPI application. Most of its code is SQL
and parsing, covered by the test suite. What tests hardly reach is what happens when two builds,
two loads or two requests overlap, when a night fails half-way, and over long sequences of legal
snapshots. That is what these modules are about.

Files: `X.tla` is a model, `MCX.tla` its model-checking instance, `X*.cfg` the TLC
configurations, `X_proofs.tla` the theorems about it. `PROJECT.json` lists the runs, the mutated
definition each property rejects, the source lines of every definition, the hazards and the
theorems. Definitions marked "Faulty form" in a module are those mutations; no specification
uses them.

    tlc -workers 2 -config ClaimLedger.cfg MCClaimLedger
    tlapm ClaimLedger_proofs.tla

## 1. The system

| Component | State it keeps | Operations | Hard behaviour |
|---|---|---|---|
| Loaders (`ingest/*`), run ledger (`ingest/runlog.py`) | `ingest_run`, `raw_*` snapshots | start_run, land, finish_run, the freshness gate | loads overlap, die, land out of order |
| Graph build (`scripts/build_graph.py`) | one transaction over everything below | seed, enrich, match, promote, churn, claims, resolve, commit | a failure in any phase; loads finishing in mid-build |
| Identity matcher (`identity/match.py`) | `satellite`, `satellite_identifier`, `merge_log` | NORAD, piece and fuzzy passes | keys that change owner between snapshots |
| Merge and promotion (`identity/merge.py`, `reconcile.py`) | the same, and every child table | link, revive, merge, promote | collisions, candidates computed before merges |
| Churn ledger (`identity/churn.py`) | `catalog_key_churn`, `anchor_state`, `valid_to` | detect, refresh, expire moved, expire contested | passes that undo each other night after night |
| Claim ledger (`identity/claims.py`) | `claim`, `claim_progress` | record a run, refuse a run | overlapping builds, stale reads, validity ranges |
| Resolver, enrichment (`identity/resolve.py`, `enrich_operators.py`) | resolved columns, `satellite_operator`, `operator` | pick by precedence, SCD2 owners | rows never retracted, rows moved by merges |
| Bus attribution (`identity/bus.py`) | `satellite_bus`, slug aliases, monthly benchmarks | rebuild, freeze a month | permanence of published URLs |
| Space-Track top-up (`scripts/spacetrack_topup.py`, client, backfill) | `spacetrack_cursor`, `gp_elements`, a session lock | window, batches, retries, cursor | late publication, crashes, reruns, request caps |
| Retention (`scripts/prune_snapshots.py`) | `raw_*` rows | drop runs, compact | racing a loader, starving a reader |
| Nightly (`deploy/nightly-refresh.sh`) | none | the steps above, each soft-failing | mixtures after a failed step |
| Warm cache (`api/cache.py`) | one payload per endpoint | get, refresh, loop | thread interleavings, a hanging database |
| API, MCP, web UI | request-local; candidate cache; `useApi` hook state | reads, one write (gold verdict) | stale answers |
| Gold review (`build_gold_queue.py`, `review.py`, `api/routers/review.py`) | `gold_case`, `verdicts.jsonl` | select, upsert, label, import | a verdict and its file, stale sessions |
| Filing harvest and specs (`fetch_filing_documents.py`, `extract_filing_specs.py`) | documents, blobs, specs | weekly harvest, extraction | gates conferred by partial runs |

They interact through PostgreSQL only. Loaders publish a snapshot by finishing its run `ok`; the
build reads the newest `ok` run of each feed, several times, at READ COMMITTED, and publishes by
its one commit; the API reads committed state and keeps some of it in memory. Locks are advisory:
one per feed inside a build's transaction, one per top-up session.

What makes each correct: a recorded snapshot can be read back for ever and an ok run is
eventually recorded (claims); one object has one satellite and an identifier is where the newest
catalogue anchors it (identity); nothing behind the cursor is missing and nothing is downloaded
twice (top-up); what is served is whole, never goes back and catches up (cache); a run some
reader still needs is never dropped (retention); a verdict and its file agree (gold review).
`PROJECT.json` lists the components not modelled with the reason.

## 2. Claim ledger: `ClaimHistory`, `ClaimLedger`

`ClaimHistory` is the promise of docs/specs/assertion-model.md: as if every recorded run's full
snapshot were kept, in run order and never rewritten. `ClaimLedger` is the code for one feed
(feeds share nothing: every statement filters on `source`).

- Loader: `StartRun`, `BeginLanding` (`loaded_at` defaults to now(), the start of the landing
  transaction: the clock ticks there), `FinishOk`, `LoseRun` (error, or dead with status NULL).
- Build: `ReadLatest` (record_feed before the lock), `Lock` (advisory lock, progress read
  again, refusal), `Reconcile` (UPDATE and INSERT, uncommitted), `Commit` (much later; claims and
  progress together), `CommitRefused`, `Abort` (any failure; also what claim_range does).

`claims` is the committed table; a build's changes live in its `writer` record until the commit.
Snapshots are arbitrary sets of facts with one value per (key, attribute); runs that land no row
are in no raw table and cannot be named by `_latest_run`.

Properties: `HistoryFaithful`, `OneOpenClaim`, `ProgressIsNewest`, `LockedReadsStayTrue` (what
was read under the lock is true at the commit), `ObservedToIsLastObservation`,
`InRangeIfLandedInOrder`, `ClaimsOnlyMoveForward`, `ImplementsHistory` (refinement, with history
read back from validity ranges by `AsOf`), and under fairness `EventuallyRecorded`.

Bounds: two slots, two values, two builds, three runs. Three runs are the least in which a value
flips and returns and in which a claim is kept by one run between its opening and its closing;
two builds suffice for every race on one lock. The liveness run keeps two builds and three runs
and one fact. Deadlock is not checked: when all runs are over and recorded, nothing is left to do.

Fairness (`FairSpec`): strong fairness of each build step. The nightly repeats the build every
day and a failure at a step is not for ever; loaders are owed nothing.

Finding (`claim_ledger_overlap`): `claim_range` and "extra runs are safe" do not hold together.
The freshness gate sees only finished runs, so a pull by hand during the nightly's may land in
between; when the later run lands first and both finish ok, a claim can be opened with a time
later than the one it must be closed with, and the CHECK aborts that build and all later ones.

## 3. Identity graph: `IdentityGraph`

The build's identity phases over SATCAT and GCAT snapshots that `PublishSatcat` and
`PublishGcat` replace at any moment, so that two passes of one build may see different
snapshots. Phase by phase: `LinkSatcat`, `LinkGcat`, `ReadPieces`/`LinkPiece` (rows without a
NORAD, in any order: the query has no ORDER BY), `LinkFuzzy`, `ReadCandidates`/`Promote`,
`Detect`, `RefreshAnchors`, `ExpireMoved`, `ExpireContested`. A failed build rolls back and is a
stutter. `links` are the rows of `satellite_identifier`, `current` those with `valid_to` NULL:
re-linking revives, as `merge.link` and the bulk insert do. `Promote` leaves the name gate's answer open.

Left out: UCS (a seed that does not change), dates (all objects are of one launch), scores (a row
carries which object scores best), NORAD and name links, and the child tables `merge` repoints
(owner rows are in section 11).

Runs: `identity_siblings` (two siblings whose keys and pieces are re-assigned in every
combination: `AnchoredKeyHasOneHome`, `MovedKeyIsNeverOrphaned`), `identity_fresh` (a provisional
key renamed, catalogued, promoted: `AnchoredLosesOnlyToAnchor`; the module's `TypeOK` is
proved and no run checks it). Three snapshots are
enough for a key to move, be contested and be anchored again; a build that would create a fifth
satellite stops (`MaxSat`), which is why deadlock is not checked.

Finding (`identity_rebuild`): the build is not idempotent. The links of a renamed provisional key
are retired at the end of the build that made them; the next build over the same snapshots finds
no current link for its piece and creates the satellite again.

## 4. Space-Track top-up: `SpaceTrackTopup`

`gp_topup` with `run_backfill` and the client's retries, against a service that may publish an
element set up to `Delay` after its creation time. A worker record holds what the process has in
memory; `landed`, `cursor`, `lastOk` are committed state; `Crash` may happen anywhere and keeps
only that. `Count` is the commit of the cursor with the run's `ok`. A query may be broken for a
whole night and answer nothing (`query`), and rows of an answer may be stubs, which landing drops.

`NothingBehindCursorIsMissing` (for a fleet of at least EMPTY_WINDOW_MIN_IDS objects: smaller
fleets have no guard against a broken query, by the code's own choice), `WindowStartsAtCursor`
(what counted is never asked for again, even by a top-up that chose its window before another
one counted), `OneWindowADay`. Assumption on the service: `Delay <= Margin`, the purpose the code
gives PUBLICATION_MARGIN. Element sets answered as stub rows are excepted by name (`dropped`).

Bounds: two processes, two batches, one retry, one stub row, eleven moments, which is time for
three counted windows with failures between them. Time is discrete; margins keep their order.

Finding (`spacetrack_first_night`): "the cursor stays put, so nothing is lost" supposes a cursor.
Before the first window has counted the start of the window is `now - INITIAL_LOOKBACK`, so each
failed first night gives up a day.

## 5. Warm cache: `WarmCache`

Threads of `api/cache.py`. `_lock` is never held across a blocking call, so a block under it is
one step; `_refresh_lock` is `refreshing`. A payload is a sequence of queries, each seeing the
database version of its moment. `Fail` is any exception of the compute; a database that hangs is
a `Query` that is never taken.

Safety: `OneComputation`, `NoRedundantCompute`, `ServedNeverOlder`, `NoOlderThanAtStart`,
`ServedIsComplete`. Liveness under `ThreadFairness` (weak fairness of what a thread can always
do, strong fairness of getting a lock that keeps being freed: CPython hands a lock to some waiter,
and with finitely many requests each gets it): `WarmReadReturns` needs nothing of the
database; `ColdReadReturns` and `EventuallyCurrent` assume `DatabaseFairness` in the formula
itself. Two requests, the refresher, two queries and two versions are the least in which payloads
mix versions and a late compute could overwrite a newer one. The model never deadlocks.

## 6. Loaders: `IngestFeeds`

`scripts/ingest_all.py` runs the loaders one after the other on one connection; a loader can also
be run by hand on its own. Every loader opens a run (and commits), passes or fails the freshness
gate, downloads, parses, inserts, commits, and closes its run (and commits). Loaders differ in
which of these steps are inside their try block, in what they raise on, in the constraints of
their table and in what they say of a payload without rows: `Part` is the common shape, and one
record per loader (`SatcatPart` ... `DecayPart`) names the differences. A payload is one of ten
`Kinds`; `Outcomes` says what a loader may make of it: raise while parsing, raise between two
inserts, be refused by a constraint, land nothing, land all. `SatcatPart` parses outside its try
block and raises on a row longer than the header. `tx` is the transaction of the connection:
`clean`, `open` with inserted rows, or `aborted`. `SurviveFailure` is the rollback of `ingest_all`
after a loader raised.

`RunsAreWhole`: no run ever shows a part of its rows, an ok run has landed, and one closed as error
or skipped shows none. Most loaders roll back or abort by themselves when they fail. Those that can
leave inserted rows in an open transaction are the ones that land outside any try block: `ucs` and
`supgp`, whose rows carry the run's id, and `gp`, whose table has no run id, so that its rows are
nobody's snapshot (`rows = "elsewhere"`: the model says nothing of them). For the first two the
rollback of `ingest_all` is what keeps the next source's first commit from publishing a part.

Bounds: pairs of sources chosen to differ in where they raise and in what guards them, two runs
in the ledger. A row can leak only from a loader into the one after it, so pairs are enough.

## 7. Retention: `SnapshotRetention`

One `raw_*` table, as the set of runs whose rows it holds, next to the ledger. `RunsToDrop` is
`runs_to_drop`; a pruner is `LockTable` (compaction only), `ReadRuns`, then `DeleteRuns` or
`CopyKept` and `Rewrite`; `PruneAborts` is a lock timeout, an error or a crash. Loaders insert and
commit meanwhile; `Untouched` is when PostgreSQL grants ACCESS EXCLUSIVE.

`ReadersSeeTheSame`: the two newest ok runs (those `churn.detect` compares; every other reader
wants the newest) are those there would be without retention, and a run in flight keeps what it has
committed. `MonthlySampleKept`: so is the first ok run of each month, also when a run with a
smaller id finishes after it.

Bounds: two ledgers of five runs (one left open, one failed) and two more landed by two loaders,
two months, one nightly deletion and one compaction. At first KEEP_LATEST and the monthly sample
keep every ok run; the next that lands makes one droppable, and the last shifts the three newest again.

## 8. Filings: `ScheduleS`, `FilingSpecs`

`ScheduleS` has the parsers and the validator as operators over pages of lines `[label, value]`;
`FilingSpecs` the two weekly jobs around them: `HarvestNightly`/`HarvestByHand`, then `Start`,
`Fetch`, `RecordBlob`, `SaveSpecs`, `Finish` for each document of the to-do list, with `Raise` where
the database refuses a row and `Stop` anywhere. `Change` is the FCC: a document may fail, be
truncated, or be filed anew. `FormLines` are the lines of a filed form and `Paginate` cuts them into
pages of a length of its own. A plane is four lines; a band is one cell per line: its service label
in one line or more, two frequencies and a direction. Planes are read across pages; the expression
for a band is matched in the text of one page (`BandMatches`), and takes the last line of the label
and one more without a digit before it (`MatchedService`). A band that a page break splits is
therefore lost, and its label cut when the break is in the label. `IssuesAssumption` says what a
form holds; whether the database refuses what is read of an issue (`raises`) belongs to the issue.

- `ServedAsFiled`: what `GET /filings/{n}/spec` serves is what was filed in the issue it cites: the
  number of satellites, every plane with its own values wherever pages break; and exactly the bands
  that no break splits behind the last line of their label, in order, each with its own
  frequencies, direction and end of label, and the whole label if it is two lines that no break
  separates. Planes and bands are served only if the summary is validated, and each only if it is
  itself: the property says that validation drops nothing of this. A letter that is named like a
  report is never served as one. What a label takes in besides, the line above a label of one
  line, is not excluded: that is the code's behaviour (section 15).
- `OneReceipt`: summary, planes and bands of a filing come from one issue of a document, the one
  whose hash is on record. Two extractions at once can mix issues (`overlapped`): nothing keeps
  them apart.
- `ClosedGateMeansFullSweep`: while the gate of the extraction is closed, the run that closed it
  left nothing of the to-do list untried; runs scoped by `--file-number` or `--limit` do not close it.
- `EventuallyExtracted` (run `filing_live`): a linked filing whose report the gateway serves whole
  from some time on gets its specification, unless a document that the database refuses is served
  for it or for a filing before it on the list. Such a document ends each week's run at the same
  place and starves the filings behind it (`Raise`), so the formula's premise excludes it.

None of these says that a second document of a filing is tried once the first has given a
specification: the to-do list is per filing, and it is not.

Fairness (`FilingFairness`): weeks pass (WF), the nightly runs and takes its steps, `Raise` among
them (WF), and the portal answers for a filing again and again when it is asked again and again
(SF): without the last a harvest may fail for ever and nothing is owed.

Bounds: two filings, three documents (one a letter named like a report), issues with breaks inside
planes, inside a wrapped label and inside a band, one change at the gateway, one run by hand or
death. The liveness run has one filing behind another whose document is truncated, refused or a
letter at first, and whose own download may fail.

## 9. Gold review: `GoldSelection`, `GoldReview`

`GoldSelection` translates the eight selectors of `build_gold_queue.py` over a small graph:
which satellites become cases, how many, in which order; `GraphRows` is what the schema guarantees
of a graph. `GoldReview` is the table they fill
(`BuildQueue`: the upsert keeps ids and verdicts) and the reviewers: an API request is `ApiCheck`,
`RecordVerdict` (commit), `AppendLine`; a CLI session is `CliOpen` (its list is fetched once),
`CliSkip`, and the same two steps per case. A process may die between commit and line (`lost`). The
database may be lost and restored by `ImportVerdicts`.

`LockstepUnlessRaced`, `SkippingVisitsAll` (no unlabelled case is out of reach of GET /next),
`ChipAgreesWithReport`, `SampleIsSpread` (`EvenSpread`: mistyped objects evenly over the launch
decades; `EveryDealShown`: a case for each acquisition when there is room for all). Two reviewers, two verdicts and graphs that between them
give a case to every stratum; a race needs two reviewers and two verdicts, and no more.

Finding (`gold_lockstep`): two verdicts on one case may commit in one order and be appended in
the other, and then the file that is the gold set and the table disagree for good.

## 10. Backfill and pacing: `GpBackfill`, `RequestPacer`

`GpBackfill` is `run_backfill` over its grid of operator-months with the checkpoint file (the
top-up of section 4 has no checkpoint): batches, landing, SIGINT, failures, deaths, `--reset`,
overlapping runs whose copies of the file overwrite each other. `--until` is today or any other day,
one to come included. The service publishes the element sets of a day some time after it
(`Appear`), and a query may be answered with nothing or with stub rows that landing skips (`Land`).

`SkippedIsLanded` is what the file can promise. Of a unit in it, every element set that could be
queried when the unit was begun, of every object the operator owned when the run made its plan, has
been landed, or has been left out of an answer that asked for it (`withheld`), which nothing
notices. It does not say that a unit is complete: what becomes visible after the unit was begun, a
window with days still to come, and objects that join the operator later are checkpointed and not
asked for again (section 15).

Bounds: one operator with a subsidiary that grows into a second batch, two months and a window
that ends tomorrow, one set left out, two starts: a unit of two batches can be stopped between
them, and two runs can race on the file.

`RequestPacer` is one client: login, throttle, pacer, send, retry, in that order, over discrete
time; no time passes between a slot and its request. `PacedPerHour` counts what is sent. Bounds: an
hour of five ticks with two slots, two retries, thirteen ticks, time for two full windows and a
third. The cap is per process.

## 11. Owners: `OwnerResolution`

`enrich_operators.enrich`, the promotion of `reconcile.promote` as far as `merge` moves owner rows,
and the owner part of `resolve.resolve`, one `Build` a night in one transaction, between which the
snapshots of GCAT, UCS and SATCAT, organisations, pieces and launch dates change. A record is what
the catalogues' keys first made of one object; `home` is the satellite its keys identify now. The
precedence is that of precedence.yml, whose operator_seed publishes nothing yet. `Promotable` and
`Twins` are the candidates query; `Merged` is the two statements of `merge` on `satellite_operator`;
whether two names clear the gate is left open. Of two new codes with one name, a fixed one takes
it, where the code goes through them sorted.

`OwnershipIsOneTimeline`: a satellite's ownership periods follow each other without gap or overlap
up to the present, whoever bought whom, whatever the aliases came to mean and whichever records
were folded together, with one exception that the code makes. The resolver skips a satellite whose
claims match no alias before it deletes anything, so rows it kept for two records stay side by
side when the two are folded together, until the owner is resolved again. The property excepts
exactly those satellites (`mixed`); TLC reaches one with two open owners.

Bounds: an anchored satellite and a provisional record of the same object, four changes, an
acquired operator, organisations renamed to names already taken, a code that is another's name,
claims that match nothing. Four changes are enough for two records to get owners, for both owners
to be withdrawn, for the records to become twins and for an owner to come back.

Left out: decay date, status, names and object types, picks by precedence into one row or column;
keys that change satellites by the matcher or the churn (section 3).

## 12. One run for seven components: `MCScenes`

The components of sections 6 to 11 share PostgreSQL and nothing that their properties read. The
run `scenes` puts them in one specification: the variable `scene` names the component that takes its
steps in a behaviour, the others rest in one initial state. It checks exactly what seven separate
runs would check, and does not explore products of independent state spaces. The next-state
relations are those of the modules. Bounds stop each component, so deadlock is not checked.

## 13. Proofs

TLAPS proves, for every value of the constants that satisfies the modules' named assumptions
(`ConstantsAssumption`, `GoldAssumption`, `FilingAssumption` and so on: each is evaluated by the
runs), that each of these holds in every behaviour. Every proof has the same shape: an invariant
that is inductive, one lemma per action (or per group of actions with the same effect), and the
properties as consequences of the invariant.

- `ClaimLedger_proofs`: every safety property of section 2, the action property and the
  refinement. `HistoryFaithful` is not inductive: the invariant adds what each build holds
  (`LockedReadsStayTrue`), that claims open and close at recorded runs, and that published
  snapshots are final. `Commit`, the action that rewrites claims, has a lemma for each part it can
  disturb; the temporal refinement maps `FinishOk` to `Publish`, `Commit` to `Record`, and the rest
  to stutters.
- `IdentityGraph_proofs`: `TypeOK`, `AnchoredKeyHasOneHome`, `AnchoredLosesOnlyToAnchor` and
  `MovedKeyIsNeverOrphaned`. `GraphInv` says that satellites are numbered by the sequence and
  carry different NORAD numbers; that a candidate for promotion is provisional and has one
  anchored twin, and none is folded twice; that the anchor table is the newest catalogue's from its
  refresh to the commit; and that in a build no load interrupted every GCAT key sits, from the end
  of the piece pass on, on the satellite of the number GCAT gives it. The last part is the one that
  is hard to see in the code: it says that no later phase of the night undoes it.
- `SpaceTrackTopup_proofs`: all four properties. The invariant says that a top-up that has begun
  holds the lock, that its window runs from the cursor to a published past, and that the batches
  before its present one have landed the whole window.
- `Backfill_proofs`: `PacedPerHour`, because the pacer's queue is the end of the send history,
  what precedes it is an hour old, and no time passes between a slot and its request; `SkippedIsLanded`, because a run in mid-unit has
  accounted for the batches before its present one, of what could be queried when it took the
  unit up (landed, or left out of an answer), and every unit ever noted as done, in the file or in
  a run's copy, is accounted for.
- `Snapshots_proofs`: `ReadersSeeTheSame` and `MonthlySampleKept` (`RetentionInv`: what a pruner
  will drop is superfluous and stays so whatever is loaded meanwhile; under the lock a compaction's
  copy is the table), and `RunsAreWhole` of the loaders (`FeedInv`: a loader at work has an
  open run of its own, which has no rows before its landing and then those it read; only an
  exception leaves a transaction behind, and whoever goes on from it rolls back; rows of a loader
  without run ids are never a run's).
- `Answers_proofs`, the warm cache: its safety properties and `ServedNeverOlder`. The invariant
  says that who computes holds the lock, that its answers so far are no older than what is served
  and no newer than the database, and that the served payload is below the database version.
- `Answers_proofs`, owners: `OwnershipIsOneTimeline`. `OwnersInv` says that rows sit on satellites that
  still exist, that one that is not mixed has the rows of one timeline, and that a record is folded
  into an anchored satellite only, which stays; `MergedTimelines` that folding keeps a timeline where
  only one side had rows; `BuildKeepsTimelines` that what resolution then writes or leaves is one.
- `Answers_proofs`, the workbench:
  `LockstepUnlessRaced` and `ChipAgreesWithReport` (`GoldInv`: every reviewer between commit and
  line has a case of its own that shows its verdict, every other verdict is the last line of its
  case, and labelled cases are finitely many); `SkippingVisitsAll` and `SampleIsSpread` (`QueueInv`:
  cases are finitely many and ids differ). For the last two: going up from a case and, past the
  end, again from the start is a total order of the unlabelled cases in which `NextCase` takes the
  next (`AroundIsOrder`, `NextIsNextRound`); a round-robin is a prefix of the order by round, then
  group, so a group left with rows is at most one round behind (`RoundRobinIsEven`, for any pool,
  groups and target whose groups are ordered). Hence a deal left without a case leaves every other
  deal with one at most, and there are more cases than such deals (`DealsAreShown`).
- `Filing_proofs`, the tables: `OneReceipt` and `ClosedGateMeansFullSweep` (`FilingInv`: one
  extraction at a time never has in hand a document that a specification cites, and rows exist only
  with a specification).
- `Filing_proofs`, the parser, for every form and every page length: the lines of the pages, one
  after the other, are the lines of the form, each with a page that holds it (`Flattened`,
  `PageHolds`, `LinesOfForm`); after the four lines of plane q the reader has closed the q - 1
  planes before it and holds the q-th (`FourLines`, `PlanesRead`); bands are matched exactly
  where no page break splits them (`BandsParsed`), scalars found where they stand
  (`ScalarsParsed`); every value read passes the validator, so nothing is
  dropped (`IssueServed`); and two anchors are on a report's pages only (`OnlyReportsPass`).
- `ServedAsFiled` follows with two more invariants: every document a filing cites is stored with all
  the rows of the one issue cited (`Complete`), and only reports are parsed or cited (`ReportsOnly`).
- `NatFacts`: the facts about numbers, finite sets, orders and sequences that these share: least
  and greatest elements, induction in set form, numbering, ranks in a total order (`Ranked`,
  `FirstRanks`), and that a recurrence over 0..n has a solution (`Recurrence`). With
  induction in set form this stands in for induction over data: the recursive function exists, and
  its values are followed line by line.

The type invariants of sections 3, 7, 8, 10 and 11 (`TypeOK`, `RetentionTypeOK`, `FilingTypeOK`,
`PacerTypeOK`, `BackfillTypeOK`, `ResolutionTypeOK`) are theorems and not among the properties of the runs.

The assumptions are what the database's schema, the feeds' parsers and the FCC's form guarantee:
rows have numbers and pieces or none, tables are finite (acquisitions among them), an acquired
operator's parent is in the seed, `case_type`s have an order, limits are numbers, a form's planes
are four numbers each, its bands have a label of at least one line, and pages have lines. Nothing
else is assumed.

Only model-checked:

- liveness (`EventuallyRecorded`, `WarmReadReturns`, `ColdReadReturns`, `EventuallyCurrent`,
  `EventuallyExtracted`): the prover does not handle fairness and ENABLED;
- the expected violations (the findings of sections 2 to 4 and 9), which are counterexamples by nature.

Every invariant and every action property that a run checks is a theorem. No model that is proved
about uses a RECURSIVE operator.

## 14. Plan

The plan has been carried through: every component chosen for a model has one, and every safety
property of the runs is proved. What an extension would add, in the order of what it would say:

1. The other child tables that `merge` repoints, with its rule for links that collide (section 3 keeps
   the identifiers only), and what a night that fails leaves to `churn.detect`.
2. The nightly script with its soft failures, over the models of its steps, once the repository
   states what pages may mix.
3. The candidate cache of reachability: the request threads that rebuild it outside the lock.

## 15. Behaviour of the code worth knowing

Met while modelling; each is in the model as the code has it.

- A labelled gold case whose provisional JCAT key is given to another object is refreshed to point
  at that object and keeps its verdict.
- A harvest of one filing, or one in which every filing failed, closes the weekly gate of the full
  harvest. The extraction, by contrast, books scoped runs under an endpoint of their own.
- A document is never fetched again once its filing has a specification, so a reissue is not
  noticed, although `filing_blobs.py` speaks of rows becoming "visibly stale".
- A document on which the parser raises or whose rows the database refuses ends each week's
  extraction at the same place, and the filings behind it on the list wait as long.
- A frequency band that a page break splits is lost without a sign, and a label that a break cuts
  is served cut. A service label of one line takes in the line above it when that has no digit: the
  table's head, for one, or a direction that no band before it has used up.
- Once one document of a filing has given a specification, its other documents are never tried.
- `fcc_ssal` (archive fallback) and `backfill_ibfs` may land older content as the newest ok run.
- An empty payload is an `ok` run without rows for most loaders; `supgp` alone calls it an error.
  Errors outside the try blocks (parsing in `satcat`, `gp` and `sw`, landing in `gp`, `supgp` and
  `ucs`) leave the run open for ever.
- A backfill window is checkpointed though sets created in it may still appear, also one that ends
  today or, by `--until`, later; so is a batch that was answered with nothing or with stub rows.
  Objects that join an operator later are not asked for.
- A login takes no slot of the pacer; after a pacer's sleep the 3 s spacing is counted from before it.
- Owners, names and types are not retracted when a claim vanishes or matches no alias; only a decay
  date is, and one that cannot be parsed keeps the old one. One hop of acquisition is followed.
- Two records that each kept the row of a withdrawn owner, folded together by a promotion, leave a
  satellite with two open owners until a claim about it matches an alias again.

## 16. Not modelled

- Reachability: its candidate cache promises no more than an interval of staleness, and the orbit
  geometry is floating point.
- Bus attribution, slugs and the monthly freeze: classification rules over text in SQL, one
  transaction by one process, guarded by unique keys.
- The RF layer: derived tables deleted and rebuilt in one transaction.
- The nightly script: soft-failing steps; those that keep state are models of their own, and no
  promise is stated about what pages mix after a failed one.
- Quality reports, dossiers, metrics SQL, stories and the read-only routes: queries and formatting.
- Parsers below the level of a labelled line or a kind of payload, name normalisation, similarity
  scores: text rewritten character by character.
- UCS identity links, scores, dates, and the child tables that a merge repoints but for owner rows.
- Decay dates, status, names and object types of the resolver.
- MCP server, web client, deployment, notebooks: no state of the program's core.

----------------------------- MODULE ClaimLedger -----------------------------
(***************************************************************************)
(* The claim table of one snapshot feed: identity/claims.py over           *)
(* db/migrations/0023_claims.sql, with the runs of ingest/runlog.py that   *)
(* feed it.                                                                *)
(*                                                                         *)
(* A loader opens a run (its id comes from a sequence), lands the feed's   *)
(* full snapshot, stamped with the landing transaction's start time, and   *)
(* finishes the run 'ok'.  A graph build (scripts/build_graph.py) reads    *)
(* the newest ok run, takes the feed's transaction-scoped advisory lock,   *)
(* closes the open claims the run no longer makes, opens the new ones,     *)
(* advances claim_progress and commits much later.  Builds overlap, fail   *)
(* and are repeated; with Overlapping, so do loads (a pull by hand beside  *)
(* the nightly's).                                                         *)
(*                                                                         *)
(* A (source_key, attribute) pair is a slot.  NULL is 0 for closed_run,    *)
(* observed_to and a missing claim_progress row: run ids and times start   *)
(* at 1.                                                                   *)
(***************************************************************************)
EXTENDS Naturals

CONSTANTS
    Slot,         \* the (source_key, attribute) pairs of the feed
    Value,        \* the values a slot may be given
    Writer,       \* the processes that may run the graph build
    NoWriter,     \* the advisory lock's "holder" when it is free
    MaxRun,       \* bound: ingest runs ever opened
    Overlapping   \* may a load start while another is in flight?

ASSUME ConstantsAssumption ==
    /\ NoWriter \notin Writer
    /\ MaxRun \in Nat
    /\ Overlapping \in BOOLEAN

Runs == 1..MaxRun
Fact == [slot: Slot, value: Value]

\* A snapshot gives a slot one value: (key, ingest_run_id) is each raw table's primary key and
\* every attribute is one column of the row.
Snapshot == {facts \in SUBSET Fact : \A f, g \in facts : f.slot = g.slot => f = g}

Claim == [fact: Fact, first: Nat, from: Nat, closed: Nat, to: Nat]

VARIABLES
    run,       \* ingest_run joined to the raw snapshot it landed
    clock,     \* the database clock, as the number of landings begun
    claims,    \* the committed rows of table claim
    progress,  \* the feed's committed claim_progress row
    lockedBy,  \* holder of pg_advisory_xact_lock('claim:' || source)
    writer,    \* each build: where it is, its run, and its uncommitted changes
    recorded   \* history: the runs some build recorded

vars == <<run, clock, claims, progress, lockedBy, writer, recorded>>

RunState == [status: {"none", "open", "landing", "ok", "error", "dead"}, at: Nat, facts: Snapshot]
Progress == [run: Nat, at: Nat]
Idle == [pc |-> "idle", run |-> 0, before |-> [run |-> 0, at |-> 0], close |-> {}, open |-> {}]
WriterState == [pc: {"idle", "read", "locked", "refused", "written"}, run: Nat, before: Progress,
                close: SUBSET Claim, open: SUBSET Claim]

Init ==
    /\ run = [r \in Runs |-> [status |-> "none", at |-> 0, facts |-> {}]]
    /\ clock = 0
    /\ claims = {}
    /\ progress = [run |-> 0, at |-> 0]
    /\ lockedBy = NoWriter
    /\ writer = [w \in Writer |-> Idle]
    /\ recorded = {}

-----------------------------------------------------------------------------
(* The loader.                                                             *)

InFlight(r) == run[r].status \in {"open", "landing"}

\* start_run: the next id of the sequence, status NULL, committed at once.
StartRun(r) ==
    /\ run[r].status = "none"
    /\ \A q \in Runs : q < r => run[q].status # "none"
    /\ Overlapping \/ \A q \in Runs : ~InFlight(q)
    /\ run' = [run EXCEPT ![r].status = "open"]
    /\ UNCHANGED <<clock, claims, progress, lockedBy, writer, recorded>>

\* Faulty form: the snapshot is read without its run's filter, so older rows come with it.
BeginLandingUnscoped(r, facts) ==
    /\ run[r].status = "open"
    /\ clock' = clock + 1
    /\ run' = [run EXCEPT ![r] = [status |-> "landing", at |-> clock + 1,
                                 facts |-> facts \cup UNION {run[q].facts : q \in Runs}]]
    /\ UNCHANGED <<claims, progress, lockedBy, writer, recorded>>

\* The landing transaction begins: loaded_at defaults to now(), its start.
BeginLanding(r, facts) ==
    /\ run[r].status = "open"
    /\ clock' = clock + 1
    /\ run' = [run EXCEPT ![r] = [status |-> "landing", at |-> clock + 1, facts |-> facts]]
    /\ UNCHANGED <<claims, progress, lockedBy, writer, recorded>>

\* The landing commits and finish_run writes 'ok': no claim reader sees rows before that.
FinishOk(r) ==
    /\ run[r].status = "landing"
    /\ run' = [run EXCEPT ![r].status = "ok"]
    /\ UNCHANGED <<clock, claims, progress, lockedBy, writer, recorded>>

\* The pull or the landing raises ('error'), or the process dies (status stays NULL for ever).
LoseRun(r) ==
    /\ InFlight(r)
    /\ \E s \in {"error", "dead"} : run' = [run EXCEPT ![r].status = s]
    /\ UNCHANGED <<clock, claims, progress, lockedBy, writer, recorded>>

-----------------------------------------------------------------------------
(* The build's claim step.                                                 *)

OkRuns == {r \in Runs : run[r].status = "ok"}
IsOpen(c) == c.closed = 0

\* A run that landed no rows is in no raw table, so _latest_run cannot name it.
Snapshots == {r \in OkRuns : run[r].facts # {}}

\* Faulty form: the newest run of any status is the only candidate.
ReadLatestAnyStatus(w, r) ==
    /\ writer[w].pc = "idle"
    /\ r \in Snapshots
    /\ \A q \in Runs : run[q].status # "none" => q <= r
    /\ r > progress.run
    /\ writer' = [writer EXCEPT ![w] = [Idle EXCEPT !.pc = "read", !.run = r]]
    /\ UNCHANGED <<run, clock, claims, progress, lockedBy, recorded>>

\* record_feed before the lock: the newest ok run with rows, unless already recorded.
ReadLatest(w, r) ==
    /\ writer[w].pc = "idle"
    /\ r \in Snapshots
    /\ \A q \in Snapshots : q <= r
    /\ r > progress.run
    /\ writer' = [writer EXCEPT ![w] = [Idle EXCEPT !.pc = "read", !.run = r]]
    /\ UNCHANGED <<run, clock, claims, progress, lockedBy, recorded>>

\* Faulty form: the build does not wait for the feed's lock.
LockNoWait(w) ==
    /\ writer[w].pc = "read"
    /\ lockedBy' = w
    /\ writer' = [writer EXCEPT ![w].pc = IF writer[w].run <= progress.run THEN "refused" ELSE "locked",
                                ![w].before = progress]
    /\ UNCHANGED <<run, clock, claims, progress, recorded>>

\* Faulty form: progress is not read again under the lock.
LockNoRecheck(w) ==
    /\ writer[w].pc = "read"
    /\ lockedBy = NoWriter
    /\ lockedBy' = w
    /\ writer' = [writer EXCEPT ![w].pc = "locked", ![w].before = progress]
    /\ UNCHANGED <<run, clock, claims, progress, recorded>>

\* record takes the feed's lock and reads progress under it; a run at or before the last
\* recorded one is refused, with nothing written and the lock held to the transaction's end.
Lock(w) ==
    /\ writer[w].pc = "read"
    /\ lockedBy = NoWriter
    /\ lockedBy' = w
    /\ writer' = [writer EXCEPT ![w].pc = IF writer[w].run <= progress.run THEN "refused" ELSE "locked",
                                ![w].before = progress]
    /\ UNCHANGED <<run, clock, claims, progress, recorded>>

\* Faulty form: a slot that vanished from the feed keeps its claim open.
WithdrawnIfReplaced(r) ==
    {c \in claims : IsOpen(c) /\ \E f \in run[r].facts : f.slot = c.fact.slot /\ f # c.fact}

\* The open claims run r no longer makes, and the facts of r that no open claim states.
Withdrawn(r) == {c \in claims : IsOpen(c) /\ c.fact \notin run[r].facts}
Unstated(r, open) == {f \in run[r].facts : \A c \in open : c.fact.slot # f.slot}

Kept(r) == {c \in claims : IsOpen(c)} \ Withdrawn(r)

\* Faulty form: observed_to is stamped with the run that no longer makes the claim.
SeenAtAbsence(w) == run[writer[w].run].at

\* observed_to for what the build closes: the previous recorded run's time.
Seen(w) == IF writer[w].before.run = 0 THEN run[writer[w].run].at ELSE writer[w].before.at

\* CHECK claim_range: a claim is last observed no earlier than first observed.
InRange(w) == \A c \in Withdrawn(writer[w].run) : c.from <= Seen(w)

\* The row the INSERT writes for a fact.
Opened(r, f) == [fact |-> f, first |-> r, from |-> run[r].at, closed |-> 0, to |-> 0]

\* The UPDATE and the INSERT of record, visible to this transaction only.
Reconcile(w) ==
    LET r == writer[w].run
    IN  /\ writer[w].pc = "locked"
        /\ InRange(w)
        /\ writer' = [writer EXCEPT ![w].pc = "written",
                                    ![w].close = Withdrawn(r),
                                    ![w].open = {Opened(r, f) : f \in Unstated(r, Kept(r))}]
        /\ UNCHANGED <<run, clock, claims, progress, lockedBy, recorded>>

\* The build's transaction ends without a commit: an exception in any later step, a lost
\* connection, or the database refusing the UPDATE (claim_range).
Abort(w) ==
    /\ writer[w].pc # "idle"
    /\ writer' = [writer EXCEPT ![w] = Idle]
    /\ lockedBy' = IF lockedBy = w THEN NoWriter ELSE lockedBy
    /\ UNCHANGED <<run, clock, claims, progress, recorded>>

Closed(c, r, seen) == [c EXCEPT !.closed = r, !.to = seen]

\* The transaction of a refused run commits nothing of this feed and frees the lock.
CommitRefused(w) ==
    /\ writer[w].pc = "refused"
    /\ lockedBy' = NoWriter
    /\ writer' = [writer EXCEPT ![w] = Idle]
    /\ UNCHANGED <<run, clock, claims, progress, recorded>>

\* Faulty form: the closed rows lose their place in history.
CommitDeleting(w) ==
    LET r == writer[w].run
    IN  /\ writer[w].pc = "written"
        /\ claims' = (claims \ writer[w].close) \cup writer[w].open
        /\ progress' = [run |-> r, at |-> run[r].at]
        /\ recorded' = recorded \cup {r}
        /\ lockedBy' = NoWriter
        /\ writer' = [writer EXCEPT ![w] = Idle]
        /\ UNCHANGED <<run, clock>>

\* Faulty form: the progress row keeps its old observation time.
CommitStaleTime(w) ==
    LET r == writer[w].run
    IN  /\ writer[w].pc = "written"
        /\ claims' = (claims \ writer[w].close)
                         \cup {Closed(c, r, Seen(w)) : c \in writer[w].close}
                         \cup writer[w].open
        /\ progress' = [progress EXCEPT !.run = r]
        /\ recorded' = recorded \cup {r}
        /\ lockedBy' = NoWriter
        /\ writer' = [writer EXCEPT ![w] = Idle]
        /\ UNCHANGED <<run, clock>>

\* build_graph's single commit: the claim changes and the progress row land together.
Commit(w) ==
    LET r == writer[w].run
    IN  /\ writer[w].pc = "written"
        /\ claims' = (claims \ writer[w].close)
                         \cup {Closed(c, r, Seen(w)) : c \in writer[w].close}
                         \cup writer[w].open
        /\ progress' = [run |-> r, at |-> run[r].at]
        /\ recorded' = recorded \cup {r}
        /\ lockedBy' = NoWriter
        /\ writer' = [writer EXCEPT ![w] = Idle]
        /\ UNCHANGED <<run, clock>>

Load == \E r \in Runs :
    \/ StartRun(r)
    \/ \E facts \in Snapshot : BeginLanding(r, facts)
    \/ FinishOk(r)
    \/ LoseRun(r)

Build(w) == (\E r \in Runs : ReadLatest(w, r)) \/ Lock(w) \/ Reconcile(w)
                \/ CommitRefused(w) \/ Commit(w)

Next == Load \/ \E w \in Writer : Build(w) \/ Abort(w)

Spec == Init /\ [][Next]_vars

\* Builds are repeated every night and no fault hits the same step every time: each step of a
\* build that keeps being possible is eventually taken. Loaders are owed nothing.
Fairness == \A w \in Writer :
    /\ SF_vars(\E r \in Runs : ReadLatest(w, r))
    /\ SF_vars(Lock(w)) /\ SF_vars(Reconcile(w))
    /\ SF_vars(CommitRefused(w)) /\ SF_vars(Commit(w))

FairSpec == Spec /\ Fairness

-----------------------------------------------------------------------------
(* Properties.                                                             *)

\* The types of the variables, and what the runs and builds may hold.
TypeOK ==
    /\ run \in [Runs -> RunState]
    /\ clock \in Nat
    /\ claims \subseteq Claim
    /\ progress \in Progress
    /\ lockedBy \in Writer \cup {NoWriter}
    /\ writer \in [Writer -> WriterState]
    /\ recorded \subseteq Runs

\* What the table gives back for run r: the claims opened by then and not closed by then.
AsOf(r) == {c.fact : c \in {d \in claims : d.first <= r /\ (IsOpen(d) \/ d.closed > r)}}

\* The validity ranges lose nothing: for every run ever recorded, the claims valid at that run
\* are exactly the facts of its snapshot, whatever was recorded since and whichever builds
\* overlapped or failed.
HistoryFaithful == \A r \in recorded : AsOf(r) = run[r].facts

\* claim_open_uq: at most one open claim per (source, key, attribute), so the INSERT of a
\* build never meets the unique index and the current view gives each slot one value.
OneOpenClaim ==
    \A c, d \in claims : IsOpen(c) /\ IsOpen(d) /\ c.fact.slot = d.fact.slot => c = d

\* claim_progress is the newest recorded run and its time: the row every build takes its
\* refusal and its observed_to from is never behind nor ahead of the claims.
ProgressIsNewest ==
    IF recorded = {} THEN progress = [run |-> 0, at |-> 0] /\ claims = {}
    ELSE /\ progress.run \in recorded
         /\ progress.at = run[progress.run].at
         /\ \A r \in recorded : r <= progress.run

\* observed_to is the last observation, not the first absence: a closed claim carries the time
\* of the newest recorded run before the one that closed it, and that run made the claim.
ObservedToIsLastObservation ==
    \A c \in claims : ~IsOpen(c) =>
        \E r \in recorded :
            /\ c.first <= r /\ r < c.closed
            /\ \A q \in recorded : q < c.closed => q <= r
            /\ c.to = run[r].at
            /\ c.fact \in run[r].facts

\* What a build read under the lock is still so when it commits: while it holds the lock no
\* other build records anything, its run stays newer than the progress row, and the rows it is
\* to close and open are those the committed table calls for at that moment.
LockedReadsStayTrue ==
    \A w \in Writer : writer[w].pc \in {"locked", "written"} =>
        /\ lockedBy = w
        /\ writer[w].before = progress
        /\ writer[w].run \in Snapshots /\ writer[w].run > progress.run
        /\ writer[w].pc = "written" =>
              /\ writer[w].close = Withdrawn(writer[w].run)
              /\ writer[w].open = {Opened(writer[w].run, f) :
                                     f \in Unstated(writer[w].run, Kept(writer[w].run))}

\* A build that holds the lock can always close what its run withdraws: the UPDATE never meets
\* CHECK claim_range, which would abort that build and, progress never moving, every later one.
NeverOutOfRange == \A w \in Writer : writer[w].pc = "locked" => InRange(w)

Landed == {r \in Runs : run[r].at # 0}
LandedInOrder == \A q, r \in Landed : q < r => run[q].at < run[r].at

\* That is so as long as the feed's landings happen in run order, as they do when one load ends
\* before the next begins, however builds overlap, fail or skip runs.
InRangeIfLandedInOrder == LandedInOrder => NeverOutOfRange

\* A step opens claims, closes open ones, or leaves the table alone: no row is ever deleted,
\* reopened, or changed in what it says, and nothing changes unless a new run is recorded.
ClaimsOnlyMoveForward ==
    [][/\ \A c \in claims :
            \/ c \in claims'
            \/ IsOpen(c) /\ \E d \in claims' : d = Closed(c, progress'.run, d.to)
       /\ claims' # claims => progress'.run > progress.run]_vars

\* The table of copies this ledger stands for (ClaimHistory).
History == INSTANCE ClaimHistory WITH
    published <- [r \in OkRuns |-> run[r].facts],
    history <- [r \in recorded |-> AsOf(r)]

\* The ledger implements the table of copies: a recorded run's snapshot can be read back at
\* any later time and no build, late, repeated or concurrent, rewrites an earlier one.
ImplementsHistory == History!Spec

\* Every ok run with rows is recorded, or a newer one is: no ok run holds the feed back.
EventuallyRecorded ==
    \A r \in Runs : r \in Snapshots ~> progress.run >= r
=============================================================================

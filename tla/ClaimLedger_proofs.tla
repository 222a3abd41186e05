------------------------- MODULE ClaimLedger_proofs -------------------------
(***************************************************************************)
(* Theorems about ClaimLedger, for every number of slots, values, builds   *)
(* and runs, whether or not loads overlap.                                 *)
(***************************************************************************)
EXTENDS ClaimLedger, TLAPS

\* Every recorded run is a finished run with rows, so its snapshot no longer changes.
RecordedIsFinal == recorded \subseteq Snapshots

\* Every claim was opened by a recorded run and, if closed, closed by a later recorded one.
ClaimsSpanRecorded ==
    \A c \in claims :
        /\ c.first \in recorded
        /\ ~IsOpen(c) => c.closed \in recorded /\ c.first < c.closed

\* Past its first read a build works on a finished run, and it leaves "read" only by the lock.
BuildsReadFinal ==
    \A w \in Writer :
        /\ writer[w].pc # "idle" => writer[w].run \in Snapshots
        /\ writer[w].pc \in {"locked", "refused", "written"} => lockedBy = w

\* The part of the inductive invariant that speaks of the committed ledger only.
Ledger ==
    /\ RecordedIsFinal
    /\ ClaimsSpanRecorded
    /\ ProgressIsNewest
    /\ OneOpenClaim
    /\ HistoryFaithful
    /\ ObservedToIsLastObservation

\* The part that speaks of the builds. With TypeOK the two are inductive.
Builds == BuildsReadFinal /\ LockedReadsStayTrue

-----------------------------------------------------------------------------
(* Type correctness.                                                       *)

\* The time a build stamps on what it closes is a time.
LEMMA SeenType ==
    ASSUME TypeOK, NEW w \in Writer, writer[w].run \in Runs
    PROVE  Seen(w) \in Nat
  BY DEF TypeOK, Seen, WriterState, Progress, RunState

\* A closed claim is the open one with its last two fields set.
LEMMA ClosedFields ==
    ASSUME NEW c \in Claim, NEW r \in Nat, NEW s \in Nat
    PROVE  /\ Closed(c, r, s) \in Claim
           /\ Closed(c, r, s).fact = c.fact /\ Closed(c, r, s).first = c.first
           /\ Closed(c, r, s).from = c.from
           /\ Closed(c, r, s).closed = r /\ Closed(c, r, s).to = s
  BY DEF Closed, Claim

\* Only runs are read, and a run is a positive number.
LEMMA SnapshotsAreRuns ==
    ASSUME NEW r \in Snapshots
    PROVE  r \in Runs /\ r \in Nat /\ r > 0 /\ run[r].status = "ok" /\ run[r].facts # {}
  BY ConstantsAssumption DEF Snapshots, OkRuns, Runs

\* Every variable keeps its type: TypeOK, with the runs of the builds at work being runs.
LEMMA TypeStep ==
    ASSUME TypeOK, \A w \in Writer : writer[w].pc # "idle" => writer[w].run \in Runs, [Next]_vars
    PROVE  TypeOK' /\ (\A w \in Writer : writer[w].pc # "idle" => writer[w].run \in Runs)'
  <1> USE DEF TypeOK
  <1> DEFINE Reading == \A w \in Writer : writer[w].pc # "idle" => writer[w].run \in Runs
  <1>1. CASE Load
    <2>1. ASSUME NEW r \in Runs, StartRun(r) PROVE TypeOK' /\ Reading'
      BY <2>1 DEF StartRun, RunState
    <2>2. ASSUME NEW r \in Runs, NEW facts \in Snapshot, BeginLanding(r, facts)
          PROVE  TypeOK' /\ Reading'
      BY <2>2 DEF BeginLanding, RunState
    <2>3. ASSUME NEW r \in Runs, FinishOk(r) PROVE TypeOK' /\ Reading'
      BY <2>3 DEF FinishOk, RunState
    <2>4. ASSUME NEW r \in Runs, LoseRun(r) PROVE TypeOK' /\ Reading'
      BY <2>4 DEF LoseRun, RunState
    <2> QED BY <1>1, <2>1, <2>2, <2>3, <2>4 DEF Load
  <1>2. ASSUME NEW w \in Writer, NEW r \in Runs, ReadLatest(w, r) PROVE TypeOK' /\ Reading'
    <2> DEFINE fresh == [Idle EXCEPT !.pc = "read", !.run = r]
    <2>1. r \in Nat
      BY ConstantsAssumption DEF Runs
    <2>2. fresh \in WriterState /\ fresh.run = r
      BY <2>1 DEF WriterState, Idle, Progress
    <2>3. writer' = [writer EXCEPT ![w] = fresh]
      BY <1>2 DEF ReadLatest
    <2> HIDE DEF fresh
    <2>4. writer' \in [Writer -> WriterState] /\ Reading'
      BY <1>2, <2>2, <2>3 DEF ReadLatest
    <2> QED BY <1>2, <2>4 DEF ReadLatest
  <1>3. ASSUME NEW w \in Writer, Lock(w) PROVE TypeOK' /\ Reading'
    BY <1>3 DEF Lock, WriterState
  <1>4. ASSUME NEW w \in Writer, Reconcile(w) PROVE TypeOK' /\ Reading'
    <2>1. writer[w].run \in Runs /\ writer[w].run \in Nat
      BY <1>4, ConstantsAssumption DEF Reconcile, Runs
    <2>2. Withdrawn(writer[w].run) \subseteq Claim
      BY DEF Withdrawn
    <2>3. {Opened(writer[w].run, f) : f \in Unstated(writer[w].run, Kept(writer[w].run))} \subseteq Claim
      BY <2>1 DEF Opened, Unstated, Claim, RunState, Snapshot
    <2> DEFINE done == [writer[w] EXCEPT !.pc = "written", !.close = Withdrawn(writer[w].run),
                          !.open = {Opened(writer[w].run, f) :
                                      f \in Unstated(writer[w].run, Kept(writer[w].run))}]
    <2>4. done \in WriterState /\ done.run = writer[w].run
      BY <2>2, <2>3 DEF WriterState
    <2>5. writer' = [writer EXCEPT ![w] = done]
      BY <1>4 DEF Reconcile
    <2> HIDE DEF done
    <2>6. writer' \in [Writer -> WriterState] /\ Reading'
      BY <2>1, <2>4, <2>5
    <2> QED BY <1>4, <2>6 DEF Reconcile
  <1>5. ASSUME NEW w \in Writer, CommitRefused(w) PROVE TypeOK' /\ Reading'
    BY <1>5 DEF CommitRefused, WriterState, Idle, Progress
  <1>6. ASSUME NEW w \in Writer, Commit(w) PROVE TypeOK' /\ Reading'
    <2>1. writer[w].run \in Runs /\ writer[w].run \in Nat
      BY <1>6, ConstantsAssumption DEF Commit, Runs
    <2>2. {Closed(c, writer[w].run, Seen(w)) : c \in writer[w].close} \subseteq Claim
      BY <2>1, SeenType, ClosedFields DEF WriterState
    <2>3. claims' \subseteq Claim
      BY <1>6, <2>2 DEF Commit, WriterState
    <2>4. progress' \in Progress
      BY <1>6, <2>1 DEF Commit, Progress, RunState
    <2> QED BY <1>6, <2>1, <2>3, <2>4 DEF Commit, WriterState, Idle, Progress
  <1>7. ASSUME NEW w \in Writer, Abort(w) PROVE TypeOK' /\ Reading'
    BY <1>7 DEF Abort, WriterState, Idle, Progress
  <1>8. CASE UNCHANGED vars
    BY <1>8 DEF vars
  <1> QED BY <1>1, <1>2, <1>3, <1>4, <1>5, <1>6, <1>7, <1>8 DEF Next, Build

\* The variables of the claim ledger keep their types in every behaviour.
THEOREM TypeCorrect == Spec => []TypeOK
  <1> DEFINE TInv == TypeOK /\ \A w \in Writer : writer[w].pc # "idle" => writer[w].run \in Runs
  <1>1. Init => TInv
    BY ConstantsAssumption DEF Init, TypeOK, RunState, Snapshot, Progress, WriterState, Idle, Runs
  <1>2. TInv /\ [Next]_vars => TInv'
    BY TypeStep
  <1> QED BY <1>1, <1>2, PTL DEF Spec

-----------------------------------------------------------------------------
(* The inductive invariant.                                                *)

\* A load changes nothing about a finished run, and nothing of the ledger or the builds.
LEMMA LoadKeepsSnapshots ==
    ASSUME TypeOK, Load
    PROVE  /\ UNCHANGED <<claims, progress, lockedBy, writer, recorded>>
           /\ \A q \in Snapshots : q \in Snapshots' /\ run'[q] = run[q]
  <1> SUFFICES ASSUME NEW q \in Snapshots
               PROVE  /\ UNCHANGED <<claims, progress, lockedBy, writer, recorded>>
                      /\ q \in Runs /\ run'[q] = run[q]
    BY DEF Snapshots, OkRuns, Load, StartRun, BeginLanding, FinishOk, LoseRun
  <1>1. q \in Runs /\ run[q].status = "ok"
    BY SnapshotsAreRuns
  <1>2. ASSUME NEW r \in Runs, StartRun(r) PROVE r # q /\ run'[q] = run[q]
    BY <1>1, <1>2 DEF StartRun, TypeOK
  <1>3. ASSUME NEW r \in Runs, NEW facts \in Snapshot, BeginLanding(r, facts)
        PROVE  r # q /\ run'[q] = run[q]
    BY <1>1, <1>3 DEF BeginLanding, TypeOK
  <1>4. ASSUME NEW r \in Runs, FinishOk(r) PROVE r # q /\ run'[q] = run[q]
    BY <1>1, <1>4 DEF FinishOk, TypeOK
  <1>5. ASSUME NEW r \in Runs, LoseRun(r) PROVE r # q /\ run'[q] = run[q]
    BY <1>1, <1>5 DEF LoseRun, InFlight, TypeOK
  <1>6. UNCHANGED <<claims, progress, lockedBy, writer, recorded>>
    BY DEF Load, StartRun, BeginLanding, FinishOk, LoseRun
  <1> QED BY <1>1, <1>2, <1>3, <1>4, <1>5, <1>6 DEF Load

\* Hence a load keeps the invariant.
LEMMA LoadStep ==
    ASSUME TypeOK, Ledger, Builds, Load
    PROVE  Ledger' /\ Builds'
  <1>1. /\ UNCHANGED <<claims, progress, lockedBy, writer, recorded>>
        /\ \A q \in Snapshots : q \in Snapshots' /\ run'[q] = run[q]
    BY LoadKeepsSnapshots
  <1>2. recorded \subseteq Snapshots
    BY DEF Ledger, RecordedIsFinal
  <1>3. RecordedIsFinal' /\ ClaimsSpanRecorded' /\ OneOpenClaim'
    BY <1>1, <1>2 DEF Ledger, RecordedIsFinal, ClaimsSpanRecorded, OneOpenClaim, IsOpen
  <1>4. ProgressIsNewest'
    BY <1>1, <1>2 DEF Ledger, ProgressIsNewest
  <1>5. HistoryFaithful'
    <2> SUFFICES ASSUME NEW r \in recorded PROVE AsOf(r)' = run'[r].facts
      BY <1>1 DEF HistoryFaithful
    <2>1. AsOf(r)' = AsOf(r)
      BY <1>1 DEF AsOf, IsOpen
    <2>2. AsOf(r) = run[r].facts
      BY DEF Ledger, HistoryFaithful
    <2> QED BY <1>1, <1>2, <2>1, <2>2
  <1>6. ObservedToIsLastObservation'
    BY <1>1, <1>2 DEF Ledger, ObservedToIsLastObservation, IsOpen
  <1>7. BuildsReadFinal'
    BY <1>1 DEF Builds, BuildsReadFinal
  <1>8. LockedReadsStayTrue'
    <2> SUFFICES ASSUME NEW w \in Writer, writer[w].pc \in {"locked", "written"}
                 PROVE  /\ lockedBy = w
                        /\ writer[w].before = progress
                        /\ writer[w].run \in Snapshots' /\ writer[w].run > progress.run
                        /\ writer[w].pc = "written" =>
                              /\ writer[w].close = Withdrawn(writer[w].run)'
                              /\ writer[w].open = {Opened(writer[w].run, f)' :
                                     f \in Unstated(writer[w].run, Kept(writer[w].run))'}
      BY <1>1 DEF LockedReadsStayTrue
    <2> DEFINE q == writer[w].run
    <2>1. q \in Snapshots
      BY DEF Builds, LockedReadsStayTrue
    <2>2. run'[q] = run[q] /\ q \in Snapshots'
      BY <1>1, <2>1
    <2>3. Withdrawn(q)' = Withdrawn(q)
      BY <1>1, <2>2 DEF Withdrawn, IsOpen
    <2>4. Kept(q)' = Kept(q)
      BY <1>1, <2>3 DEF Kept, IsOpen
    <2>5. Unstated(q, Kept(q))' = Unstated(q, Kept(q))
      BY <2>2, <2>4, <1>1 DEF Unstated
    <2>6. \A f : Opened(q, f)' = Opened(q, f)
      BY <2>2, <1>1 DEF Opened
    <2> QED BY <1>1, <2>1, <2>2, <2>3, <2>5, <2>6 DEF Builds, LockedReadsStayTrue
  <1> QED BY <1>3, <1>4, <1>5, <1>6, <1>7, <1>8 DEF Ledger, Builds

\* A step of a build that leaves the ledger alone keeps its part of the invariant.
LEMMA LedgerUntouched ==
    ASSUME Ledger, UNCHANGED <<run, claims, progress, recorded>>
    PROVE  Ledger'
  <1>1. Snapshots' = Snapshots /\ \A r : AsOf(r)' = AsOf(r)
    BY DEF Snapshots, OkRuns, AsOf, IsOpen
  <1> QED BY <1>1 DEF Ledger, RecordedIsFinal, ClaimsSpanRecorded, ProgressIsNewest, OneOpenClaim,
                      HistoryFaithful, ObservedToIsLastObservation, IsOpen

\* A build that moves neither the ledger nor the lock of others keeps the other builds' part.
LEMMA OtherBuilds ==
    ASSUME Builds, NEW w \in Writer, UNCHANGED <<run, claims, progress>>,
           \A v \in Writer : v # w => writer'[v] = writer[v] /\ (lockedBy = v => lockedBy' = v),
           writer'[w].pc # "idle" => writer'[w].run \in Snapshots,
           writer'[w].pc \in {"locked", "refused", "written"} => lockedBy' = w,
           writer'[w].pc \in {"locked", "written"} =>
              /\ writer'[w].before = progress
              /\ writer'[w].run > progress.run
              /\ writer'[w].pc = "written" =>
                    /\ writer'[w].close = Withdrawn(writer'[w].run)
                    /\ writer'[w].open = {Opened(writer'[w].run, f) :
                                            f \in Unstated(writer'[w].run, Kept(writer'[w].run))}
    PROVE  Builds'
  <1>1. /\ Snapshots' = Snapshots
        /\ \A v \in Writer :
              /\ Withdrawn(writer[v].run)' = Withdrawn(writer'[v].run)
              /\ {Opened(writer[v].run, f) : f \in Unstated(writer[v].run, Kept(writer[v].run))}'
                   = {Opened(writer'[v].run, f) : f \in Unstated(writer'[v].run, Kept(writer'[v].run))}
    BY DEF Snapshots, OkRuns, Withdrawn, Kept, Unstated, Opened, IsOpen
  <1>2. BuildsReadFinal'
    BY <1>1 DEF Builds, BuildsReadFinal
  <1>3. ASSUME NEW v \in Writer, writer'[v].pc \in {"locked", "written"}
        PROVE  /\ lockedBy' = v
               /\ writer'[v].before = progress'
               /\ writer'[v].run \in Snapshots' /\ writer'[v].run > progress'.run
               /\ writer'[v].pc = "written" =>
                     /\ writer'[v].close = Withdrawn(writer'[v].run)
                     /\ writer'[v].open = {Opened(writer'[v].run, f) :
                                             f \in Unstated(writer'[v].run, Kept(writer'[v].run))}
    <2>1. CASE v = w
      BY <1>1, <1>3, <2>1
    <2>2. CASE v # w
      BY <1>1, <1>3, <2>2 DEF Builds, LockedReadsStayTrue
    <2> QED BY <2>1, <2>2
  <1>4. LockedReadsStayTrue'
    BY <1>1, <1>3 DEF LockedReadsStayTrue
  <1> QED BY <1>2, <1>4 DEF Builds

\* Reading the newest run: it is a finished run with rows.
LEMMA ReadLatestStep ==
    ASSUME TypeOK, Ledger, Builds, NEW w \in Writer, NEW r \in Runs, ReadLatest(w, r)
    PROVE  Ledger' /\ Builds'
  <1> DEFINE fresh == [Idle EXCEPT !.pc = "read", !.run = r]
  <1>1. fresh.pc = "read" /\ fresh.run = r
    BY DEF Idle
  <1>2. writer' = [writer EXCEPT ![w] = fresh] /\ r \in Snapshots
    BY DEF ReadLatest
  <1> HIDE DEF fresh
  <1>3. writer'[w] = fresh /\ \A v \in Writer : v # w => writer'[v] = writer[v]
    BY <1>2 DEF TypeOK
  <1>4. UNCHANGED <<run, clock, claims, progress, lockedBy, recorded>>
    BY DEF ReadLatest
  <1>5. Ledger'
    BY <1>4, LedgerUntouched
  <1>6. Builds'
    BY <1>1, <1>2, <1>3, <1>4, OtherBuilds
  <1> QED BY <1>5, <1>6

\* Taking the lock: it was free, so no other build holds a read under it, and the re-check under
\* it leaves only a run newer than the progress row.
LEMMA LockStep ==
    ASSUME TypeOK, Ledger, Builds, NEW w \in Writer, Lock(w)
    PROVE  Ledger' /\ Builds'
  <1>1. UNCHANGED <<run, clock, claims, progress, recorded>> /\ lockedBy = NoWriter /\ lockedBy' = w
    BY DEF Lock
  <1>2. writer[w].run \in Snapshots /\ writer[w].run \in Nat /\ progress.run \in Nat
    BY SnapshotsAreRuns DEF Builds, BuildsReadFinal, Lock, TypeOK, Progress
  <1> DEFINE held == [writer[w] EXCEPT
                         !.pc = IF writer[w].run <= progress.run THEN "refused" ELSE "locked",
                         !.before = progress]
  <1>3. /\ held.pc = IF writer[w].run <= progress.run THEN "refused" ELSE "locked"
        /\ held.run = writer[w].run /\ held.before = progress
    BY DEF TypeOK, WriterState
  <1>4. writer' = [writer EXCEPT ![w] = held]
    BY DEF Lock
  <1> HIDE DEF held
  <1>5. writer'[w] = held /\ \A v \in Writer : v # w => writer'[v] = writer[v]
    BY <1>4 DEF TypeOK
  <1>6. \A v \in Writer : lockedBy # v
    BY <1>1, ConstantsAssumption
  <1>7. Ledger'
    BY <1>1, LedgerUntouched
  <1>8. Builds'
    BY <1>1, <1>2, <1>3, <1>5, <1>6, OtherBuilds
  <1> QED BY <1>7, <1>8

\* Reconciling: what the build is to close and open is what the committed table calls for.
LEMMA ReconcileStep ==
    ASSUME TypeOK, Ledger, Builds, NEW w \in Writer, Reconcile(w)
    PROVE  Ledger' /\ Builds'
  <1>1. UNCHANGED <<run, clock, claims, progress, lockedBy, recorded>> /\ writer[w].pc = "locked"
    BY DEF Reconcile
  <1>2. /\ writer[w].run \in Snapshots /\ lockedBy = w
        /\ writer[w].before = progress /\ writer[w].run > progress.run
    BY <1>1 DEF Builds, LockedReadsStayTrue
  <1> DEFINE opens == {Opened(writer[w].run, f) : f \in Unstated(writer[w].run, Kept(writer[w].run))}
             done == [writer[w] EXCEPT !.pc = "written", !.close = Withdrawn(writer[w].run),
                                       !.open = opens]
  <1>3. writer' = [writer EXCEPT ![w] = done]
    BY DEF Reconcile
  <1> HIDE DEF opens
  <1>4. /\ done.pc = "written" /\ done.run = writer[w].run /\ done.before = writer[w].before
        /\ done.close = Withdrawn(writer[w].run) /\ done.open = opens
    BY DEF TypeOK, WriterState
  <1> HIDE DEF done
  <1>5. writer'[w] = done /\ \A v \in Writer : v # w => writer'[v] = writer[v]
    BY <1>3 DEF TypeOK
  <1>6. Ledger'
    BY <1>1, LedgerUntouched
  <1>7. Builds'
    BY <1>1, <1>2, <1>4, <1>5, OtherBuilds DEF opens
  <1> QED BY <1>6, <1>7

\* A refused or broken-off transaction frees the lock it held and no other.
LEMMA ReleaseStep ==
    ASSUME TypeOK, Ledger, Builds, NEW w \in Writer, CommitRefused(w) \/ Abort(w)
    PROVE  Ledger' /\ Builds'
  <1>1. UNCHANGED <<run, clock, claims, progress, recorded>> /\ writer' = [writer EXCEPT ![w] = Idle]
    BY DEF CommitRefused, Abort
  <1>2. writer'[w].pc = "idle" /\ \A v \in Writer : v # w => writer'[v] = writer[v]
    BY <1>1 DEF TypeOK, Idle
  <1>3. \A v \in Writer : v # w /\ lockedBy = v => lockedBy' = v
    <2>1. CASE CommitRefused(w)
      BY <2>1 DEF CommitRefused, Builds, BuildsReadFinal
    <2>2. CASE Abort(w)
      BY <2>2 DEF Abort
    <2> QED BY <2>1, <2>2
  <1>4. Ledger'
    BY <1>1, LedgerUntouched
  <1>5. Builds'
    BY <1>1, <1>2, <1>3, OtherBuilds
  <1> QED BY <1>4, <1>5

\* What Commit(w) does to the ledger, in terms of the committed table it found: r is the run,
\* and the claims it closes were all observed at the last recorded run.
LEMMA CommitEffect ==
    ASSUME TypeOK, Ledger, Builds, NEW w \in Writer, Commit(w), NEW r, r = writer[w].run
    PROVE  /\ r \in Snapshots /\ r \in Nat /\ r > 0 /\ r > progress.run
           /\ lockedBy = w
           /\ Withdrawn(r) \subseteq claims
           /\ Seen(w) \in Nat
           /\ recorded # {} => Seen(w) = progress.at
           /\ claims' = (claims \ Withdrawn(r))
                          \cup {Closed(c, r, Seen(w)) : c \in Withdrawn(r)}
                          \cup {Opened(r, f) : f \in Unstated(r, Kept(r))}
           /\ progress' = [run |-> r, at |-> run[r].at]
           /\ recorded' = recorded \cup {r}
           /\ run' = run
  <1>1. writer[w].pc = "written"
    BY DEF Commit
  <1>2. /\ r \in Snapshots /\ r > progress.run /\ lockedBy = w /\ writer[w].before = progress
        /\ writer[w].close = Withdrawn(r)
        /\ writer[w].open = {Opened(r, f) : f \in Unstated(r, Kept(r))}
    BY <1>1 DEF Builds, LockedReadsStayTrue
  <1>3. r \in Runs /\ r \in Nat /\ r > 0
    BY <1>2, SnapshotsAreRuns
  <1>4. Seen(w) \in Nat
    BY <1>3, SeenType
  <1>5. recorded # {} => Seen(w) = progress.at
    <2> SUFFICES ASSUME recorded # {} PROVE Seen(w) = progress.at
      OBVIOUS
    <2>1. progress.run \in recorded
      BY DEF Ledger, ProgressIsNewest
    <2>2. progress.run # 0
      BY <2>1, SnapshotsAreRuns DEF Ledger, RecordedIsFinal
    <2> QED BY <1>2, <2>2 DEF Seen
  <1> QED BY <1>2, <1>3, <1>4, <1>5 DEF Commit, Withdrawn

\* The rows the build leaves, by kind: kept as they were, closed at r, opened at r.
LEMMA RowsAfter ==
    ASSUME TypeOK, Ledger, Builds, NEW w \in Writer, Commit(w), NEW r, r = writer[w].run,
           NEW d \in claims'
    PROVE  \/ d \in claims \ Withdrawn(r)
           \/ \E c \in Withdrawn(r) :
                 /\ d = Closed(c, r, Seen(w)) /\ c \in claims /\ c.closed = 0
                 /\ d.fact = c.fact /\ d.first = c.first /\ d.closed = r /\ d.to = Seen(w)
           \/ /\ d.fact \in Unstated(r, Kept(r)) /\ d = Opened(r, d.fact)
              /\ d.first = r /\ d.closed = 0
  <1>1. CASE d \in {Closed(c, r, Seen(w)) : c \in Withdrawn(r)}
    <2>1. PICK c \in Withdrawn(r) : d = Closed(c, r, Seen(w))
      BY <1>1
    <2>2. c \in Claim /\ c \in claims /\ c.closed = 0
      BY <2>1 DEF Withdrawn, IsOpen, TypeOK
    <2>3. r \in Nat /\ Seen(w) \in Nat
      BY CommitEffect
    <2>4. d.fact = c.fact /\ d.first = c.first /\ d.closed = r /\ d.to = Seen(w)
      BY <2>1, <2>2, <2>3, ClosedFields
    <2> QED BY <2>1, <2>2, <2>4
  <1>2. CASE d \in {Opened(r, f) : f \in Unstated(r, Kept(r))}
    BY <1>2 DEF Opened
  <1> QED BY <1>1, <1>2, CommitEffect

\* Every recorded run is older than the one being committed.
LEMMA CommitIsNewest ==
    ASSUME TypeOK, Ledger, Builds, NEW w \in Writer, Commit(w), NEW r, r = writer[w].run
    PROVE  /\ \A q \in recorded : q \in Nat /\ q > 0 /\ q <= progress.run /\ q < r
           /\ \A c \in claims : /\ c.first \in recorded /\ c.closed \in Nat
                                /\ c.closed # 0 => c.closed \in recorded /\ c.first < c.closed
  <1>1. \A q \in recorded : q \in Nat /\ q > 0
    BY SnapshotsAreRuns DEF Ledger, RecordedIsFinal
  <1>2. progress.run \in Nat /\ r \in Nat /\ r > progress.run
    BY CommitEffect DEF TypeOK, Progress
  <1>3. \A q \in recorded : q <= progress.run
    BY DEF Ledger, ProgressIsNewest
  <1>4. \A c \in claims : c.closed \in Nat
    BY DEF TypeOK, Claim
  <1> QED BY <1>1, <1>2, <1>3, <1>4 DEF Ledger, ClaimsSpanRecorded, IsOpen

\* Recording a run leaves every earlier answer as it was, and answers the new run exactly.
LEMMA CommitAsOf ==
    ASSUME TypeOK, Ledger, Builds, NEW w \in Writer, Commit(w), NEW r, r = writer[w].run
    PROVE  /\ \A q \in recorded : AsOf(q)' = AsOf(q)
           /\ AsOf(r)' = run[r].facts
  <1>e. /\ r \in Snapshots /\ r \in Nat /\ r > 0
        /\ claims' = (claims \ Withdrawn(r))
                       \cup {Closed(c, r, Seen(w)) : c \in Withdrawn(r)}
                       \cup {Opened(r, f) : f \in Unstated(r, Kept(r))}
    BY CommitEffect
  <1>n. /\ \A q \in recorded : q \in Nat /\ q > 0 /\ q < r
        /\ \A c \in claims : /\ c.first \in recorded /\ c.closed \in Nat
                             /\ c.closed # 0 => c.closed \in recorded /\ c.first < c.closed
    BY CommitIsNewest
  <1>1. ASSUME NEW q \in recorded PROVE AsOf(q)' = AsOf(q)
    <2>1. ASSUME NEW f \in AsOf(q)' PROVE f \in AsOf(q)
      <3>1. PICK d \in claims' : d.fact = f /\ d.first <= q /\ (d.closed = 0 \/ d.closed > q)
        BY <2>1 DEF AsOf, IsOpen
      <3>2. CASE d \in claims \ Withdrawn(r)
        BY <3>1, <3>2 DEF AsOf, IsOpen
      <3>3. CASE \E c \in Withdrawn(r) :
                     c \in claims /\ c.closed = 0 /\ d.fact = c.fact /\ d.first = c.first
        BY <3>1, <3>3 DEF AsOf, IsOpen
      <3>4. ~ (d.first = r)
        BY <1>e, <1>n, <3>1
      <3> QED BY <3>2, <3>3, <3>4, RowsAfter
    <2>2. ASSUME NEW f \in AsOf(q) PROVE f \in AsOf(q)'
      <3>1. PICK c \in claims : c.fact = f /\ c.first <= q /\ (c.closed = 0 \/ c.closed > q)
        BY <2>2 DEF AsOf, IsOpen
      <3>2. CASE c \notin Withdrawn(r)
        BY <1>e, <3>1, <3>2 DEF AsOf, IsOpen
      <3>3. CASE c \in Withdrawn(r)
        <4>0. PICK d : d = Closed(c, r, Seen(w))
          OBVIOUS
        <4>1. d \in claims'
          BY <1>e, <3>3, <4>0
        <4>2. d.fact = c.fact /\ d.first = c.first /\ d.closed = r
          <5>1. c \in Claim /\ r \in Nat /\ Seen(w) \in Nat
            BY <1>e, CommitEffect DEF TypeOK
          <5> QED BY <4>0, <5>1, ClosedFields
        <4> QED BY <1>n, <3>1, <4>1, <4>2 DEF AsOf, IsOpen
      <3> QED BY <3>2, <3>3
    <2> QED BY <2>1, <2>2
  <1>2. AsOf(r)' = run[r].facts
    <2>1. ASSUME NEW f \in AsOf(r)' PROVE f \in run[r].facts
      <3>1. PICK d \in claims' : d.fact = f /\ (d.closed = 0 \/ d.closed > r)
        BY <2>1 DEF AsOf, IsOpen
      <3>2. CASE d \in claims \ Withdrawn(r)
        BY <1>e, <1>n, <3>1, <3>2 DEF Withdrawn, IsOpen
      <3>3. CASE d.closed = r
        BY <1>e, <3>1, <3>3
      <3>4. CASE d.fact \in Unstated(r, Kept(r))
        BY <3>1, <3>4 DEF Unstated
      <3> QED BY <3>2, <3>3, <3>4, RowsAfter
    <2>2. ASSUME NEW f \in run[r].facts PROVE f \in AsOf(r)'
      <3>1. CASE f \in Unstated(r, Kept(r))
        <4>1. Opened(r, f) \in claims'
          BY <1>e, <3>1
        <4>2. Opened(r, f).fact = f /\ Opened(r, f).first = r /\ Opened(r, f).closed = 0
          BY DEF Opened
        <4> QED BY <1>e, <4>1, <4>2 DEF AsOf, IsOpen
      <3>2. CASE f \notin Unstated(r, Kept(r))
        <4>1. PICK c \in Kept(r) : c.fact.slot = f.slot
          BY <2>2, <3>2 DEF Unstated
        <4>2. c \in claims /\ c.closed = 0 /\ c.fact \in run[r].facts /\ c \in claims'
          BY <1>e, <4>1 DEF Kept, Withdrawn, IsOpen
        <4>3. run[r].facts \in Snapshot
          BY <1>e, SnapshotsAreRuns DEF TypeOK, RunState
        <4>4. c.fact = f
          BY <2>2, <4>1, <4>2, <4>3 DEF Snapshot
        <4>5. c.first <= r
          BY <1>e, <1>n, <4>2
        <4> QED BY <4>2, <4>4, <4>5 DEF AsOf, IsOpen
      <3> QED BY <3>1, <3>2
    <2> QED BY <2>1, <2>2
  <1> QED BY <1>1, <1>2

\* Committing keeps at most one open claim a slot: a fact is opened only where none is kept.
LEMMA CommitOneOpen ==
    ASSUME TypeOK, Ledger, Builds, NEW w \in Writer, Commit(w)
    PROVE  OneOpenClaim'
  <1> DEFINE r == writer[w].run
  <1>1. r \in Snapshots /\ r > 0 /\ run[r].facts \in Snapshot
    <2>1. r \in Snapshots
      BY CommitEffect
    <2> QED BY <2>1, SnapshotsAreRuns DEF TypeOK, RunState
  <1>2. SUFFICES ASSUME NEW c \in claims', NEW d \in claims',
                        c.closed = 0, d.closed = 0, c.fact.slot = d.fact.slot
                 PROVE  c = d
    BY DEF OneOpenClaim, IsOpen
  <1> DEFINE IsKept(x) == x \in claims /\ x \in Kept(r)
             IsNew(x) == x.fact \in Unstated(r, Kept(r)) /\ x = Opened(r, x.fact)
  <1>3. \A x \in claims' : x.closed = 0 => IsKept(x) \/ IsNew(x)
    <2> TAKE x \in claims'
    <2> HAVE x.closed = 0
    <2>1. CASE x \in claims \ Withdrawn(r)
      BY <2>1 DEF Kept, IsOpen
    <2>2. ~ (x.closed = r)
      BY <1>1
    <2> QED BY <2>1, <2>2, RowsAfter
  <1>4. CASE IsKept(c) /\ IsKept(d)
    BY <1>2, <1>4 DEF Ledger, OneOpenClaim, IsOpen
  <1>5. CASE IsNew(c) /\ IsNew(d)
    <2>1. c.fact \in run[r].facts /\ d.fact \in run[r].facts
      BY <1>5 DEF Unstated
    <2>2. c.fact = d.fact
      BY <1>1, <1>2, <2>1 DEF Snapshot
    <2> QED BY <1>5, <2>2
  <1>6. ~ (IsKept(c) /\ IsNew(d)) /\ ~ (IsNew(c) /\ IsKept(d))
    BY <1>2 DEF Unstated
  <1> QED BY <1>2, <1>3, <1>4, <1>5, <1>6

\* Committing stamps what it closes with the last recorded run's time, when every one of those
\* claims was still made.
LEMMA CommitObserved ==
    ASSUME TypeOK, Ledger, Builds, NEW w \in Writer, Commit(w)
    PROVE  ObservedToIsLastObservation'
  <1> DEFINE r == writer[w].run
  <1>e. r \in Nat /\ r > 0 /\ r > progress.run /\ recorded' = recorded \cup {r} /\ run' = run
    BY CommitEffect
  <1>n. /\ \A q \in recorded : q \in Nat /\ q > 0 /\ q <= progress.run /\ q < r
        /\ \A c \in claims : /\ c.first \in recorded /\ c.closed \in Nat
                             /\ c.closed # 0 => c.closed \in recorded /\ c.first < c.closed
    BY CommitIsNewest
  <1>1. SUFFICES ASSUME NEW d \in claims', d.closed # 0
                 PROVE  \E p \in recorded' :
                           /\ d.first <= p /\ p < d.closed
                           /\ \A q \in recorded' : q < d.closed => q <= p
                           /\ d.to = run'[p].at
                           /\ d.fact \in run'[p].facts
    BY DEF ObservedToIsLastObservation, IsOpen
  <1>2. CASE d \in claims \ Withdrawn(r)
    <2>1. PICK p \in recorded : /\ d.first <= p /\ p < d.closed
                                /\ \A q \in recorded : q < d.closed => q <= p
                                /\ d.to = run[p].at /\ d.fact \in run[p].facts
      BY <1>1, <1>2 DEF Ledger, ObservedToIsLastObservation, IsOpen
    <2>2. ~ (r < d.closed)
      BY <1>e, <1>n, <1>1, <1>2
    <2> QED BY <1>e, <2>1, <2>2
  <1>3. ASSUME NEW c \in Withdrawn(r), c \in claims, c.closed = 0, d.fact = c.fact,
               d.first = c.first, d.closed = r, d.to = Seen(w)
        PROVE  \E p \in recorded : /\ d.first <= p /\ p < d.closed
                                   /\ \A q \in recorded \cup {r} : q < d.closed => q <= p
                                   /\ d.to = run[p].at /\ d.fact \in run[p].facts
    <2>1. recorded # {}
      BY <1>n, <1>3
    <2>2. progress.run \in recorded /\ progress.at = run[progress.run].at
      BY <2>1 DEF Ledger, ProgressIsNewest
    <2>3. Seen(w) = progress.at
      BY <2>1, CommitEffect
    <2>4. d.first <= progress.run /\ progress.run < d.closed
      BY <1>e, <1>n, <1>3, <2>2
    <2>5. d.fact \in AsOf(progress.run)
      BY <1>3, <2>4 DEF AsOf, IsOpen
    <2>6. d.fact \in run[progress.run].facts
      BY <2>2, <2>5 DEF Ledger, HistoryFaithful
    <2>7. \A q \in recorded \cup {r} : q < d.closed => q <= progress.run
      BY <1>e, <1>n, <1>3
    <2> QED BY <1>3, <2>2, <2>3, <2>4, <2>6, <2>7
  <1>4. CASE \E c \in Withdrawn(r) :
                 /\ d = Closed(c, r, Seen(w)) /\ c \in claims /\ c.closed = 0
                 /\ d.fact = c.fact /\ d.first = c.first /\ d.closed = r /\ d.to = Seen(w)
    BY <1>e, <1>3, <1>4
  <1>5. ~ (d.closed = 0)
    BY <1>1
  <1> QED BY <1>2, <1>4, <1>5, RowsAfter

\* Committing keeps the ledger's part of the invariant.
LEMMA CommitLedger ==
    ASSUME TypeOK, Ledger, Builds, NEW w \in Writer, Commit(w)
    PROVE  Ledger'
  <1> DEFINE r == writer[w].run
  <1>e. /\ r \in Snapshots /\ r \in Nat /\ r > 0 /\ r > progress.run
        /\ progress' = [run |-> r, at |-> run[r].at]
        /\ recorded' = recorded \cup {r} /\ run' = run
    BY CommitEffect
  <1>n. /\ \A q \in recorded : q \in Nat /\ q > 0 /\ q <= progress.run /\ q < r
        /\ \A c \in claims : /\ c.first \in recorded /\ c.closed \in Nat
                             /\ c.closed # 0 => c.closed \in recorded /\ c.first < c.closed
    BY CommitIsNewest
  <1>1. RecordedIsFinal'
    BY <1>e DEF Ledger, RecordedIsFinal, Snapshots, OkRuns
  <1>2. ClaimsSpanRecorded'
    <2> SUFFICES ASSUME NEW d \in claims'
                 PROVE  /\ d.first \in recorded'
                        /\ d.closed # 0 => d.closed \in recorded' /\ d.first < d.closed
      BY DEF ClaimsSpanRecorded, IsOpen
    <2>1. CASE d \in claims
      BY <1>e, <1>n, <2>1
    <2>2. CASE \E c \in Withdrawn(r) : c \in claims /\ d.first = c.first /\ d.closed = r
      BY <1>e, <1>n, <2>2
    <2>3. CASE d.first = r /\ d.closed = 0
      BY <1>e, <2>3
    <2> QED BY <2>1, <2>2, <2>3, RowsAfter
  <1>3. ProgressIsNewest'
    BY <1>e, <1>n DEF ProgressIsNewest
  <1>4. HistoryFaithful'
    <2>1. PICK s : s = r
      OBVIOUS
    <2>2. (\A q \in recorded : AsOf(q)' = AsOf(q)) /\ AsOf(s)' = run[s].facts
      BY <2>1, CommitAsOf
    <2>3. recorded' = recorded \cup {s} /\ run' = run
      BY <1>e, <2>1
    <2> QED BY <2>2, <2>3 DEF Ledger, HistoryFaithful
  <1> QED BY <1>1, <1>2, <1>3, <1>4, CommitOneOpen, CommitObserved DEF Ledger

\* Committing keeps the builds' part: no other build held the lock, so none loses what it read.
LEMMA CommitBuilds ==
    ASSUME TypeOK, Ledger, Builds, NEW w \in Writer, Commit(w)
    PROVE  Builds'
  <1>1. writer' = [writer EXCEPT ![w] = Idle] /\ run' = run
    BY DEF Commit
  <1>2. writer'[w].pc = "idle" /\ \A v \in Writer : v # w => writer'[v] = writer[v]
    BY <1>1 DEF TypeOK, Idle
  <1>3. Snapshots' = Snapshots
    BY <1>1 DEF Snapshots, OkRuns
  <1>4. \A v \in Writer : v # w => lockedBy # v
    BY CommitEffect
  <1>5. \A v \in Writer : writer'[v].pc \notin {"locked", "refused", "written"}
    BY <1>2, <1>4 DEF Builds, BuildsReadFinal
  <1> QED BY <1>2, <1>3, <1>5 DEF Builds, BuildsReadFinal, LockedReadsStayTrue

\* Every step keeps the inductive invariant.
LEMMA InvStep ==
    ASSUME TypeOK, Ledger, Builds, [Next]_vars
    PROVE  TypeOK' /\ Ledger' /\ Builds'
  <1>1. TypeOK'
    <2>1. \A w \in Writer : writer[w].pc # "idle" => writer[w].run \in Runs
      BY SnapshotsAreRuns DEF Builds, BuildsReadFinal
    <2> QED BY <2>1, TypeStep
  <1>2. CASE Load
    BY <1>1, <1>2, LoadStep
  <1>3. ASSUME NEW w \in Writer, Build(w) PROVE Ledger' /\ Builds'
    <2>1. CASE \E r \in Runs : ReadLatest(w, r)
      BY <2>1, ReadLatestStep
    <2>2. CASE Lock(w)
      BY <2>2, LockStep
    <2>3. CASE Reconcile(w)
      BY <2>3, ReconcileStep
    <2>4. CASE CommitRefused(w)
      BY <2>4, ReleaseStep
    <2>5. CASE Commit(w)
      BY <2>5, CommitLedger, CommitBuilds
    <2> QED BY <1>3, <2>1, <2>2, <2>3, <2>4, <2>5 DEF Build
  <1>4. ASSUME NEW w \in Writer, Abort(w) PROVE Ledger' /\ Builds'
    BY <1>4, ReleaseStep
  <1>5. CASE UNCHANGED vars
    <2>1. UNCHANGED <<run, claims, progress, lockedBy, writer, recorded>>
      BY <1>5 DEF vars
    <2>2. /\ Snapshots' = Snapshots
          /\ \A v \in Writer :
                /\ Withdrawn(writer[v].run)' = Withdrawn(writer[v].run)
                /\ {Opened(writer[v].run, f) : f \in Unstated(writer[v].run, Kept(writer[v].run))}'
                     = {Opened(writer[v].run, f) : f \in Unstated(writer[v].run, Kept(writer[v].run))}
      BY <2>1 DEF Snapshots, OkRuns, Withdrawn, Kept, Unstated, Opened, IsOpen
    <2>3. Builds'
      BY <2>1, <2>2 DEF Builds, BuildsReadFinal, LockedReadsStayTrue
    <2> QED BY <1>1, <2>1, <2>3, LedgerUntouched
  <1> QED BY <1>1, <1>2, <1>3, <1>4, <1>5 DEF Next

\* The invariant holds in every behaviour of the ledger.
LEMMA Invariance == Spec => [](TypeOK /\ Ledger /\ Builds)
  <1>1. Init => TypeOK
    BY ConstantsAssumption DEF Init, TypeOK, RunState, Snapshot, Progress, WriterState, Idle, Runs
  <1>2. Init => Ledger
    BY DEF Init, Ledger, RecordedIsFinal, ClaimsSpanRecorded, ProgressIsNewest, OneOpenClaim,
           HistoryFaithful, ObservedToIsLastObservation
  <1>3. Init => Builds
    BY DEF Init, Builds, BuildsReadFinal, LockedReadsStayTrue, Idle
  <1>4. (TypeOK /\ Ledger /\ Builds) /\ [Next]_vars => (TypeOK /\ Ledger /\ Builds)'
    BY InvStep
  <1> QED BY <1>1, <1>2, <1>3, <1>4, PTL DEF Spec

-----------------------------------------------------------------------------
(* The theorems.                                                           *)

\* The claims valid at any recorded run are exactly that run's snapshot, whatever builds
\* overlapped, failed or were repeated since: the ranges of identity/claims.py lose nothing.
THEOREM HistoryIsKept == Spec => []HistoryFaithful
  <1>1. Ledger => HistoryFaithful
    BY DEF Ledger
  <1> QED BY <1>1, Invariance, PTL

\* The unique index claim_open_uq is never met: record never opens a second claim of a slot.
THEOREM OpenClaimsAreUnique == Spec => []OneOpenClaim
  <1>1. Ledger => OneOpenClaim
    BY DEF Ledger
  <1> QED BY <1>1, Invariance, PTL

\* claim_progress always names the newest recorded run and its time.
THEOREM ProgressIsExact == Spec => []ProgressIsNewest
  <1>1. Ledger => ProgressIsNewest
    BY DEF Ledger
  <1> QED BY <1>1, Invariance, PTL

\* observed_to of every closed claim is the last recorded observation of it.
THEOREM ObservedToIsExact == Spec => []ObservedToIsLastObservation
  <1>1. Ledger => ObservedToIsLastObservation
    BY DEF Ledger
  <1> QED BY <1>1, Invariance, PTL

\* Nothing a build read under the advisory lock is stale when it commits.
THEOREM LockProtectsReads == Spec => []LockedReadsStayTrue
  <1>1. Builds => LockedReadsStayTrue
    BY DEF Builds
  <1> QED BY <1>1, Invariance, PTL

\* Rows are only added, or closed once by the step that records a newer run: nothing is deleted,
\* reopened or rewritten.
THEOREM ClaimsMoveForward == Spec => ClaimsOnlyMoveForward
  <1> DEFINE Forward == /\ \A c \in claims :
                              \/ c \in claims'
                              \/ IsOpen(c) /\ \E d \in claims' : d = Closed(c, progress'.run, d.to)
                        /\ claims' # claims => progress'.run > progress.run
  <1>1. ASSUME TypeOK, Ledger, Builds, NEW w \in Writer, Commit(w) PROVE Forward
    <2>1. PICK r : r = writer[w].run
      OBVIOUS
    <2>2. /\ r \in Nat /\ r > progress.run /\ progress'.run = r /\ Seen(w) \in Nat
          /\ claims' = (claims \ Withdrawn(r))
                         \cup {Closed(c, r, Seen(w)) : c \in Withdrawn(r)}
                         \cup {Opened(r, f) : f \in Unstated(r, Kept(r))}
      BY <1>1, <2>1, CommitEffect
    <2>3. ASSUME NEW c \in Withdrawn(r)
          PROVE  IsOpen(c) /\ \E d \in claims' : d = Closed(c, progress'.run, d.to)
      <3>1. PICK d : d = Closed(c, r, Seen(w))
        OBVIOUS
      <3>2. c \in Claim /\ IsOpen(c)
        BY <1>1 DEF Withdrawn, TypeOK
      <3>3. d.to = Seen(w)
        BY <2>2, <3>1, <3>2, ClosedFields
      <3> QED BY <2>2, <3>1, <3>2, <3>3
    <2> QED BY <2>2, <2>3
  <1>2. ASSUME [Next]_vars, UNCHANGED <<claims, progress>> PROVE Forward
    BY <1>2
  <1>3. [Next]_vars => UNCHANGED <<claims, progress>> \/ \E w \in Writer : Commit(w)
    BY DEF Next, Load, StartRun, BeginLanding, FinishOk, LoseRun, Build, ReadLatest, Lock,
           Reconcile, CommitRefused, Abort, vars
  <1>4. (TypeOK /\ Ledger /\ Builds) /\ [Next]_vars => [Forward]_vars
    BY <1>1, <1>2, <1>3
  <1> QED BY <1>4, Invariance, PTL DEF Spec, ClaimsOnlyMoveForward

\* Every landing is stamped, and a claim is first observed when its first run landed.
Stamped ==
    /\ \A r \in Runs : run[r].status \in {"landing", "ok"} => run[r].at > 0
    /\ \A c \in claims : c.from = run[c.first].at

\* Only a landing stamps a run, and only a build writes a claim.
LEMMA StampedStep ==
    ASSUME TypeOK, Ledger, Builds, Stamped, [Next]_vars
    PROVE  Stamped'
  <1>1. CASE Load
    <2>1. ASSUME NEW r \in Runs, run'[r].status \in {"landing", "ok"} PROVE run'[r].at > 0
      <3>1. ASSUME NEW q \in Runs, StartRun(q) PROVE run'[r].at > 0
        BY <2>1, <3>1 DEF StartRun, TypeOK, Stamped
      <3>2. ASSUME NEW q \in Runs, NEW facts \in Snapshot, BeginLanding(q, facts)
            PROVE  run'[r].at > 0
        BY <2>1, <3>2 DEF BeginLanding, TypeOK, Stamped
      <3>3. ASSUME NEW q \in Runs, FinishOk(q) PROVE run'[r].at > 0
        BY <2>1, <3>3 DEF FinishOk, TypeOK, Stamped
      <3>4. ASSUME NEW q \in Runs, LoseRun(q) PROVE run'[r].at > 0
        BY <2>1, <3>4 DEF LoseRun, TypeOK, Stamped
      <3> QED BY <1>1, <3>1, <3>2, <3>3, <3>4 DEF Load
    <2>2. \A c \in claims' : c.from = run'[c.first].at
      BY <1>1, LoadKeepsSnapshots DEF Stamped, Ledger, ClaimsSpanRecorded, RecordedIsFinal
    <2> QED BY <2>1, <2>2 DEF Stamped
  <1>2. ASSUME NEW w \in Writer, Commit(w) PROVE Stamped'
    <2>1. PICK r : r = writer[w].run
      OBVIOUS
    <2>2. run' = run /\ r \in Nat /\ Seen(w) \in Nat
      BY <1>2, <2>1, CommitEffect
    <2>3. ASSUME NEW d \in claims' PROVE d.from = run[d.first].at
      <3>1. CASE d \in claims \ Withdrawn(r)
        BY <3>1 DEF Stamped
      <3>2. ASSUME NEW c \in Withdrawn(r), d = Closed(c, r, Seen(w))
            PROVE  d.from = run[d.first].at
        <4>1. c \in claims /\ c \in Claim
          BY DEF Withdrawn, TypeOK
        <4> QED BY <2>2, <3>2, <4>1, ClosedFields DEF Stamped
      <3>3. CASE d = Opened(r, d.fact)
        BY <3>3 DEF Opened
      <3> QED BY <1>2, <2>1, <3>1, <3>2, <3>3, RowsAfter
    <2> QED BY <2>2, <2>3 DEF Stamped
  <1>3. CASE UNCHANGED <<run, claims>>
    BY <1>3 DEF Stamped
  <1>4. Load \/ UNCHANGED <<run, claims>> \/ \E w \in Writer : Commit(w)
    BY DEF Next, Build, ReadLatest, Lock, Reconcile, CommitRefused, Abort, vars
  <1> QED BY <1>1, <1>2, <1>3, <1>4

\* The claims a build closes began at recorded runs, the newest of which gives observed_to.
LEMMA RangeHolds ==
    ASSUME TypeOK, Ledger, Builds, Stamped PROVE InRangeIfLandedInOrder
  <1> SUFFICES ASSUME LandedInOrder, NEW w \in Writer, writer[w].pc = "locked",
                      NEW c \in Withdrawn(writer[w].run)
               PROVE  c.from <= Seen(w)
    BY DEF InRangeIfLandedInOrder, NeverOutOfRange, InRange
  <1>1. c \in claims /\ c.first \in recorded /\ c.from = run[c.first].at
    BY DEF Withdrawn, Stamped, Ledger, ClaimsSpanRecorded
  <1>2. /\ progress.run \in recorded /\ progress.at = run[progress.run].at
        /\ c.first <= progress.run
    BY <1>1 DEF Ledger, ProgressIsNewest
  <1>3. \A r \in recorded : r \in Runs /\ r \in Nat /\ r # 0 /\ r \in Landed /\ run[r].at \in Nat
    BY SnapshotsAreRuns DEF Ledger, RecordedIsFinal, Stamped, Landed, TypeOK, RunState
  <1>4. Seen(w) = progress.at
    BY <1>2, <1>3 DEF Seen, Builds, LockedReadsStayTrue
  <1>5. run[c.first].at <= run[progress.run].at
    BY <1>1, <1>2, <1>3 DEF LandedInOrder
  <1> QED BY <1>1, <1>2, <1>4, <1>5

\* CHECK claim_range never refuses a build as long as the feed's loads land in run order: what
\* docs/specs/raw-retention.md allows, two loads in flight, is the only way to meet it.
THEOREM RangeIsSafeInOrder == Spec => []InRangeIfLandedInOrder
  <1>1. Init => Stamped
    BY DEF Init, Stamped
  <1>2. (TypeOK /\ Ledger /\ Builds) /\ Stamped /\ [Next]_vars => Stamped'
    BY StampedStep
  <1>3. (TypeOK /\ Ledger /\ Builds) /\ Stamped => InRangeIfLandedInOrder
    BY RangeHolds
  <1> QED BY <1>1, <1>2, <1>3, Invariance, PTL DEF Spec

-----------------------------------------------------------------------------
(* The refinement of ClaimHistory.                                         *)

\* The snapshots as the abstract table publishes them, and what it answers.
Published == [r \in OkRuns |-> run[r].facts]
Answers == [r \in recorded |-> AsOf(r)]

\* Finishing a run publishes its snapshot; every other load publishes nothing.
LEMMA LoadRefines ==
    ASSUME TypeOK, Ledger, Builds, Load
    PROVE  UNCHANGED Answers /\ (UNCHANGED Published \/ History!Publish)
  <1>1. UNCHANGED <<claims, recorded>>
    BY LoadKeepsSnapshots
  <1>2. UNCHANGED Answers
    BY <1>1 DEF Answers, AsOf, IsOpen
  <1>3. ASSUME NEW r \in Runs, StartRun(r) \/ (\E facts \in Snapshot : BeginLanding(r, facts)) \/ LoseRun(r)
        PROVE  UNCHANGED Published
    <2>1. /\ run[r].status # "ok" /\ run'[r].status # "ok"
          /\ \A q \in Runs : q # r => run'[q] = run[q]
      <3>1. CASE StartRun(r)
        BY <3>1 DEF StartRun, TypeOK, RunState
      <3>2. ASSUME NEW facts \in Snapshot, BeginLanding(r, facts)
            PROVE  /\ run[r].status # "ok" /\ run'[r].status # "ok"
                   /\ \A q \in Runs : q # r => run'[q] = run[q]
        BY <3>2 DEF BeginLanding, TypeOK, RunState
      <3>3. CASE LoseRun(r)
        BY <3>3 DEF LoseRun, InFlight, TypeOK, RunState
      <3> QED BY <1>3, <3>1, <3>2, <3>3
    <2>2. OkRuns' = OkRuns /\ \A q \in OkRuns : run'[q] = run[q]
      BY <2>1 DEF OkRuns
    <2> QED BY <2>2 DEF Published
  <1>4. ASSUME NEW r \in Runs, FinishOk(r) PROVE History!Publish
    <2>1. /\ run[r].status # "ok" /\ run'[r].status = "ok"
          /\ \A q \in Runs : q # r => run'[q] = run[q]
      BY <1>4 DEF FinishOk, TypeOK, RunState
    <2>2. OkRuns' = OkRuns \cup {r} /\ r \notin OkRuns /\ \A q \in OkRuns : run'[q] = run[q]
      BY <2>1 DEF OkRuns
    <2>3. Published' = History!Extend(Published, r, Published'[r])
      BY <2>2 DEF Published, History!Extend
    <2>4. r \in DOMAIN Published' \ DOMAIN Published
      BY <2>2 DEF Published
    <2> QED BY <1>2, <2>3, <2>4 DEF History!Publish, Published, Answers
  <1> QED BY <1>2, <1>3, <1>4 DEF Load

\* A commit records one snapshot, newer than every recorded one, and rewrites no answer.
LEMMA CommitRefines ==
    ASSUME TypeOK, Ledger, Builds, NEW w \in Writer, Commit(w)
    PROVE  History!Record
  <1>1. PICK r : r = writer[w].run
    OBVIOUS
  <1>2. /\ r \in Snapshots /\ recorded' = recorded \cup {r} /\ run' = run
        /\ \A q \in recorded : q < r
    BY <1>1, CommitEffect, CommitIsNewest
  <1>3. (\A q \in recorded : AsOf(q)' = AsOf(q)) /\ AsOf(r)' = run[r].facts
    BY <1>1, CommitAsOf
  <1>4. r \in OkRuns /\ run[r].facts # {}
    BY <1>2 DEF Snapshots
  <1>5. UNCHANGED Published
    BY <1>2 DEF Published, OkRuns
  <1>6. Answers' = History!Extend(Answers, r, Published[r])
    BY <1>2, <1>3, <1>4 DEF Answers, Published, History!Extend
  <1>7. r \in DOMAIN Published /\ Published[r] # {} /\ \A q \in DOMAIN Answers : q < r
    BY <1>2, <1>4 DEF Published, Answers
  <1> QED BY <1>5, <1>6, <1>7 DEF History!Record, Published, Answers

\* Every step of the ledger is a step of the table of copies, or none.
LEMMA StepRefines ==
    ASSUME TypeOK, Ledger, Builds, [Next]_vars
    PROVE  [History!Next]_History!vars
  <1>1. CASE Load
    BY <1>1, LoadRefines DEF History!Next, History!vars, Published, Answers
  <1>2. ASSUME NEW w \in Writer, Commit(w) PROVE History!Next
    BY <1>2, CommitRefines DEF History!Next
  <1>3. ASSUME UNCHANGED <<run, claims, recorded>> PROVE UNCHANGED History!vars
    <2>1. OkRuns' = OkRuns /\ \A r : AsOf(r)' = AsOf(r)
      BY <1>3 DEF OkRuns, AsOf, IsOpen
    <2> QED BY <1>3, <2>1 DEF History!vars
  <1>4. \/ Load \/ UNCHANGED <<run, claims, recorded>> \/ \E w \in Writer : Commit(w)
    BY DEF Next, Build, ReadLatest, Lock, Reconcile, CommitRefused, Abort, vars
  <1> QED BY <1>1, <1>2, <1>3, <1>4

\* The validity-ranged table is, to every reader, the table with one full copy a run.
THEOREM LedgerImplementsHistory == Spec => ImplementsHistory
  <1>1. Init => History!Init
    BY DEF Init, History!Init, OkRuns
  <1>2. (TypeOK /\ Ledger /\ Builds) /\ [Next]_vars => [History!Next]_History!vars
    BY StepRefines
  <1> QED BY <1>1, <1>2, Invariance, PTL DEF Spec, ImplementsHistory, History!Spec
=============================================================================

-------------------------- MODULE SnapshotRetention --------------------------
(***************************************************************************)
(* scripts/prune_snapshots.py on one raw_* table, while loaders land runs  *)
(* in it: every run is a full copy of its source, the newest ok run is the *)
(* one everybody reads, and the older copies are deleted (--apply, the     *)
(* nightly) or the table is rewritten without them (--compact, by hand).   *)
(* A run's rows are landed and pruned together, so the table is the set of *)
(* runs whose rows it holds.  Sizes, VACUUM and the dry run are left out.  *)
(***************************************************************************)
EXTENDS Integers, Sequences, FiniteSets
LOCAL INSTANCE FiniteSetsExt

CONSTANTS
    KeepLatest,     \* KEEP_LATEST
    Ledgers,        \* the ledgers tried: sequences of [status, month, landed], in id order
    Pruners,        \* processes: [name -> "delete" or "compact"]
    Loaders,        \* processes that land runs
    MaxLedger,      \* bound: rows of ingest_run
    MaxMonth        \* bound: calendar months

\* FINISHED: runlog.finish_run writes one of these once and nothing changes it after.
Finished == {"ok", "error"}

Statuses == {"null", "ok", "error", "skipped_fresh"}

ASSUME RetentionAssumption ==
    /\ KeepLatest \in Nat /\ KeepLatest >= 2
    /\ MaxLedger \in Nat /\ MaxMonth \in Nat \ {0}
    /\ \A h \in Ledgers :
          /\ h \in Seq([status: Statuses, month: 1..MaxMonth, landed: BOOLEAN])
          /\ \A i \in DOMAIN h : h[i].month <= h[Len(h)].month
    /\ "none" \notin DOMAIN Pruners
    /\ \A p \in DOMAIN Pruners : Pruners[p] \in {"delete", "compact"}

VARIABLES
    ledger,     \* ingest_run: the runs in id order: [status, month of started_at]
    snapshots,  \* the runs whose rows the table holds
    month,      \* the current month
    landing,    \* [loader -> where it is, and its run]
    prune,      \* [pruner -> where it is, what it read, what it copied]
    lock,       \* the pruner that holds the ACCESS EXCLUSIVE lock, or "none"
    landed      \* history: the runs that were ever landed

retentionVars == <<ledger, snapshots, month, landing, prune, lock, landed>>

NoRun == [pc |-> "idle", run |-> 0]
NoPrune == [pc |-> "idle", read |-> {}, drop |-> {}, copy |-> {}]

RetentionInit ==
    \E h \in Ledgers :
        /\ ledger = [i \in DOMAIN h |-> [status |-> h[i].status, month |-> h[i].month]]
        /\ snapshots = {i \in DOMAIN h : h[i].landed}
        /\ landed = snapshots
        /\ month = IF h = <<>> THEN 1 ELSE h[Len(h)].month
        /\ landing = [w \in Loaders |-> NoRun]
        /\ prune = [p \in DOMAIN Pruners |-> NoPrune]
        /\ lock = "none"

OkIn(runs) == {r \in runs : ledger[r].status = "ok"}

\* Those of the runs that are among the n newest.
Newest(runs, n) == {r \in runs : Cardinality({o \in runs : o > r}) < n}

FirstOfMonth(runs) == {r \in runs : \A o \in runs : ledger[o].month = ledger[r].month => r <= o}

\* Faulty form: only the newest ok runs are kept.
NoSample(runs) ==
    LET ok == OkIn(runs) IN
    IF ok = {} THEN {}
    ELSE {r \in runs : ledger[r].status \in Finished /\ r < Max(ok)} \ Newest(ok, KeepLatest)

\* runs_to_drop: everything not returned is kept, so every doubt keeps.
RunsToDrop(runs) ==
    LET ok == OkIn(runs) IN
    IF ok = {} THEN {}
    ELSE {r \in runs : ledger[r].status \in Finished /\ r < Max(ok)}
         \ (Newest(ok, KeepLatest) \cup FirstOfMonth(ok))

-----------------------------------------------------------------------------
(* A loader: a row of the ledger, the rows in one transaction, the status. *)

MonthPasses ==
    /\ month < MaxMonth
    /\ month' = month + 1
    /\ UNCHANGED <<ledger, snapshots, landing, prune, lock, landed>>

StartRun(w) ==
    /\ landing[w] = NoRun
    /\ Len(ledger) < MaxLedger
    /\ ledger' = Append(ledger, [status |-> "null", month |-> month])
    /\ landing' = [landing EXCEPT ![w] = [pc |-> "started", run |-> Len(ledger) + 1]]
    /\ UNCHANGED <<snapshots, month, prune, lock, landed>>

\* The inserts wait for a pruner that has locked the table.
InsertRows(w) ==
    /\ landing[w].pc = "started"
    /\ lock = "none"
    /\ landing' = [landing EXCEPT ![w].pc = "inserted"]
    /\ UNCHANGED <<ledger, snapshots, month, prune, lock, landed>>

CommitRows(w) ==
    /\ landing[w].pc = "inserted"
    /\ snapshots' = snapshots \cup {landing[w].run}
    /\ landed' = landed \cup {landing[w].run}
    /\ landing' = [landing EXCEPT ![w].pc = "committed"]
    /\ UNCHANGED <<ledger, month, prune, lock>>

\* 'ok' after the commit; 'error' for a download or a parse that failed.
RecordStatus(w) ==
    /\ landing[w].pc \in {"started", "committed"}
    /\ ledger' = [ledger EXCEPT ![landing[w].run].status =
                     IF landing[w].pc = "committed" THEN "ok" ELSE "error"]
    /\ landing' = [landing EXCEPT ![w] = NoRun]
    /\ UNCHANGED <<snapshots, month, prune, lock, landed>>

\* The process dies: an open transaction is rolled back, the status stays NULL.
LoaderDies(w) ==
    /\ landing[w] # NoRun
    /\ landing' = [landing EXCEPT ![w] = NoRun]
    /\ UNCHANGED <<ledger, snapshots, month, prune, lock, landed>>

-----------------------------------------------------------------------------
(* A pruner: one transaction. *)

\* No other transaction has touched the table.
Untouched(p) ==
    /\ \A w \in Loaders : landing[w].pc # "inserted"
    /\ \A o \in DOMAIN Pruners \ {p} : prune[o].pc \notin {"read", "copied"}

\* Faulty form: the rewrite's own TRUNCATE takes the lock.
LockNothing(p) ==
    /\ prune[p].pc = "idle"
    /\ lock = "none"
    /\ prune' = [prune EXCEPT ![p].pc = "begun"]
    /\ UNCHANGED <<ledger, snapshots, month, landing, lock, landed>>

\* A compaction locks the table before it reads the runs; a deletion does not.
LockTable(p) ==
    /\ prune[p].pc = "idle"
    /\ lock = "none"
    /\ IF Pruners[p] = "compact" THEN Untouched(p) /\ lock' = p ELSE UNCHANGED lock
    /\ prune' = [prune EXCEPT ![p].pc = "begun"]
    /\ UNCHANGED <<ledger, snapshots, month, landing, landed>>

ReadRuns(p) ==
    /\ prune[p].pc = "begun"
    /\ lock \in {"none", p}
    /\ prune' = [prune EXCEPT ![p] = [pc |-> "read", read |-> snapshots, drop |-> RunsToDrop(snapshots),
                                      copy |-> {}]]
    /\ UNCHANGED <<ledger, snapshots, month, landing, lock, landed>>

\* The transaction ends.
End(p) ==
    /\ prune' = [prune EXCEPT ![p] = NoPrune]
    /\ lock' = IF lock = p THEN "none" ELSE lock

NothingToDrop(p) ==
    /\ prune[p].pc = "read" /\ prune[p].drop = {}
    /\ End(p)
    /\ UNCHANGED <<ledger, snapshots, month, landing, landed>>

\* A count that is not the planned one (another pruner has been here) rolls the deletion back.
DeleteRuns(p) ==
    /\ Pruners[p] = "delete"
    /\ prune[p].pc = "read" /\ prune[p].drop # {}
    /\ snapshots' = IF prune[p].drop \subseteq snapshots THEN snapshots \ prune[p].drop ELSE snapshots
    /\ End(p)
    /\ UNCHANGED <<ledger, month, landing, landed>>

\* compact: the kept rows are copied; another count than planned raises.
CopyKept(p) ==
    /\ Pruners[p] = "compact"
    /\ prune[p].pc = "read" /\ prune[p].drop # {}
    /\ IF snapshots \ prune[p].drop = prune[p].read \ prune[p].drop
       THEN /\ prune' = [prune EXCEPT ![p].pc = "copied", ![p].copy = snapshots \ prune[p].drop]
            /\ UNCHANGED lock
       ELSE End(p)
    /\ UNCHANGED <<ledger, snapshots, month, landing, landed>>

\* TRUNCATE, which waits for every transaction on the table, and the copy put back.
Rewrite(p) ==
    /\ prune[p].pc = "copied"
    /\ Untouched(p)
    /\ snapshots' = prune[p].copy
    /\ End(p)
    /\ UNCHANGED <<ledger, month, landing, landed>>

\* A lock timeout, an error or a crash: the transaction is rolled back.
PruneAborts(p) ==
    /\ prune[p].pc # "idle"
    /\ End(p)
    /\ UNCHANGED <<ledger, snapshots, month, landing, landed>>

RetentionNext ==
    \/ MonthPasses
    \/ \E w \in Loaders :
          StartRun(w) \/ InsertRows(w) \/ CommitRows(w) \/ RecordStatus(w) \/ LoaderDies(w)
    \/ \E p \in DOMAIN Pruners :
          \/ LockTable(p) \/ ReadRuns(p) \/ NothingToDrop(p) \/ DeleteRuns(p)
          \/ CopyKept(p) \/ Rewrite(p) \/ PruneAborts(p)

RetentionSpec == RetentionInit /\ [][RetentionNext]_retentionVars

-----------------------------------------------------------------------------
RetentionTypeOK ==
    /\ ledger \in Seq([status: Statuses, month: 1..month])
    /\ snapshots \subseteq landed /\ landed \subseteq DOMAIN ledger
    /\ month \in 1..MaxMonth
    /\ landing \in [Loaders -> [pc: {"idle", "started", "inserted", "committed"},
                                run: DOMAIN ledger \cup {0}]]
    /\ prune \in [DOMAIN Pruners -> [pc: {"idle", "begun", "read", "copied"}, read: SUBSET landed,
                                      drop: SUBSET landed, copy: SUBSET landed]]
    /\ lock \in {"none"} \cup DOMAIN Pruners

\* "every reader of these tables wants only the newest OK run (identity/churn.py wants the newest
\* two)": with retention, the two newest ok runs are those there would be without it, whatever was
\* landing while the table was pruned or rewritten, and a run that is still in flight keeps the
\* rows it has committed.
ReadersSeeTheSame ==
    /\ Newest(OkIn(landed), 2) \subseteq snapshots
    /\ \A r \in landed : ledger[r].status = "null" => r \in snapshots

\* "keep the first OK run of every calendar month (UTC), a monthly sample of history": the sample
\* is the first by id even when it was slower to finish than the runs after it.
MonthlySampleKept == FirstOfMonth(OkIn(landed)) \subseteq snapshots
=============================================================================

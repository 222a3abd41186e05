-------------------------- MODULE Snapshots_proofs --------------------------
(***************************************************************************)
(* The loaders and the pruners of the raw tables, for every value of the   *)
(* constants: pruning takes nothing that a reader of the newest runs or of *)
(* the monthly sample would have read (SnapshotRetention), and what the    *)
(* loaders land is whole (IngestFeeds).                                    *)
(***************************************************************************)
EXTENDS SnapshotRetention, IngestFeeds, NatFacts, TLAPS

Row(months) == [status: Statuses, month: months]

\* The ok runs among some of a ledger, and the finished ones.
OkOf(book, some) == {r \in some : book[r].status = "ok"}

\* A run whose rows nobody wants: it failed, or two newer runs and an older one of its month are ok.
Superfluous(r, book, there) ==
    /\ r \in there /\ book[r].status \in Finished
    /\ book[r].status = "ok" =>
          /\ Cardinality({o \in OkOf(book, there) : o > r}) >= 2
          /\ \E o \in OkOf(book, there) : o < r /\ book[o].month = book[r].month

\* What later ledgers keep of a ledger: the rows, their months and the final statuses.
Follows(later, book) ==
    /\ DOMAIN book \subseteq DOMAIN later
    /\ \A i \in DOMAIN book : /\ later[i].month = book[i].month
                              /\ book[i].status \in Finished => later[i].status = book[i].status

\* What is gone from the table is superfluous, and so is what a pruner is about to drop.
GoneIsSuperfluous == \A r \in landed \ snapshots : Superfluous(r, ledger, landed)
DropIsSuperfluous ==
    \A p \in DOMAIN Pruners : \A r \in prune[p].drop : Superfluous(r, ledger, landed)

\* A run in flight has no status yet and is one loader's only.
InFlight ==
    \A w \in Loaders : landing[w].pc # "idle" =>
        /\ landing[w].run \in DOMAIN ledger /\ ledger[landing[w].run].status = "null"
        /\ \A v \in Loaders : landing[v].pc # "idle" /\ landing[v].run = landing[w].run => v = w

\* A compaction holds the lock from its first step, nobody else works on the table meanwhile, and
\* its copy is the table without what it drops.
LockIsExclusive ==
    \A p \in DOMAIN Pruners :
        /\ Pruners[p] = "compact" /\ prune[p].pc # "idle" => lock = p
        /\ lock = p => Untouched(p)
CopyIsTable ==
    \A p \in DOMAIN Pruners : prune[p].pc = "copied" =>
        Pruners[p] = "compact" /\ prune[p].copy = snapshots \ prune[p].drop

\* The inductive invariant.
RetentionInv ==
    /\ RetentionTypeOK
    /\ GoneIsSuperfluous
    /\ DropIsSuperfluous
    /\ InFlight
    /\ LockIsExclusive
    /\ CopyIsTable

\* The name of no lock is no pruner's.
LEMMA PrunersAreNamed == \A o \in DOMAIN Pruners : o # "none"
  BY RetentionAssumption

-----------------------------------------------------------------------------
(* What is superfluous.                                                    *)

\* A superfluous run stays superfluous as the ledger grows and runs land.
LEMMA SuperfluousStays ==
    ASSUME NEW book, NEW later, Follows(later, book), NEW there, NEW more, there \subseteq more,
           there \subseteq DOMAIN book, more \subseteq DOMAIN later, IsFiniteSet(DOMAIN later),
           NEW r, Superfluous(r, book, there)
    PROVE  Superfluous(r, later, more)
  <1>1. /\ r \in there /\ r \in DOMAIN book /\ book[r].status \in Finished
        /\ later[r].status = book[r].status /\ later[r].month = book[r].month
    BY DEF Superfluous, Follows
  <1>2. OkOf(book, there) \subseteq OkOf(later, more)
    BY DEF OkOf, Follows, Finished
  <1>3. ASSUME book[r].status = "ok"
        PROVE  Cardinality({o \in OkOf(later, more) : o > r}) >= 2
    <2> DEFINE A == {o \in OkOf(book, there) : o > r}
               B == {o \in OkOf(later, more) : o > r}
    <2>1. A \subseteq B /\ B \subseteq DOMAIN later
      BY <1>2 DEF OkOf
    <2>2. Cardinality(A) >= 2
      BY <1>3 DEF Superfluous
    <2> HIDE DEF A, B
    <2>3. IsFiniteSet(B)
      BY <2>1, FS_Subset
    <2>4. Cardinality(A) <= Cardinality(B) /\ Cardinality(A) \in Nat /\ Cardinality(B) \in Nat
      BY <2>1, <2>3, FS_Subset, FS_CardinalityType
    <2>5. Cardinality(B) >= 2
      BY <2>2, <2>4
    <2> QED BY <2>5 DEF B
  <1>4. ASSUME book[r].status = "ok"
        PROVE  \E o \in OkOf(later, more) : o < r /\ later[o].month = later[r].month
    <2>1. PICK o \in OkOf(book, there) : o < r /\ book[o].month = book[r].month
      BY <1>4 DEF Superfluous
    <2>2. o \in DOMAIN book /\ later[o].month = book[o].month
      BY DEF OkOf, Follows
    <2> QED BY <1>1, <1>2, <2>1, <2>2
  <1> QED BY <1>1, <1>3, <1>4 DEF Superfluous

\* The runs of a ledger are finitely many natural numbers.
LEMMA LedgerFacts ==
    ASSUME RetentionTypeOK
    PROVE  /\ IsFiniteSet(DOMAIN ledger) /\ DOMAIN ledger \subseteq Nat
           /\ DOMAIN ledger = 1..Len(ledger) /\ Len(ledger) \in Nat
           /\ landed \subseteq DOMAIN ledger /\ IsFiniteSet(landed)
           /\ month \in Nat
  <1>1. DOMAIN ledger = 1..Len(ledger) /\ Len(ledger) \in Nat /\ month \in Nat
    BY DEF RetentionTypeOK, Statuses
  <1>2. IsFiniteSet(1..Len(ledger))
    BY <1>1, FS_Interval
  <1>3. landed \subseteq DOMAIN ledger
    BY DEF RetentionTypeOK
  <1>4. IsFiniteSet(landed)
    BY <1>1, <1>2, <1>3, FS_Subset
  <1> QED BY <1>1, <1>2, <1>3, <1>4

\* runs_to_drop returns superfluous runs only.
LEMMA DropsOnlySuperfluous ==
    ASSUME RetentionTypeOK, NEW r \in RunsToDrop(snapshots)
    PROVE  Superfluous(r, ledger, landed)
  <1> DEFINE ok == OkIn(snapshots)
  <1>1. /\ r \in snapshots /\ ledger[r].status \in Finished
        /\ r \notin Newest(ok, KeepLatest) /\ r \notin FirstOfMonth(ok)
    BY DEF RunsToDrop
  <1>2. ok \subseteq OkOf(ledger, landed) /\ snapshots \subseteq landed
    BY DEF OkIn, OkOf, RetentionTypeOK
  <1>3. OkOf(ledger, landed) \subseteq landed
    BY DEF OkOf
  <1>4. ASSUME ledger[r].status = "ok"
        PROVE  Cardinality({o \in OkOf(ledger, landed) : o > r}) >= 2
    <2> DEFINE A == {o \in ok : o > r}
               B == {o \in OkOf(ledger, landed) : o > r}
    <2>1. r \in ok /\ ~(Cardinality(A) < KeepLatest)
      BY <1>1, <1>4 DEF Newest, OkIn
    <2>2. A \subseteq B /\ B \subseteq landed
      BY <1>2, <1>3
    <2> HIDE DEF A, B
    <2>3. IsFiniteSet(B)
      BY <2>2, LedgerFacts, FS_Subset
    <2>4. Cardinality(A) <= Cardinality(B) /\ Cardinality(A) \in Nat /\ Cardinality(B) \in Nat
      BY <2>2, <2>3, FS_Subset, FS_CardinalityType
    <2>5. Cardinality(B) >= 2
      BY <2>1, <2>4, RetentionAssumption
    <2> QED BY <2>5 DEF B
  <1>5. ASSUME ledger[r].status = "ok"
        PROVE  \E o \in OkOf(ledger, landed) : o < r /\ ledger[o].month = ledger[r].month
    <2>1. r \in ok
      BY <1>1, <1>5 DEF OkIn
    <2>2. PICK o \in ok : ledger[o].month = ledger[r].month /\ ~(r <= o)
      BY <1>1, <2>1 DEF FirstOfMonth
    <2>3. o \in Nat /\ r \in Nat
      BY <1>1, <1>2, <1>3, LedgerFacts
    <2> QED BY <1>2, <2>2, <2>3
  <1> QED BY <1>1, <1>2, <1>4, <1>5 DEF Superfluous

\* Nothing the readers want is superfluous.
LEMMA WantedIsNotSuperfluous ==
    ASSUME RetentionTypeOK, GoneIsSuperfluous
    PROVE  ReadersSeeTheSame /\ MonthlySampleKept
  <1>1. ASSUME NEW r \in Newest(OkIn(landed), 2), r \notin snapshots PROVE FALSE
    <2>1. /\ r \in landed /\ ledger[r].status = "ok"
          /\ Cardinality({o \in OkIn(landed) : o > r}) < 2
      BY DEF Newest, OkIn
    <2>2. Cardinality({o \in OkOf(ledger, landed) : o > r}) >= 2
      BY <1>1, <2>1 DEF GoneIsSuperfluous, Superfluous
    <2> DEFINE A == {o \in OkOf(ledger, landed) : o > r}
    <2>3. A \subseteq landed /\ OkOf(ledger, landed) = OkIn(landed)
      BY DEF OkOf, OkIn
    <2> HIDE DEF A
    <2>4. Cardinality(A) \in Nat
      BY <2>3, LedgerFacts, FS_Subset, FS_CardinalityType
    <2>5. Cardinality(A) < 2 /\ Cardinality(A) >= 2
      BY <2>1, <2>2, <2>3 DEF A
    <2> QED BY <2>4, <2>5
  <1>2. ASSUME NEW r \in landed, ledger[r].status = "null", r \notin snapshots PROVE FALSE
    BY <1>2 DEF GoneIsSuperfluous, Superfluous, Finished
  <1>3. ASSUME NEW r \in FirstOfMonth(OkIn(landed)), r \notin snapshots PROVE FALSE
    <2>1. /\ r \in landed /\ ledger[r].status = "ok"
          /\ \A o \in OkIn(landed) : ledger[o].month = ledger[r].month => r <= o
      BY DEF FirstOfMonth, OkIn
    <2>2. PICK o \in OkOf(ledger, landed) : o < r /\ ledger[o].month = ledger[r].month
      BY <1>3, <2>1 DEF GoneIsSuperfluous, Superfluous
    <2>3. o \in OkIn(landed) /\ o \in Nat /\ r \in Nat
      BY <2>1, LedgerFacts DEF OkOf, OkIn
    <2> QED BY <2>1, <2>2, <2>3
  <1> QED BY <1>1, <1>2, <1>3 DEF ReadersSeeTheSame, MonthlySampleKept

-----------------------------------------------------------------------------
(* The steps of a loader.                                                  *)

\* What the loaders do to the ledger and the table leaves what is gone and what will go superfluous.
LEMMA LedgerGrows ==
    ASSUME RetentionTypeOK, GoneIsSuperfluous, DropIsSuperfluous, RetentionTypeOK',
           Follows(ledger', ledger), landed \subseteq landed', landed' \ snapshots' \subseteq landed \ snapshots,
           UNCHANGED prune
    PROVE  GoneIsSuperfluous' /\ DropIsSuperfluous'
  <1>1. /\ landed \subseteq DOMAIN ledger /\ landed' \subseteq DOMAIN ledger'
        /\ IsFiniteSet(DOMAIN ledger')
    <2>1. IsFiniteSet(1..Len(ledger')) /\ DOMAIN ledger' = 1..Len(ledger')
      BY FS_Interval DEF RetentionTypeOK
    <2> QED BY <2>1 DEF RetentionTypeOK
  <1>2. ASSUME NEW r, Superfluous(r, ledger, landed) PROVE Superfluous(r, ledger', landed')
    BY <1>1, <1>2, SuperfluousStays
  <1>3. GoneIsSuperfluous'
    BY <1>2 DEF GoneIsSuperfluous
  <1>4. DropIsSuperfluous'
    BY <1>2 DEF DropIsSuperfluous
  <1> QED BY <1>3, <1>4

\* A ledger that stays, grows by a row or gets a final status where there was none follows.
LEMMA LedgerFollows ==
    ASSUME RetentionTypeOK
    PROVE  /\ Follows(ledger, ledger)
           /\ \A row : Follows(Append(ledger, row), ledger)
           /\ \A i \in DOMAIN ledger : \A s :
                 ledger[i].status = "null" => Follows([ledger EXCEPT ![i].status = s], ledger)
  <1>1. ledger \in Seq(Row(1..month))
    BY DEF RetentionTypeOK, Row
  <1>2. \A row : Follows(Append(ledger, row), ledger)
    BY <1>1 DEF Follows
  <1>3. ASSUME NEW i \in DOMAIN ledger, NEW s, ledger[i].status = "null"
        PROVE  Follows([ledger EXCEPT ![i].status = s], ledger)
    BY <1>1, <1>3 DEF Follows, Finished, Row
  <1> QED BY <1>2, <1>3 DEF Follows

\* The months of the rows are past ones whatever month it is.
LEMMA MonthStep ==
    ASSUME RetentionInv, MonthPasses
    PROVE  RetentionInv'
  <1>1. /\ month' = month + 1 /\ month \in 1..MaxMonth /\ month < MaxMonth
        /\ UNCHANGED <<ledger, snapshots, landing, prune, lock, landed>>
        /\ RetentionTypeOK /\ MaxMonth \in Nat
    BY RetentionAssumption DEF RetentionInv, RetentionTypeOK, MonthPasses
  <1>2. ledger \in Seq(Row(1..month')) /\ month' \in 1..MaxMonth
    <2>1. Row(1..month) \subseteq Row(1..month')
      BY <1>1 DEF Row
    <2>2. ledger \in Seq(Row(1..month))
      BY <1>1 DEF RetentionTypeOK, Row
    <2> QED BY <1>1, <2>1, <2>2
  <1>3. RetentionTypeOK'
    BY <1>1, <1>2 DEF RetentionTypeOK, Row
  <1>4. GoneIsSuperfluous' /\ DropIsSuperfluous'
    BY <1>1, <1>3, LedgerFollows, LedgerGrows DEF RetentionInv
  <1>5. InFlight' /\ LockIsExclusive' /\ CopyIsTable'
    BY <1>1 DEF RetentionInv, InFlight, LockIsExclusive, CopyIsTable, Untouched
  <1> QED BY <1>3, <1>4, <1>5 DEF RetentionInv

\* A run is opened: its row is a new one.
LEMMA StartStep ==
    ASSUME RetentionInv, NEW w \in Loaders, StartRun(w)
    PROVE  RetentionInv'
  <1> DEFINE row == [status |-> "null", month |-> month]
             n == Len(ledger) + 1
  <1>1. /\ ledger' = Append(ledger, row)
        /\ landing' = [landing EXCEPT ![w] = [pc |-> "started", run |-> n]]
        /\ UNCHANGED <<snapshots, month, prune, lock, landed>>
        /\ landing[w].pc = "idle"
    BY DEF StartRun, NoRun
  <1>2. /\ RetentionTypeOK /\ ledger \in Seq(Row(1..month)) /\ row \in Row(1..month)
        /\ DOMAIN ledger = 1..Len(ledger) /\ Len(ledger) \in Nat
    BY LedgerFacts DEF RetentionInv, RetentionTypeOK, Row, Statuses
  <1> HIDE DEF row
  <1>3. /\ ledger' \in Seq(Row(1..month)) /\ Len(ledger') = n /\ DOMAIN ledger' = 1..n
        /\ n \notin DOMAIN ledger /\ DOMAIN ledger' = DOMAIN ledger \cup {n}
        /\ \A i \in DOMAIN ledger : ledger'[i] = ledger[i]
        /\ ledger'[n] = row
    BY <1>1, <1>2, AppendProperties
  <1> HIDE DEF n
  <1>4. RetentionTypeOK'
    <2>1. landing' \in [Loaders -> [pc: {"idle", "started", "inserted", "committed"},
                                    run: DOMAIN ledger' \cup {0}]]
      BY <1>1, <1>2, <1>3 DEF RetentionTypeOK
    <2> QED BY <1>1, <1>2, <1>3, <2>1 DEF RetentionTypeOK, Row
  <1>5. GoneIsSuperfluous' /\ DropIsSuperfluous'
    BY <1>1, <1>2, <1>4, LedgerFollows, LedgerGrows DEF RetentionInv
  <1>6. InFlight'
    <2>1. landing'[w] = [pc |-> "started", run |-> n] /\ row.status = "null"
          /\ \A v \in Loaders \ {w} : landing'[v] = landing[v]
      BY <1>1, <1>2 DEF RetentionTypeOK, row
    <2>2. \A v \in Loaders \ {w} : landing[v].pc # "idle" =>
             landing[v].run \in DOMAIN ledger /\ ledger[landing[v].run].status = "null"
      BY DEF RetentionInv, InFlight
    <2>3. \A v, u \in Loaders \ {w} :
             landing[v].pc # "idle" /\ landing[u].pc # "idle" /\ landing[v].run = landing[u].run => u = v
      BY DEF RetentionInv, InFlight
    <2> SUFFICES ASSUME NEW v \in Loaders, landing'[v].pc # "idle"
                 PROVE  /\ landing'[v].run \in DOMAIN ledger' /\ ledger'[landing'[v].run].status = "null"
                        /\ \A u \in Loaders : landing'[u].pc # "idle" /\ landing'[u].run = landing'[v].run => u = v
      BY DEF InFlight
    <2>4. CASE v = w
      <3>1. landing'[v].run = n
        BY <2>1, <2>4
      <3>2. ASSUME NEW u \in Loaders, landing'[u].pc # "idle", landing'[u].run = n
            PROVE  u = v
        BY <1>3, <2>1, <2>2, <2>4, <3>2
      <3> QED BY <1>3, <2>1, <3>1, <3>2
    <2>5. CASE v # w
      <3>1. landing'[v].run \in DOMAIN ledger /\ ledger[landing'[v].run].status = "null"
        BY <2>1, <2>2, <2>5
      <3>2. ASSUME NEW u \in Loaders, landing'[u].pc # "idle", landing'[u].run = landing'[v].run
            PROVE  u = v
        BY <1>3, <2>1, <2>3, <2>5, <3>1, <3>2
      <3> QED BY <1>3, <3>1, <3>2
    <2> QED BY <2>4, <2>5
  <1>7. LockIsExclusive' /\ CopyIsTable'
    <2>1. \A v \in Loaders : landing'[v].pc = "inserted" => landing[v].pc = "inserted"
      BY <1>1, <1>2 DEF RetentionTypeOK
    <2> QED BY <1>1, <2>1 DEF RetentionInv, LockIsExclusive, CopyIsTable, Untouched
  <1> QED BY <1>4, <1>5, <1>6, <1>7 DEF RetentionInv

\* The rows are inserted when no pruner has the table, and committed: the table grows.
LEMMA LandStep ==
    ASSUME RetentionInv, NEW w \in Loaders, InsertRows(w) \/ CommitRows(w) \/ LoaderDies(w)
    PROVE  RetentionInv'
  <1>1. /\ UNCHANGED <<ledger, month, prune, lock>> /\ RetentionTypeOK
        /\ landing[w] # NoRun /\ landing[w].run \in DOMAIN ledger \cup {0}
    BY DEF RetentionInv, RetentionTypeOK, InsertRows, CommitRows, LoaderDies, NoRun
  <1>2. /\ landing' \in [Loaders -> [pc: {"idle", "started", "inserted", "committed"},
                                     run: DOMAIN ledger \cup {0}]]
        /\ \A v \in Loaders \ {w} : landing'[v] = landing[v]
        /\ landing'[w].pc # "idle" => landing'[w].run = landing[w].run /\ landing[w].pc # "idle"
        /\ landing'[w].pc = "inserted" => lock = "none"
    <2>1. CASE InsertRows(w)
      BY <1>1, <2>1 DEF InsertRows, RetentionTypeOK
    <2>2. CASE CommitRows(w)
      BY <1>1, <2>2 DEF CommitRows, RetentionTypeOK
    <2>3. CASE LoaderDies(w)
      BY <1>1, <2>3 DEF LoaderDies, RetentionTypeOK, NoRun
    <2> QED BY <2>1, <2>2, <2>3
  <1>3. \/ UNCHANGED <<snapshots, landed>>
        \/ /\ landing[w].pc = "inserted"
           /\ snapshots' = snapshots \cup {landing[w].run} /\ landed' = landed \cup {landing[w].run}
    BY DEF InsertRows, CommitRows, LoaderDies
  <1>4. /\ landed \subseteq landed' /\ landed' \ snapshots' \subseteq landed \ snapshots
        /\ snapshots' \subseteq landed' /\ landed' \subseteq DOMAIN ledger
    BY <1>1, <1>3 DEF RetentionInv, RetentionTypeOK, InFlight
  <1>6. RetentionTypeOK'
    BY <1>1, <1>2, <1>4 DEF RetentionTypeOK
  <1>7. GoneIsSuperfluous' /\ DropIsSuperfluous'
    BY <1>1, <1>4, <1>6, LedgerFollows, LedgerGrows DEF RetentionInv
  <1>8. InFlight'
    BY <1>1, <1>2 DEF RetentionInv, InFlight
  <1>9. LockIsExclusive'
    BY <1>1, <1>2, PrunersAreNamed DEF RetentionInv, LockIsExclusive, Untouched
  <1>10. CopyIsTable'
    <2>1. CASE UNCHANGED <<snapshots, landed>>
      BY <1>1, <2>1 DEF RetentionInv, CopyIsTable
    <2>2. CASE landing[w].pc = "inserted"
      BY <1>1, <2>2, RetentionAssumption
         DEF RetentionInv, CopyIsTable, LockIsExclusive, Untouched
    <2> QED BY <1>3, <2>1, <2>2
  <1> QED BY <1>6, <1>7, <1>8, <1>9, <1>10 DEF RetentionInv

\* The status is recorded where there was none.
LEMMA StatusStep ==
    ASSUME RetentionInv, NEW w \in Loaders, RecordStatus(w)
    PROVE  RetentionInv'
  <1> DEFINE r == landing[w].run
             status == IF landing[w].pc = "committed" THEN "ok" ELSE "error"
  <1>1. /\ ledger' = [ledger EXCEPT ![r].status = status]
        /\ landing' = [landing EXCEPT ![w] = NoRun]
        /\ UNCHANGED <<snapshots, month, prune, lock, landed>>
        /\ landing[w].pc # "idle" /\ RetentionTypeOK
    BY DEF RecordStatus, RetentionInv
  <1>2. r \in DOMAIN ledger /\ ledger[r].status = "null" /\ status \in Statuses
    BY <1>1 DEF RetentionInv, InFlight, Statuses
  <1> HIDE DEF status, r
  <1>3. /\ ledger' \in Seq(Row(1..month)) /\ DOMAIN ledger' = DOMAIN ledger
        /\ \A i \in DOMAIN ledger : i # r => ledger'[i] = ledger[i]
    <2>1. ledger \in Seq(Row(1..month))
      BY <1>1 DEF RetentionTypeOK, Row
    <2>2. [ledger[r] EXCEPT !.status = status] \in Row(1..month)
      <3>1. ledger[r] \in Row(1..month)
        BY <1>2, <2>1
      <3> DEFINE months == 1..month
                 row == ledger[r]
      <3> HIDE DEF months, row
      <3>2. row \in Row(months) => [row EXCEPT !.status = status] \in Row(months)
        BY <1>2 DEF Row
      <3> QED BY <3>1, <3>2 DEF months, row
    <2>3. ledger' = [ledger EXCEPT ![r] = [ledger[r] EXCEPT !.status = status]]
      BY <1>1
    <2> QED BY <1>2, <2>1, <2>2, <2>3
  <1>4. landing'[w] = NoRun /\ \A v \in Loaders \ {w} : landing'[v] = landing[v]
    BY <1>1 DEF RetentionTypeOK
  <1>5. RetentionTypeOK'
    <2>1. landing' \in [Loaders -> [pc: {"idle", "started", "inserted", "committed"},
                                    run: DOMAIN ledger \cup {0}]]
      BY <1>1 DEF RetentionTypeOK, NoRun
    <2> QED BY <1>1, <1>3, <2>1 DEF RetentionTypeOK, Row
  <1>6. GoneIsSuperfluous' /\ DropIsSuperfluous'
    BY <1>1, <1>2, <1>5, LedgerFollows, LedgerGrows DEF RetentionInv
  <1>7. InFlight'
    <2>1. \A v \in Loaders \ {w} : landing[v].pc # "idle" =>
             landing[v].run # r /\ landing[v].run \in DOMAIN ledger
             /\ ledger[landing[v].run].status = "null"
      BY <1>1 DEF RetentionInv, InFlight, r
    <2>2. \A v, u \in Loaders \ {w} :
             landing[v].pc # "idle" /\ landing[u].pc # "idle" /\ landing[v].run = landing[u].run => u = v
      BY DEF RetentionInv, InFlight
    <2> QED BY <1>3, <1>4, <2>1, <2>2 DEF InFlight, NoRun
  <1>8. LockIsExclusive' /\ CopyIsTable'
    <2>1. \A v \in Loaders : landing'[v].pc = "inserted" => landing[v].pc = "inserted"
      BY <1>4 DEF NoRun
    <2> QED BY <1>1, <2>1 DEF RetentionInv, LockIsExclusive, CopyIsTable, Untouched
  <1> QED BY <1>5, <1>6, <1>7, <1>8 DEF RetentionInv

-----------------------------------------------------------------------------
(* The steps of a pruner.                                                  *)

PruneRecord == [pc: {"idle", "begun", "read", "copied"}, read: SUBSET landed, drop: SUBSET landed,
                copy: SUBSET landed]

\* A step of one pruner.
LEMMA OnePruneStep ==
    ASSUME RetentionInv, NEW p \in DOMAIN Pruners, NEW q \in PruneRecord,
           prune' = [prune EXCEPT ![p] = q], UNCHANGED <<ledger, month, landing, landed>>,
           snapshots' \subseteq landed, \A r \in landed \ snapshots' : Superfluous(r, ledger, landed),
           \A r \in q.drop : Superfluous(r, ledger, landed),
           lock' \in {"none"} \cup DOMAIN Pruners, LockIsExclusive', CopyIsTable'
    PROVE  RetentionInv'
  <1>1. prune' \in [DOMAIN Pruners -> PruneRecord]
        /\ prune'[p] = q /\ \A o \in DOMAIN Pruners \ {p} : prune'[o] = prune[o]
    BY DEF RetentionInv, RetentionTypeOK, PruneRecord
  <1>2. RetentionTypeOK'
    BY <1>1 DEF RetentionInv, RetentionTypeOK, PruneRecord
  <1>3. GoneIsSuperfluous' /\ DropIsSuperfluous'
    BY <1>1 DEF RetentionInv, GoneIsSuperfluous, DropIsSuperfluous
  <1>4. InFlight'
    BY DEF RetentionInv, InFlight
  <1> QED BY <1>2, <1>3, <1>4 DEF RetentionInv

\* What the invariant says of a pruner.
LEMMA PrunerFacts ==
    ASSUME RetentionInv, NEW p \in DOMAIN Pruners
    PROVE  /\ prune[p] \in PruneRecord /\ prune \in [DOMAIN Pruners -> PruneRecord]
           /\ \A r \in landed \ snapshots : Superfluous(r, ledger, landed)
           /\ \A r \in prune[p].drop : Superfluous(r, ledger, landed)
           /\ snapshots \subseteq landed /\ p # "none" /\ Pruners[p] \in {"delete", "compact"}
           /\ lock \in {"none"} \cup DOMAIN Pruners
  BY RetentionAssumption
     DEF RetentionInv, RetentionTypeOK, PruneRecord, GoneIsSuperfluous, DropIsSuperfluous

\* A pruner begins, a compaction with the table locked.
LEMMA LockStep ==
    ASSUME RetentionInv, NEW p \in DOMAIN Pruners, LockTable(p)
    PROVE  RetentionInv'
  <1> DEFINE q == [prune[p] EXCEPT !.pc = "begun"]
  <1>1. /\ prune' = [prune EXCEPT ![p] = q] /\ UNCHANGED <<ledger, snapshots, month, landing, landed>>
        /\ lock = "none" /\ prune[p].pc = "idle"
        /\ IF Pruners[p] = "compact" THEN Untouched(p) /\ lock' = p ELSE lock' = lock
    BY DEF LockTable
  <1>2. q \in PruneRecord /\ q.drop = prune[p].drop /\ q.pc = "begun"
    BY PrunerFacts DEF PruneRecord
  <1>3. prune'[p] = q /\ \A o \in DOMAIN Pruners \ {p} : prune'[o] = prune[o]
    BY <1>1, PrunerFacts
  <1> HIDE DEF q
  <1>4. LockIsExclusive'
    <2>1. ASSUME NEW o \in DOMAIN Pruners, Pruners[o] = "compact", prune'[o].pc # "idle"
          PROVE  o = p
      BY <1>1, <1>3, <2>1, RetentionAssumption DEF RetentionInv, LockIsExclusive
    <2>2. Untouched(p) => Untouched(p)'
      BY <1>1, <1>3 DEF Untouched
    <2>3. \A o \in DOMAIN Pruners : lock' = o => Untouched(p) /\ o = p
      BY <1>1, PrunersAreNamed
    <2>4. \A o \in DOMAIN Pruners : Pruners[o] = "compact" /\ prune'[o].pc # "idle" => lock' = o
      BY <1>1, <2>1
    <2> HIDE DEF Untouched
    <2> QED BY <2>2, <2>3, <2>4 DEF LockIsExclusive
  <1>5. CopyIsTable'
    BY <1>1, <1>2, <1>3 DEF RetentionInv, CopyIsTable
  <1> QED BY <1>1, <1>2, <1>4, <1>5, PrunerFacts, OnePruneStep

\* The runs are read and the superfluous ones chosen.
LEMMA ReadStep ==
    ASSUME RetentionInv, NEW p \in DOMAIN Pruners, ReadRuns(p)
    PROVE  RetentionInv'
  <1> DEFINE q == [pc |-> "read", read |-> snapshots, drop |-> RunsToDrop(snapshots), copy |-> {}]
  <1>1. /\ prune' = [prune EXCEPT ![p] = q]
        /\ UNCHANGED <<ledger, snapshots, month, landing, lock, landed>>
        /\ lock \in {"none", p} /\ prune[p].pc = "begun"
    BY DEF ReadRuns
  <1>2. RunsToDrop(snapshots) \subseteq snapshots
    BY DEF RunsToDrop
  <1>3. q \in PruneRecord /\ q.drop = RunsToDrop(snapshots) /\ q.pc = "read"
    BY <1>2, PrunerFacts DEF PruneRecord
  <1>4. prune'[p] = q /\ \A o \in DOMAIN Pruners \ {p} : prune'[o] = prune[o]
    BY <1>1, PrunerFacts
  <1>5. \A r \in q.drop : Superfluous(r, ledger, landed)
    BY <1>3, DropsOnlySuperfluous DEF RetentionInv
  <1> HIDE DEF q
  <1>6. LockIsExclusive'
    BY <1>1, <1>4, PrunersAreNamed DEF RetentionInv, LockIsExclusive, Untouched
  <1>7. CopyIsTable'
    BY <1>1, <1>3, <1>4 DEF RetentionInv, CopyIsTable
  <1> QED BY <1>1, <1>3, <1>5, <1>6, <1>7, PrunerFacts, OnePruneStep

\* A pruner ends; the table has changed only if nobody's copy depends on it.
LEMMA EndStep ==
    ASSUME RetentionInv, NEW p \in DOMAIN Pruners, End(p), UNCHANGED <<ledger, month, landing, landed>>,
           prune[p].pc # "idle",
           snapshots' \subseteq landed, \A r \in landed \ snapshots' : Superfluous(r, ledger, landed),
           snapshots' = snapshots \/ prune[p].pc \in {"read", "copied"}
    PROVE  RetentionInv'
  <1>1. /\ prune' = [prune EXCEPT ![p] = NoPrune] /\ lock' = IF lock = p THEN "none" ELSE lock
    BY DEF End
  <1>2. NoPrune \in PruneRecord /\ NoPrune.drop = {} /\ NoPrune.pc = "idle"
    BY DEF NoPrune, PruneRecord
  <1>3. prune'[p] = NoPrune /\ \A o \in DOMAIN Pruners \ {p} : prune'[o] = prune[o]
    BY <1>1, PrunerFacts
  <1>4. LockIsExclusive'
    <2>1. ASSUME NEW o \in DOMAIN Pruners, Pruners[o] = "compact", prune'[o].pc # "idle"
          PROVE  lock' = o
      BY <1>1, <1>2, <1>3, <2>1 DEF RetentionInv, LockIsExclusive
    <2>2. ASSUME NEW o \in DOMAIN Pruners, lock' = o PROVE Untouched(o)'
      <3>1. lock = o /\ Untouched(o)
        BY <1>1, <2>2, RetentionAssumption DEF RetentionInv, LockIsExclusive
      <3> QED BY <1>2, <1>3, <3>1 DEF Untouched
    <2> QED BY <2>1, <2>2 DEF LockIsExclusive
  <1>5. CopyIsTable'
    <2> SUFFICES ASSUME NEW o \in DOMAIN Pruners, prune'[o].pc = "copied"
                 PROVE  Pruners[o] = "compact" /\ prune'[o].copy = snapshots' \ prune'[o].drop
      BY DEF CopyIsTable
    <2>1. o # p /\ prune'[o] = prune[o]
      BY <1>2, <1>3
    <2>2. Pruners[o] = "compact" /\ prune[o].copy = snapshots \ prune[o].drop
      BY <2>1 DEF RetentionInv, CopyIsTable
    <2>3. lock = o /\ Untouched(o)
      BY <2>1, <2>2, PrunerFacts, RetentionAssumption DEF RetentionInv, LockIsExclusive
    <2>4. snapshots' = snapshots
      BY <2>1, <2>3 DEF Untouched
    <2> QED BY <2>1, <2>2, <2>4
  <1> QED BY <1>1, <1>2, <1>4, <1>5, PrunerFacts, OnePruneStep

\* A pruner that finds nothing, fails, is rolled back, deletes or rewrites.
LEMMA EndingStep ==
    ASSUME RetentionInv, NEW p \in DOMAIN Pruners,
           NothingToDrop(p) \/ PruneAborts(p) \/ DeleteRuns(p) \/ Rewrite(p)
    PROVE  RetentionInv'
  <1>1. CASE NothingToDrop(p) \/ PruneAborts(p)
    BY <1>1, PrunerFacts, EndStep DEF NothingToDrop, PruneAborts
  <1>2. CASE DeleteRuns(p)
    <2>1. /\ snapshots' \in {snapshots, snapshots \ prune[p].drop} /\ prune[p].pc = "read" /\ End(p)
          /\ UNCHANGED <<ledger, month, landing, landed>>
      BY <1>2 DEF DeleteRuns
    <2> QED BY <2>1, PrunerFacts, EndStep
  <1>3. CASE Rewrite(p)
    <2>1. /\ snapshots' = prune[p].copy /\ prune[p].pc = "copied" /\ End(p)
          /\ UNCHANGED <<ledger, month, landing, landed>>
      BY <1>3 DEF Rewrite
    <2>2. prune[p].copy = snapshots \ prune[p].drop
      BY <2>1 DEF RetentionInv, CopyIsTable
    <2> QED BY <2>1, <2>2, PrunerFacts, EndStep
  <1> QED BY <1>1, <1>2, <1>3

\* The rows that a compaction keeps are copied.
LEMMA CopyStep ==
    ASSUME RetentionInv, NEW p \in DOMAIN Pruners, CopyKept(p)
    PROVE  RetentionInv'
  <1>1. /\ UNCHANGED <<ledger, snapshots, month, landing, landed>> /\ prune[p].pc = "read"
        /\ Pruners[p] = "compact"
    BY DEF CopyKept
  <1>2. CASE End(p)
    BY <1>1, <1>2, PrunerFacts, EndStep
  <1> DEFINE q == [prune[p] EXCEPT !.pc = "copied", !.copy = snapshots \ prune[p].drop]
  <1>3. CASE prune' = [prune EXCEPT ![p] = q] /\ UNCHANGED lock
    <2>1. q \in PruneRecord /\ q.drop = prune[p].drop /\ q.pc = "copied" /\ q.copy = snapshots \ q.drop
      BY PrunerFacts DEF PruneRecord
    <2> HIDE DEF q
    <2>2. prune'[p] = q /\ \A o \in DOMAIN Pruners \ {p} : prune'[o] = prune[o]
      BY <1>3, PrunerFacts
    <2>3. lock = p
      BY <1>1 DEF RetentionInv, LockIsExclusive
    <2>4. LockIsExclusive'
      <3>1. ASSUME NEW o \in DOMAIN Pruners, Pruners[o] = "compact", prune'[o].pc # "idle"
            PROVE  lock = o
        BY <2>2, <2>3, <3>1 DEF RetentionInv, LockIsExclusive
      <3>2. Untouched(p)'
        BY <1>1, <2>2, <2>3, PrunerFacts DEF RetentionInv, LockIsExclusive, Untouched
      <3> QED BY <1>3, <2>3, <3>1, <3>2 DEF LockIsExclusive
    <2>5. CopyIsTable'
      BY <1>1, <2>1, <2>2 DEF RetentionInv, CopyIsTable
    <2>6. \A r \in q.drop : Superfluous(r, ledger, landed)
      BY <2>1, PrunerFacts
    <2> QED BY <1>1, <1>3, <2>1, <2>4, <2>5, <2>6, PrunerFacts, OnePruneStep
  <1>4. End(p) \/ (prune' = [prune EXCEPT ![p] = q] /\ UNCHANGED lock)
    BY DEF CopyKept
  <1> QED BY <1>2, <1>3, <1>4

\* The inductive invariant holds at first and is kept by every step.
THEOREM RetentionInductive ==
    /\ RetentionInit => RetentionInv
    /\ RetentionInv /\ [RetentionNext]_retentionVars => RetentionInv'
  <1>1. ASSUME RetentionInit PROVE RetentionInv
    <2>1. PICK h \in Ledgers :
             /\ ledger = [i \in DOMAIN h |-> [status |-> h[i].status, month |-> h[i].month]]
             /\ snapshots = {i \in DOMAIN h : h[i].landed} /\ landed = snapshots
             /\ month = IF h = <<>> THEN 1 ELSE h[Len(h)].month
             /\ landing = [w \in Loaders |-> NoRun]
             /\ prune = [p \in DOMAIN Pruners |-> NoPrune]
             /\ lock = "none"
      BY <1>1 DEF RetentionInit
    <2>2. /\ h \in Seq([status: Statuses, month: 1..MaxMonth, landed: BOOLEAN])
          /\ \A i \in DOMAIN h : h[i].month <= h[Len(h)].month
          /\ MaxMonth \in Nat \ {0}
      BY RetentionAssumption
    <2> DEFINE Given == [status: Statuses, month: 1..MaxMonth, landed: BOOLEAN]
    <2>8. DOMAIN h = 1..Len(h) /\ Len(h) \in Nat /\ \A i \in 1..Len(h) : h[i] \in Given
      <3> HIDE DEF Given
      <3>1. h \in Seq(Given)
        BY <2>2 DEF Given
      <3> QED BY <3>1
    <2>9. \A i \in 1..Len(h) : h[i].month \in 1..MaxMonth /\ h[i].status \in Statuses
      BY <2>8
    <2> HIDE DEF Given
    <2>3. month \in 1..MaxMonth /\ \A i \in DOMAIN h : h[i].month \in 1..month
      <3>1. CASE h = <<>>
        <4>1. \A i \in DOMAIN h : FALSE
          BY <3>1
        <4>2. month = 1
          BY <2>1, <3>1, Zenon
        <4>3. MaxMonth \in Nat \ {0}
          BY <2>2, Zenon
        <4> QED BY <4>1, <4>2, <4>3
      <3>2. CASE h # <<>>
        <4>1. Len(h) \in 1..Len(h) /\ month = h[Len(h)].month
          BY <2>1, <2>2, <2>8, <3>2
        <4>2. \A i \in 1..Len(h) : h[i].month <= month
          BY <2>2, <2>8, <4>1
        <4>3. MaxMonth \in Nat /\ month \in 1..MaxMonth
          BY <2>2, <2>9, <4>1
        <4>4. \A m \in 1..MaxMonth : m <= month => m \in 1..month
          BY <4>3
        <4> QED BY <2>8, <2>9, <4>2, <4>3, <4>4
      <3> QED BY <3>1, <3>2
    <2>4. ledger \in Seq(Row(1..month))
      <3>1. \A i \in 1..Len(h) : [status |-> h[i].status, month |-> h[i].month] \in Row(1..month)
        BY <2>3, <2>8, <2>9 DEF Row
      <3> QED BY <2>1, <2>8, <3>1
    <2>5. RetentionTypeOK
      BY <2>1, <2>3, <2>4 DEF RetentionTypeOK, Row, NoRun, NoPrune
    <2>6. GoneIsSuperfluous /\ DropIsSuperfluous /\ InFlight /\ CopyIsTable
      BY <2>1 DEF GoneIsSuperfluous, DropIsSuperfluous, InFlight, CopyIsTable, NoRun, NoPrune
    <2>7. LockIsExclusive
      BY <2>1, PrunersAreNamed DEF LockIsExclusive, NoPrune
    <2> QED BY <2>5, <2>6, <2>7 DEF RetentionInv
  <1>2. ASSUME RetentionInv, [RetentionNext]_retentionVars PROVE RetentionInv'
    <2>1. CASE UNCHANGED retentionVars
      BY <1>2, <2>1 DEF retentionVars, RetentionInv, RetentionTypeOK, GoneIsSuperfluous,
         DropIsSuperfluous, InFlight, LockIsExclusive, CopyIsTable, Untouched
    <2> QED BY <1>2, <2>1, MonthStep, StartStep, LandStep, StatusStep, LockStep, ReadStep, EndingStep,
               CopyStep DEF RetentionNext
  <1> QED BY <1>1, <1>2

\* Whatever lands while the table is pruned or rewritten, and whoever dies: the two newest ok runs
\* and the rows of a run in flight stay.
THEOREM ReadersSeeTheSameHolds == RetentionSpec => []ReadersSeeTheSame
  <1>1. RetentionInv => ReadersSeeTheSame
    BY WantedIsNotSuperfluous DEF RetentionInv
  <1> QED BY <1>1, RetentionInductive, PTL DEF RetentionSpec

\* The first ok run of every month stays.
THEOREM MonthlySampleKeptHolds == RetentionSpec => []MonthlySampleKept
  <1>1. RetentionInv => MonthlySampleKept
    BY WantedIsNotSuperfluous DEF RetentionInv
  <1> QED BY <1>1, RetentionInductive, PTL DEF RetentionSpec

\* The state of retention has its types.
THEOREM RetentionTypeCorrect == RetentionSpec => []RetentionTypeOK
  <1>1. RetentionInv => RetentionTypeOK
    BY DEF RetentionInv
  <1> QED BY <1>1, RetentionInductive, PTL DEF RetentionSpec

-----------------------------------------------------------------------------
(* The loaders.                                                            *)

\* The parts there are.
Parts == {SatcatPart, GcatSatcatPart, GcatPsatcatPart, GcatOrgsPart, GpPart, SupgpPart, UcsPart,
          SatnogsPart, SsalPart, IbfsPart, BackfillIbfsPart, SwPart, DecayPart}

RunRow == [endpoint: {part.endpoint : part \in Parts}, rows: {"none", "part", "all", "nothing", "elsewhere"},
           status: {"open", "ok", "error", "skipped_fresh"}]
Readings == {"raise", "midway", "abort", "nothing", "suspect", "all"}
Unlanded == {"none", "elsewhere"}
LandedRows == {"all", "nothing", "elsewhere"}
LoaderRecord ==
    [pc: {"halted", "gate", "fetch", "parse", "land", "finish", "raised"}, plan: Seq(Sources),
     parts: Seq(Parts), run: Nat, got: {"none"} \cup Readings]
TxRecord == [state: {"clean", "aborted", "open"}, run: Nat]

FeedTypes ==
    /\ runs \in Seq(RunRow)
    /\ loader \in [FeedProcesses -> LoaderRecord]
    /\ tx \in [FeedProcesses -> TxRecord]

\* Between the gate and the status of a run.
Working == {"fetch", "parse", "land", "finish"}

\* A loader at work has its run open, without rows before the landing and then with those it read,
\* none if the payload looked wrong.
AtWork(q, book) ==
    q.pc \in Working =>
        /\ q.run \in DOMAIN book /\ book[q.run].status = "open"
        /\ q.pc # "finish" => book[q.run].rows \in Unlanded
        /\ q.pc = "finish" => /\ q.got \in {"all", "nothing", "suspect"}
                              /\ book[q.run].rows \in LandedRows
                              /\ q.got = "suspect" => book[q.run].rows # "all"
        /\ q.pc = "parse" => q.got \in Readings
        /\ q.pc = "land" => q.got \in Readings \ {"raise"}

OwnRuns ==
    \A p, o \in FeedProcesses :
        loader[p].pc \in Working /\ loader[o].pc \in Working /\ loader[p].run = loader[o].run => p = o

\* Only an exception leaves a transaction behind, and whoever goes on from it rolls back.
LeftByException == \A p \in FeedProcesses : tx[p].state # "clean" => loader[p].pc = "raised"

\* The inductive invariant.
FeedInv ==
    /\ FeedTypes
    /\ \A p \in FeedProcesses : AtWork(loader[p], runs)
    /\ OwnRuns
    /\ LeftByException
    /\ RunsAreWhole

\* A source runs parts.
LEMMA PartFacts == \A s \in Sources : PartsOf(s) \in Seq(Parts)
  <1> SUFFICES ASSUME NEW s \in Sources PROVE PartsOf(s) \in Seq(Parts)
    OBVIOUS
  <1>1. /\ PartsOf("satcat") = <<SatcatPart>> /\ PartsOf("gcat") = <<GcatSatcatPart, GcatPsatcatPart>>
        /\ PartsOf("gcat_orgs") = <<GcatOrgsPart>> /\ PartsOf("gp") = <<GpPart>>
        /\ PartsOf("supgp") = <<SupgpPart>> /\ PartsOf("ucs") = <<UcsPart>>
        /\ PartsOf("satnogs") = <<SatnogsPart>> /\ PartsOf("fcc_ssal") = <<SsalPart>>
        /\ PartsOf("ibfs") = <<IbfsPart>> /\ PartsOf("backfill_ibfs") = <<BackfillIbfsPart>>
        /\ PartsOf("sw") = <<SwPart>> /\ PartsOf("decay") = <<DecayPart>>
    BY DEF PartsOf
  <1>2. \A a, b \in Parts : <<a>> \in Seq(Parts) /\ <<a, b>> \in Seq(Parts)
    <2> HIDE DEF Parts
    <2> QED OBVIOUS
  <1>3. {SatcatPart, GcatSatcatPart, GcatPsatcatPart, GcatOrgsPart, GpPart, SupgpPart, UcsPart,
         SatnogsPart, SsalPart, IbfsPart, BackfillIbfsPart, SwPart, DecayPart} \subseteq Parts
    BY DEF Parts
  <1> QED BY <1>1, <1>2, <1>3 DEF Sources

\* What becomes of a payload is one of six things.
LEMMA OutcomesAreReadings ==
    ASSUME NEW part, NEW kind
    PROVE  Outcomes(part, kind) \subseteq Readings
  <1> DEFINE said == {o \in {"raise", "midway", "abort", "nothing", "suspect"} : kind \in part[o]}
  <1>1. said \subseteq Readings /\ {"all"} \subseteq Readings
    BY DEF Readings
  <1>2. Outcomes(part, kind) = IF said = {} THEN {"all"} ELSE said
    BY DEF Outcomes
  <1> HIDE DEF said
  <1> QED BY <1>1, <1>2

\* A step of one loader: its own record, its transaction, and no run of another's.
LEMMA OneLoaderStep ==
    ASSUME FeedInv, NEW p \in FeedProcesses, NEW q \in LoaderRecord, NEW t \in TxRecord,
           loader' = [loader EXCEPT ![p] = q], tx' = [tx EXCEPT ![p] = t],
           t.state # "clean" => q.pc = "raised",
           runs' \in Seq(RunRow), DOMAIN runs \subseteq DOMAIN runs',
           \A i \in DOMAIN runs : (loader[p].pc \in Working /\ i = loader[p].run) \/ runs'[i] = runs[i],
           AtWork(q, runs'),
           q.pc \in Working => \/ loader[p].pc \in Working /\ q.run = loader[p].run
                              \/ q.run \notin DOMAIN runs,
           RunsAreWhole'
    PROVE  FeedInv'
  <1>1. /\ loader'[p] = q /\ tx'[p] = t
        /\ \A o \in FeedProcesses \ {p} : loader'[o] = loader[o] /\ tx'[o] = tx[o]
    BY DEF FeedInv, FeedTypes
  <1>2. FeedTypes'
    BY DEF FeedInv, FeedTypes
  <1>3. ASSUME NEW o \in FeedProcesses \ {p}, loader[o].pc \in Working
        PROVE  /\ loader[o].run \in DOMAIN runs /\ runs'[loader[o].run] = runs[loader[o].run]
               /\ loader[p].pc \in Working => loader[o].run # loader[p].run
    BY <1>3 DEF FeedInv, AtWork, OwnRuns
  <1>4. ASSUME NEW o \in FeedProcesses PROVE AtWork(loader'[o], runs')
    <2>1. CASE o = p
      BY <1>1, <2>1
    <2>2. CASE o # p
      <3>1. loader'[o] = loader[o] /\ AtWork(loader[o], runs)
        BY <1>1, <2>2 DEF FeedInv
      <3> QED BY <1>3, <2>2, <3>1 DEF AtWork
    <2> QED BY <2>1, <2>2
  <1>5. OwnRuns'
    <2> SUFFICES ASSUME NEW o \in FeedProcesses, NEW v \in FeedProcesses, o # v,
                        loader'[o].pc \in Working, loader'[v].pc \in Working,
                        loader'[o].run = loader'[v].run
                 PROVE  FALSE
      BY DEF OwnRuns
    <2>1. CASE o # p /\ v # p
      BY <1>1, <2>1 DEF FeedInv, OwnRuns
    <2>2. CASE o = p
      BY <1>1, <1>3, <2>2
    <2>3. CASE v = p
      BY <1>1, <1>3, <2>3
    <2> QED BY <2>1, <2>2, <2>3
  <1>6. LeftByException'
    BY <1>1 DEF FeedInv, LeftByException
  <1> QED BY <1>2, <1>4, <1>5, <1>6 DEF FeedInv

\* What the invariant says of one loader.
LEMMA LoaderFacts ==
    ASSUME FeedInv, NEW p \in FeedProcesses
    PROVE  /\ loader[p] \in LoaderRecord /\ tx[p] \in TxRecord /\ AtWork(loader[p], runs)
           /\ tx[p].state # "clean" => loader[p].pc = "raised"
           /\ loader \in [FeedProcesses -> LoaderRecord] /\ tx \in [FeedProcesses -> TxRecord]
           /\ runs \in Seq(RunRow) /\ DOMAIN runs = 1..Len(runs) /\ Len(runs) \in Nat
           /\ loader[p].parts # <<>> =>
                 CurrentPart(p) \in Parts /\ Tail(loader[p].parts) \in Seq(Parts)
           /\ RunsAreWhole
           /\ Halted \in LoaderRecord /\ Clean \in TxRecord
           /\ Halted.pc = "halted" /\ Clean.state = "clean"
  <1>1. /\ loader[p] \in LoaderRecord /\ tx[p] \in TxRecord /\ AtWork(loader[p], runs)
        /\ tx[p].state # "clean" => loader[p].pc = "raised"
        /\ loader \in [FeedProcesses -> LoaderRecord] /\ tx \in [FeedProcesses -> TxRecord]
        /\ runs \in Seq(RunRow) /\ RunsAreWhole
    BY DEF FeedInv, FeedTypes, LeftByException
  <1>2. DOMAIN runs = 1..Len(runs) /\ Len(runs) \in Nat
    BY <1>1
  <1>3. loader[p].parts \in Seq(Parts)
    BY <1>1 DEF LoaderRecord
  <1>4. loader[p].parts # <<>> => CurrentPart(p) \in Parts /\ Tail(loader[p].parts) \in Seq(Parts)
    <2> HIDE DEF Parts
    <2> QED BY <1>3, HeadTailProperties DEF CurrentPart
  <1>5. Halted \in LoaderRecord /\ Clean \in TxRecord /\ Halted.pc = "halted" /\ Clean.state = "clean"
    <2>1. <<>> \in Seq(Sources) /\ <<>> \in Seq(Parts)
      OBVIOUS
    <2> QED BY <2>1 DEF Halted, Clean, LoaderRecord, TxRecord
  <1> QED BY <1>1, <1>2, <1>4, <1>5

\* A step that leaves the runs alone and begins no work.
LEMMA RestingStep ==
    ASSUME FeedInv, NEW p \in FeedProcesses, NEW q \in LoaderRecord, NEW t \in TxRecord,
           loader' = [loader EXCEPT ![p] = q], tx' = [tx EXCEPT ![p] = t], UNCHANGED runs,
           t.state # "clean" => q.pc = "raised", q.pc \notin Working
    PROVE  FeedInv'
  <1>1. AtWork(q, runs')
    BY DEF AtWork
  <1>2. RunsAreWhole' /\ runs' \in Seq(RunRow) /\ DOMAIN runs \subseteq DOMAIN runs'
    BY DEF FeedInv, FeedTypes, RunsAreWhole
  <1> QED BY <1>1, <1>2, OneLoaderStep

\* A process starts, goes from a source to the next, survives an exception, ends or dies.
LEMMA BetweenStep ==
    ASSUME FeedInv, NEW p \in FeedProcesses,
           \/ \E plan \in Seq(Sources) \ {<<>>} : StartIngest(p, plan)
           \/ NextSource(p) \/ SurviveFailure(p) \/ Die(p)
    PROVE  FeedInv'
  <1>1. \A plan \in Seq(Sources) : plan # <<>> =>
           PartsOf(Head(plan)) \in Seq(Parts) /\ Tail(plan) \in Seq(Sources)
    <2> HIDE DEF Sources, Parts
    <2> QED BY PartFacts, HeadTailProperties
  <1>2. ASSUME NEW plan \in Seq(Sources), NEW parts \in Seq(Parts), NEW q,
               \/ q = [Halted EXCEPT !.pc = "gate", !.plan = plan, !.parts = parts]
               \/ q = [Halted EXCEPT !.pc = "gate", !.plan = plan]
               \/ q = [loader[p] EXCEPT !.plan = plan, !.parts = parts] /\ loader[p].pc = "gate"
        PROVE  q \in LoaderRecord /\ q.pc = "gate"
    BY <1>2, LoaderFacts DEF LoaderRecord
  <1>3. tx = [tx EXCEPT ![p] = tx[p]]
    BY LoaderFacts
  <1>4. CASE \E plan \in Seq(Sources) \ {<<>>} : StartIngest(p, plan)
    <2>1. PICK plan \in Seq(Sources) \ {<<>>} : StartIngest(p, plan)
      BY <1>4
    <2> DEFINE q == [Halted EXCEPT !.pc = "gate", !.plan = Tail(plan), !.parts = PartsOf(Head(plan))]
    <2>2. loader' = [loader EXCEPT ![p] = q] /\ UNCHANGED <<runs, tx>> /\ loader[p] = Halted
      BY <2>1, Zenon DEF StartIngest
    <2>3. q \in LoaderRecord /\ q.pc = "gate"
      <3>1. PartsOf(Head(plan)) \in Seq(Parts) /\ Tail(plan) \in Seq(Sources)
        BY <1>1
      <3> QED BY <3>1, <1>2, Zenon
    <2> HIDE DEF q
    <2> QED BY <1>3, <2>2, <2>3, LoaderFacts, RestingStep DEF Working
  <1>5. CASE NextSource(p)
    <2> DEFINE q == IF loader[p].plan = <<>> THEN Halted
                    ELSE [loader[p] EXCEPT !.plan = Tail(loader[p].plan),
                                           !.parts = PartsOf(Head(loader[p].plan))]
               t == IF loader[p].plan = <<>> THEN Clean ELSE tx[p]
    <2>1. loader' = [loader EXCEPT ![p] = q] /\ UNCHANGED runs /\ loader[p].pc = "gate"
      BY <1>5 DEF NextSource
    <2>2. tx' = [tx EXCEPT ![p] = t]
      BY <1>5 DEF NextSource
    <2>3. q \in LoaderRecord /\ q.pc \notin Working
      <3>1. CASE loader[p].plan = <<>>
        <4>1. q = Halted
          BY <3>1
        <4> QED BY <4>1, LoaderFacts DEF Working
      <3>2. CASE loader[p].plan # <<>>
        <4>1. loader[p].plan \in Seq(Sources)
          BY LoaderFacts DEF LoaderRecord
        <4>2. /\ PartsOf(Head(loader[p].plan)) \in Seq(Parts)
              /\ Tail(loader[p].plan) \in Seq(Sources)
          BY <1>1, <3>2, <4>1
        <4>3. q = [loader[p] EXCEPT !.plan = Tail(loader[p].plan),
                                    !.parts = PartsOf(Head(loader[p].plan))]
          BY <3>2
        <4> HIDE DEF q
        <4>4. q \in LoaderRecord /\ q.pc = "gate"
          BY <1>2, <2>1, <4>2, <4>3, Zenon
        <4> QED BY <4>4 DEF Working
      <3> QED BY <3>1, <3>2
    <2>4. t \in TxRecord /\ t.state = "clean"
      BY <2>1, LoaderFacts
    <2> HIDE DEF q, t
    <2> QED BY <2>1, <2>2, <2>3, <2>4, RestingStep
  <1>6. CASE SurviveFailure(p)
    <2> DEFINE q == [Halted EXCEPT !.pc = "gate", !.plan = loader[p].plan]
    <2>1. loader' = [loader EXCEPT ![p] = q] /\ UNCHANGED runs /\ tx' = [tx EXCEPT ![p] = Clean]
      BY <1>6 DEF SurviveFailure
    <2>2. q \in LoaderRecord /\ q.pc = "gate"
      <3>1. loader[p].plan \in Seq(Sources) /\ Halted.parts \in Seq(Parts)
        BY LoaderFacts DEF LoaderRecord
      <3> QED BY <3>1, <1>2, Zenon
    <2> HIDE DEF q
    <2> QED BY <2>1, <2>2, LoaderFacts, RestingStep DEF Working
  <1>7. CASE Die(p)
    BY <1>7, LoaderFacts, RestingStep DEF Die, Working
  <1> QED BY <1>4, <1>5, <1>6, <1>7

\* The gate: a row is written, and never does it commit another run's rows.
LEMMA GateStep ==
    ASSUME FeedInv, NEW p \in FeedProcesses, Gate(p)
    PROVE  FeedInv'
  <1>1. loader[p].pc = "gate" /\ loader[p].parts # <<>> /\ tx[p].state = "clean"
    BY LoaderFacts DEF Gate, At
  <1> DEFINE part == CurrentPart(p)
             skip == part.gated /\ part.endpoint \in recent
             row == [endpoint |-> part.endpoint, status |-> IF skip THEN "skipped_fresh" ELSE "open",
                     rows |-> IF part.keyed THEN "none" ELSE "elsewhere"]
             n == Len(runs) + 1
             q == IF skip THEN NextPart(loader[p]) ELSE [loader[p] EXCEPT !.pc = "fetch", !.run = n]
  <1>2. Committed(p) = runs
    BY <1>1 DEF Committed
  <1>3. /\ runs' = Append(runs, row) /\ tx' = [tx EXCEPT ![p] = Clean]
        /\ loader' = [loader EXCEPT ![p] = q]
    BY <1>1, <1>2, Zenon DEF Gate
  <1>4. row \in RunRow /\ row.rows \in Unlanded /\ row.status = IF skip THEN "skipped_fresh" ELSE "open"
    <2>1. part \in Parts
      BY <1>1, LoaderFacts
    <2> HIDE DEF part, skip
    <2> QED BY <2>1 DEF RunRow, Unlanded
  <1>5. /\ q \in LoaderRecord
        /\ skip => q.pc = "gate"
        /\ ~skip => q.pc = "fetch" /\ q.run = n
    <2>1. n \in Nat /\ loader[p] \in LoaderRecord /\ Tail(loader[p].parts) \in Seq(Parts)
      BY <1>1, LoaderFacts
    <2> HIDE DEF skip, n
    <2>2. CASE skip
      <3>1. q = [loader[p] EXCEPT !.pc = "gate", !.parts = Tail(loader[p].parts), !.run = 0, !.got = "none"]
        BY <2>2, Zenon DEF NextPart
      <3> HIDE DEF q
      <3> QED BY <2>1, <2>2, <3>1 DEF LoaderRecord
    <2>3. CASE ~skip
      <3>1. q = [loader[p] EXCEPT !.pc = "fetch", !.run = n]
        BY <2>3, Zenon
      <3> HIDE DEF q
      <3> QED BY <2>1, <2>3, <3>1 DEF LoaderRecord
    <2> QED BY <2>2, <2>3
  <1> HIDE DEF row, q, skip, part
  <1>6. /\ runs' \in Seq(RunRow) /\ Len(runs') = n /\ DOMAIN runs' = 1..n
        /\ \A i \in DOMAIN runs : runs'[i] = runs[i]
        /\ runs'[n] = row /\ n \in DOMAIN runs' /\ n \notin DOMAIN runs
        /\ DOMAIN runs' = DOMAIN runs \cup {n}
    <2>1. runs \in Seq(RunRow) /\ DOMAIN runs = 1..Len(runs) /\ Len(runs) \in Nat
      BY LoaderFacts
    <2> QED BY <1>3, <1>4, <2>1, AppendProperties
  <1> HIDE DEF n
  <1>7. AtWork(q, runs')
    BY <1>4, <1>5, <1>6 DEF AtWork, Working
  <1>8. RunsAreWhole'
    BY <1>4, <1>6, LoaderFacts DEF RunsAreWhole, Unlanded
  <1>9. DOMAIN runs \subseteq DOMAIN runs' /\ (q.pc \in Working => q.run \notin DOMAIN runs)
    BY <1>5, <1>6 DEF Working
  <1> QED BY <1>3, <1>5, <1>6, <1>7, <1>8, <1>9, LoaderFacts, OneLoaderStep

\* A loader works on its run, or stops working on it.
LEMMA WorkStep ==
    ASSUME FeedInv, NEW p \in FeedProcesses, loader[p].pc \in Working,
           NEW q \in LoaderRecord, NEW t \in TxRecord,
           loader' = [loader EXCEPT ![p] = q], tx' = [tx EXCEPT ![p] = t],
           t.state # "clean" => q.pc = "raised",
           NEW row \in RunRow, runs' = [runs EXCEPT ![loader[p].run] = row],
           row.rows # "part", row.status = "ok" => row.rows \in LandedRows,
           row.status \in {"error", "skipped_fresh"} => row.rows # "all",
           q.pc \in Working =>
              /\ q.run = loader[p].run /\ row.status = "open"
              /\ q.pc # "finish" => row.rows \in Unlanded
              /\ q.pc = "finish" => /\ q.got \in {"all", "nothing", "suspect"}
                                    /\ row.rows \in LandedRows
                                    /\ q.got = "suspect" => row.rows # "all"
              /\ q.pc = "parse" => q.got \in Readings
              /\ q.pc = "land" => q.got \in Readings \ {"raise"}
    PROVE  FeedInv'
  <1>1. loader[p].run \in DOMAIN runs
    BY LoaderFacts DEF AtWork
  <1>2. /\ runs' \in Seq(RunRow) /\ DOMAIN runs' = DOMAIN runs /\ runs'[loader[p].run] = row
        /\ \A i \in DOMAIN runs : i # loader[p].run => runs'[i] = runs[i]
    BY <1>1, LoaderFacts
  <1>3. AtWork(q, runs')
    BY <1>1, <1>2 DEF AtWork
  <1>4. RunsAreWhole'
    BY <1>2, LoaderFacts DEF RunsAreWhole, LandedRows
  <1> QED BY <1>2, <1>3, <1>4, OneLoaderStep

\* An exception: its run has no rows yet, and stays without.
LEMMA RaisedStep ==
    ASSUME FeedInv, NEW p \in FeedProcesses, NEW step, NEW state \in {"clean", "aborted", "open"},
           loader[p].pc \in {"fetch", "parse", "land"}, Raised(p, step, state)
    PROVE  FeedInv'
  <1> DEFINE q == [loader[p] EXCEPT !.pc = "raised"]
             r == loader[p].run
             t == [state |-> state, run |-> r]
  <1>1. /\ loader[p] \in LoaderRecord /\ r \in DOMAIN runs /\ runs[r] \in RunRow /\ r \in Nat
        /\ runs[r].rows \in Unlanded /\ runs[r].status = "open"
    <2>1. /\ loader[p] \in LoaderRecord /\ r \in DOMAIN runs
          /\ runs[r].rows \in Unlanded /\ runs[r].status = "open"
      BY LoaderFacts DEF AtWork, Working
    <2> QED BY <2>1, LoaderFacts
  <1>2. q \in LoaderRecord /\ q.pc = "raised" /\ loader' = [loader EXCEPT ![p] = q]
    <2>1. loader' = [loader EXCEPT ![p] = q]
      BY DEF Raised
    <2> QED BY <1>1, <2>1 DEF LoaderRecord
  <1>3. t \in TxRecord
    BY <1>1 DEF TxRecord
  <1> HIDE DEF q
  <1>4. CASE step \in CurrentPart(p).guarded
    <2> DEFINE row == [runs[r] EXCEPT !.status = "error"]
    <2>1. runs' = [runs EXCEPT ![r] = row] /\ tx' = [tx EXCEPT ![p] = Clean]
      BY <1>4 DEF Raised
    <2>2. row \in RunRow /\ row.rows \in Unlanded /\ row.status = "error"
      BY <1>1 DEF RunRow
    <2> HIDE DEF row
    <2>3. row.rows # "part" /\ row.rows # "all"
      BY <2>2 DEF Unlanded
    <2> QED BY <1>2, <2>1, <2>2, <2>3, LoaderFacts, WorkStep DEF Working
  <1>5. CASE step \notin CurrentPart(p).guarded
    <2>1. UNCHANGED runs /\ tx' = [tx EXCEPT ![p] = t]
      BY <1>5 DEF Raised
    <2> HIDE DEF t
    <2> QED BY <1>2, <1>3, <2>1, RestingStep DEF Working
  <1> QED BY <1>4, <1>5

\* The download, the parsing and the landing, with and without an exception, and the status.
LEMMA LoadStep ==
    ASSUME FeedInv, NEW p \in FeedProcesses,
           Download(p) \/ Parse(p) \/ LandRows(p) \/ FinishRun(p)
    PROVE  FeedInv'
  <1> DEFINE r == loader[p].run
  <1>1. loader[p].pc \in Working /\ loader[p].parts # <<>>
    BY DEF Download, Parse, LandRows, FinishRun, At, Working
  <1>2. /\ loader[p] \in LoaderRecord /\ AtWork(loader[p], runs) /\ tx[p] \in TxRecord
        /\ r \in DOMAIN runs /\ runs[r].status = "open" /\ runs[r] \in RunRow
        /\ tx = [tx EXCEPT ![p] = tx[p]] /\ runs = [runs EXCEPT ![r] = runs[r]]
        /\ tx[p].state = "clean"
    <2>1. r \in DOMAIN runs /\ runs[r].status = "open"
      BY <1>1, LoaderFacts DEF AtWork
    <2>2. tx[p].state = "clean"
      BY <1>1, LoaderFacts DEF Working
    <2> QED BY <2>1, <2>2, LoaderFacts
  <1>3. CASE Download(p)
    <2>1. loader[p].pc = "fetch" /\ runs[r].rows \in Unlanded
      BY <1>2, <1>3 DEF Download, At, AtWork, Working
    <2>2. CASE Raised(p, "fetch", "clean")
      BY <2>1, <2>2, RaisedStep
    <2>3. ASSUME NEW kind \in Kinds, NEW o \in Outcomes(CurrentPart(p), kind),
                 UNCHANGED <<runs, tx>>,
                 loader' = [loader EXCEPT ![p].pc = "parse", ![p].got = o]
          PROVE  FeedInv'
      <3> DEFINE q == [loader[p] EXCEPT !.pc = "parse", !.got = o]
      <3>1. o \in Readings
        BY OutcomesAreReadings
      <3>2. loader' = [loader EXCEPT ![p] = q]
        BY <2>3
      <3>3. q \in LoaderRecord /\ q.pc = "parse" /\ q.got = o /\ q.run = r
        BY <1>2, <3>1 DEF LoaderRecord
      <3> HIDE DEF q
      <3> QED BY <1>1, <1>2, <2>1, <2>3, <3>1, <3>2, <3>3, WorkStep DEF Working, Unlanded
    <2> QED BY <1>3, <2>2, <2>3 DEF Download
  <1>4. CASE Parse(p)
    <2>1. loader[p].pc = "parse" /\ runs[r].rows \in Unlanded /\ loader[p].got \in Readings
      BY <1>2, <1>4 DEF Parse, At, AtWork, Working
    <2>2. CASE Raised(p, "parse", "clean")
      BY <2>1, <2>2, RaisedStep
    <2>3. CASE loader[p].got # "raise" /\ loader' = [loader EXCEPT ![p].pc = "land"] /\ UNCHANGED <<runs, tx>>
      <3> DEFINE q == [loader[p] EXCEPT !.pc = "land"]
      <3>2. loader' = [loader EXCEPT ![p] = q]
        BY <2>3
      <3>3. q \in LoaderRecord /\ q.pc = "land" /\ q.got = loader[p].got /\ q.run = r
        BY <1>2 DEF LoaderRecord
      <3> HIDE DEF q
      <3> QED BY <1>1, <1>2, <2>1, <2>3, <3>2, <3>3, WorkStep DEF Working, Unlanded
    <2> QED BY <1>4, <2>2, <2>3 DEF Parse
  <1>5. CASE LandRows(p)
    <2>1. loader[p].pc = "land" /\ runs[r].rows \in Unlanded /\ loader[p].got \in Readings \ {"raise"}
      BY <1>2, <1>5 DEF LandRows, At, AtWork, Working
    <2>2. CASE loader[p].got = "abort"
      <3>1. Raised(p, "land", "aborted")
        BY <1>5, <2>2 DEF LandRows
      <3> QED BY <2>1, <3>1, RaisedStep
    <2>3. CASE loader[p].got = "midway"
      <3>1. Raised(p, "land", "open")
        BY <1>5, <2>3 DEF LandRows
      <3> QED BY <2>1, <3>1, RaisedStep
    <2>4. CASE loader[p].got \in {"nothing", "suspect", "all"}
      <3> DEFINE rows == IF runs[r].rows = "elsewhere" THEN runs[r].rows
                         ELSE IF loader[p].got = "all" THEN "all" ELSE "nothing"
                 q == [loader[p] EXCEPT !.pc = "finish"]
                 row == [runs[r] EXCEPT !.rows = rows]
      <3>1. /\ runs' = [runs EXCEPT ![r].rows = rows] /\ UNCHANGED tx
            /\ loader' = [loader EXCEPT ![p].pc = "finish"]
        BY <1>5, <2>4 DEF LandRows
      <3>2. rows \in LandedRows /\ (loader[p].got = "suspect" => rows # "all")
        BY DEF LandedRows
      <3> HIDE DEF rows
      <3>3. loader' = [loader EXCEPT ![p] = q] /\ runs' = [runs EXCEPT ![r] = row]
        BY <3>1
      <3>4. q \in LoaderRecord /\ q.pc = "finish" /\ q.got = loader[p].got /\ q.run = r
        BY <1>2 DEF LoaderRecord
      <3>5. row \in RunRow /\ row.rows = rows /\ row.status = "open"
        BY <1>2, <3>2 DEF RunRow, LandedRows
      <3> HIDE DEF q, row
      <3>6. /\ tx' = [tx EXCEPT ![p] = tx[p]] /\ row.rows # "part"
            /\ q.got = "suspect" => row.rows # "all"
        BY <1>2, <3>1, <3>2, <3>4, <3>5 DEF LandedRows
      <3>7. /\ row.status = "ok" => row.rows \in LandedRows
            /\ row.status \in {"error", "skipped_fresh"} => row.rows # "all"
            /\ q.pc \in Working =>
                 /\ q.run = r /\ row.status = "open"
                 /\ q.pc # "finish" => row.rows \in Unlanded
                 /\ q.pc = "finish" => /\ q.got \in {"all", "nothing", "suspect"}
                                       /\ row.rows \in LandedRows
                                       /\ q.got = "suspect" => row.rows # "all"
                 /\ q.pc = "parse" => q.got \in Readings
                 /\ q.pc = "land" => q.got \in Readings \ {"raise"}
        BY <2>4, <3>2, <3>4, <3>5, <3>6
      <3>8. tx[p].state # "clean" => q.pc = "raised"
        BY <1>2
      <3>9. q \in LoaderRecord /\ row \in RunRow /\ tx[p] \in TxRecord
        BY <1>2, <3>4, <3>5
      <3> QED BY ONLY FeedInv, p \in FeedProcesses, <1>1, <3>3, <3>6, <3>7, <3>8, <3>9, WorkStep
    <2> QED BY <2>1, <2>2, <2>3, <2>4 DEF Readings
  <1>6. CASE FinishRun(p)
    <2> DEFINE status == IF loader[p].got = "suspect" THEN "error" ELSE "ok"
               q == NextPart(loader[p])
               row == [runs[r] EXCEPT !.status = status]
    <2>1. /\ loader[p].pc = "finish" /\ runs[r].rows \in LandedRows
          /\ loader[p].got = "suspect" => runs[r].rows # "all"
      BY <1>2, <1>6 DEF FinishRun, At, AtWork, Working
    <2>2. /\ runs' = [runs EXCEPT ![r].status = status] /\ UNCHANGED tx
          /\ loader' = [loader EXCEPT ![p] = q]
      BY <1>6, Zenon DEF FinishRun
    <2>3. status \in {"ok", "error"} /\ (status = "error" => loader[p].got = "suspect")
      OBVIOUS
    <2> HIDE DEF status
    <2>4. runs' = [runs EXCEPT ![r] = row]
      BY <2>2
    <2>5. row \in RunRow /\ row.rows = runs[r].rows /\ row.status = status
      BY <1>2, <2>1, <2>3 DEF RunRow
    <2>6. q \in LoaderRecord /\ q.pc = "gate"
      <3>1. Tail(loader[p].parts) \in Seq(Parts)
        BY <1>1, LoaderFacts
      <3> QED BY <1>2, <3>1 DEF NextPart, LoaderRecord
    <2> HIDE DEF q, row
    <2>7. /\ tx' = [tx EXCEPT ![p] = tx[p]] /\ row.rows \in LandedRows /\ row.rows # "part"
          /\ row.status = "error" => row.rows # "all"
          /\ row.status \in {"ok", "error"}
          /\ q.pc \notin Working
      BY <1>2, <2>1, <2>2, <2>3, <2>5, <2>6 DEF Working, LandedRows
    <2>8. /\ row.status = "ok" => row.rows \in LandedRows
          /\ row.status \in {"error", "skipped_fresh"} => row.rows # "all"
          /\ tx[p].state # "clean" => q.pc = "raised"
          /\ q \in LoaderRecord /\ row \in RunRow /\ tx[p] \in TxRecord
      BY <1>2, <2>5, <2>6, <2>7
    <2> QED BY ONLY FeedInv, p \in FeedProcesses, <1>1, <2>2, <2>4, <2>7, <2>8, WorkStep
  <1> QED BY <1>3, <1>4, <1>5, <1>6

\* The inductive invariant holds at first and is kept by every step.
THEOREM FeedInductive ==
    /\ FeedInit => FeedInv
    /\ FeedInv /\ [FeedNext]_feedVars => FeedInv'
  <1>1. ASSUME FeedInit PROVE FeedInv
    <2>1. runs = <<>> /\ loader = [p \in FeedProcesses |-> Halted] /\ tx = [p \in FeedProcesses |-> Clean]
      BY <1>1 DEF FeedInit
    <2>2. Halted \in LoaderRecord /\ Clean \in TxRecord /\ Halted.pc = "halted" /\ Clean.state = "clean"
      <3>1. <<>> \in Seq(Sources) /\ <<>> \in Seq(Parts)
        OBVIOUS
      <3> QED BY <3>1 DEF Halted, Clean, LoaderRecord, TxRecord
    <2>3. runs \in Seq(RunRow) /\ \A i \in DOMAIN runs : FALSE
      BY <2>1
    <2>4. FeedTypes
      BY <2>1, <2>2, <2>3 DEF FeedTypes
    <2>5. \A p \in FeedProcesses : AtWork(loader[p], runs)
      BY <2>1, <2>2 DEF AtWork, Working
    <2>6. OwnRuns /\ LeftByException /\ RunsAreWhole
      BY <2>1, <2>2, <2>3 DEF OwnRuns, LeftByException, RunsAreWhole, Working
    <2> QED BY <2>4, <2>5, <2>6 DEF FeedInv
  <1>2. ASSUME FeedInv, [FeedNext]_feedVars PROVE FeedInv'
    <2>1. CASE UNCHANGED feedVars \/ \E e \in recent : Ages(e)
      <3>1. UNCHANGED <<runs, loader, tx>>
        BY <2>1 DEF feedVars, Ages
      <3> QED BY <1>2, <3>1
              DEF FeedInv, FeedTypes, AtWork, OwnRuns, LeftByException, RunsAreWhole
    <2>2. ASSUME NEW plan \in Plans PROVE plan \in Seq(Sources) \ {<<>>}
      BY FeedAssumption
    <2>3. ASSUME NEW s \in ByHand PROVE <<s>> \in Seq(Sources) \ {<<>>}
      BY FeedAssumption
    <2>4. "ingest_all" \in FeedProcesses /\ "by_hand" \in FeedProcesses
      BY DEF FeedProcesses
    <2> QED BY <1>2, <2>1, <2>2, <2>3, <2>4, BetweenStep, GateStep, LoadStep DEF FeedNext
  <1> QED BY <1>1, <1>2

\* Whatever the payloads, the plans and the deaths: no run shows a part of its rows, an ok one has
\* landed, and a failed one shows none.
THEOREM RunsAreWholeHolds == FeedSpec => []RunsAreWhole
  <1>1. FeedInv => RunsAreWhole
    BY DEF FeedInv
  <1> QED BY <1>1, FeedInductive, PTL DEF FeedSpec
=============================================================================

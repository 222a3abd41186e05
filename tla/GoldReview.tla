----------------------------- MODULE GoldReview -----------------------------
(***************************************************************************)
(* The gold set: the table gold_case, filled by scripts/build_gold_queue.py*)
(* and labelled by two entry points (the CLI of scripts/review.py and the  *)
(* API of api/routers/review.py) through common/gold_verdicts.py, and the  *)
(* file docs/gold/verdicts.jsonl, to which each verdict is appended after  *)
(* its row has committed and from which a lost table is restored.          *)
(*                                                                         *)
(* A verdict carries its number in the order of commits, so that two equal *)
(* verdicts differ.  Notes and corrected answers travel with it.  Requests *)
(* refused with 401, 404, 409 or 422 change nothing and are left out.      *)
(***************************************************************************)
EXTENDS GoldSelection, Sequences

CONSTANTS
    Histories,    \* the graphs successive nightly builds leave: sequences, a few tried
    Reviewer,     \* processes: API requests and CLI sessions
    Limit,        \* --limit of a CLI session
    Verdicts,     \* the verdicts tried, of VERDICT_VALUES
    TypeRank,     \* [stratum -> rank]: case_type in text order
    MaxWrites     \* bound: verdicts ever written

VERDICT_VALUES == {"correct", "incorrect", "partial", "unresolvable"}

\* A history is a sequence of graphs, the first of which is there.
IsHistory(h) ==
    /\ h \in Seq({h[i] : i \in DOMAIN h}) /\ h # <<>>
    /\ \A i \in DOMAIN h : GraphRows(h[i])

ASSUME GoldAssumption ==
    /\ Verdicts \subseteq VERDICT_VALUES /\ MaxWrites \in Nat
    /\ TypeRank \in [Strata -> Nat]
    /\ \A h \in Histories : IsHistory(h)

VARIABLES
    nights,    \* the graph the selectors read, and those of the nights to come
    table,     \* gold_case: [<<case_type, subject_ref>> -> row]
    file,      \* verdicts.jsonl
    review,    \* each reviewer: where it is and what it holds
    writes,    \* verdicts written
    raced,     \* history: a verdict committed over another that was not yet in the file
    lost       \* history: a reviewer died between its commit and its line

goldVars == <<nights, table, file, review, writes, raced, lost>>

NoVerdict == [n |-> 0, v |-> "none"]
Idle == [pc |-> "idle", case |-> <<>>, todo |-> {}, verdict |-> NoVerdict]

\* Stable presentation order: (case_type, case_id).
Precedes(j, k) ==
    \/ TypeRank[j[1]] < TypeRank[k[1]]
    \/ TypeRank[j[1]] = TypeRank[k[1]] /\ table[j].id < table[k].id

First(S) == CHOOSE k \in S : \A j \in S \ {k} : Precedes(k, j)
FirstN(S, n) == TopN(S, [k \in S |-> {j \in S : Precedes(j, k)}], n)
Unlabeled == {k \in DOMAIN table : table[k].verdict = NoVerdict}

GoldInit ==
    /\ nights \in Histories
    /\ table = <<>>
    /\ file = <<>>
    /\ review = [r \in Reviewer |-> Idle]
    /\ writes = 0
    /\ raced = FALSE
    /\ lost = FALSE

\* A nightly build leaves another graph.
GraphMoves ==
    /\ Len(nights) > 1
    /\ nights' = Tail(nights)
    /\ UNCHANGED <<table, file, review, writes, raced, lost>>

\* INSERT ... ON CONFLICT: a known case is refreshed and keeps its id and its verdict.
Upserted(t, cases) ==
    LET keys == {<<c.type, c.ref>> : c \in cases}
        new == keys \ DOMAIN t
        old == Cardinality(DOMAIN t)
        number == CHOOSE f \in [new -> (old + 1)..(old + Cardinality(new))] :
                     \A j, k \in new : f[j] = f[k] => j = k
        Sat(k) == (CHOOSE c \in cases : <<c.type, c.ref>> = k).sat
    IN  [k \in DOMAIN t \cup keys |->
            IF k \in new THEN [id |-> number[k], sat |-> Sat(k), verdict |-> NoVerdict]
            ELSE IF k \in keys THEN [t[k] EXCEPT !.sat = Sat(k)]
            ELSE t[k]]

\* build and its commit.  (--type builds one stratum: a part of the same upsert.)
BuildQueue ==
    /\ table' = Upserted(table, Selected(Head(nights)))
    /\ UNCHANGED <<nights, file, review, writes, raced, lost>>

\* The request has found its case unlabelled, or says overwrite: it will write, whatever
\* happens to the row meanwhile.
ApiCheck(r, k, overwrite) ==
    /\ review[r] = Idle
    /\ table[k].verdict = NoVerdict \/ overwrite
    /\ review' = [review EXCEPT ![r] = [Idle EXCEPT !.pc = "checked", !.case = k]]
    /\ UNCHANGED <<nights, table, file, writes, raced, lost>>

\* A CLI session fetches its unlabelled cases once, when it starts.
CliOpen(r) ==
    /\ review[r] = Idle
    /\ Unlabeled # {}
    /\ review' = [review EXCEPT ![r] =
                     [Idle EXCEPT !.pc = "checked", !.case = First(Unlabeled),
                                  !.todo = FirstN(Unlabeled, Limit) \ {First(Unlabeled)}]]
    /\ UNCHANGED <<nights, table, file, writes, raced, lost>>

\* The CLI's next case; a request has none, and a session ends with its list.
Onward(q) ==
    LET known == q.todo \cap DOMAIN table
    IN  IF known = {} THEN Idle
        ELSE [Idle EXCEPT !.pc = "checked", !.case = First(known), !.todo = known \ {First(known)}]

\* [s]kip.
CliSkip(r) ==
    /\ review[r].pc = "checked" /\ review[r].todo # {}
    /\ review' = [review EXCEPT ![r] = Onward(review[r])]
    /\ UNCHANGED <<nights, table, file, writes, raced, lost>>

\* record_verdict and the caller's commit: the row is overwritten without looking at it.
RecordVerdict(r, v) ==
    LET k == review[r].case
        verdict == [n |-> writes + 1, v |-> v]
    IN  /\ review[r].pc = "checked"
        /\ writes < MaxWrites
        /\ k \in DOMAIN table
        /\ table' = [table EXCEPT ![k].verdict = verdict]
        /\ writes' = writes + 1
        /\ review' = [review EXCEPT ![r].pc = "committed", ![r].verdict = verdict]
        /\ raced' = (raced \/ \E o \in Reviewer :
                                 review[o].pc = "committed" /\ review[o].case = k)
        /\ UNCHANGED <<nights, file, lost>>

\* append_jsonl: after the commit.
AppendLine(r) ==
    /\ review[r].pc = "committed"
    /\ file' = Append(file, [case |-> review[r].case, verdict |-> review[r].verdict])
    /\ review' = [review EXCEPT ![r] = Onward(review[r])]
    /\ UNCHANGED <<nights, table, writes, raced, lost>>

\* A reviewer quits, its row has gone (LookupError), or its process dies.
Quit(r) ==
    /\ review[r] # Idle
    /\ review' = [review EXCEPT ![r] = Idle]
    /\ lost' = (lost \/ review[r].pc = "committed")
    /\ UNCHANGED <<nights, table, file, writes, raced>>

\* The database is lost with every open session; the file is in version control.
LoseDatabase ==
    /\ table # <<>>
    /\ \A r \in Reviewer : review[r] = Idle
    /\ table' = <<>>
    /\ UNCHANGED <<nights, file, review, writes, raced, lost>>

LinesOf(k) == {i \in DOMAIN file : file[i].case = k}
LastLine(k) == file[CHOOSE i \in LinesOf(k) : \A j \in LinesOf(k) : j <= i].verdict

\* Faulty form: an import that keeps the first line of a case.
ImportFirstLine ==
    /\ file # <<>>
    /\ table' = [k \in DOMAIN table |->
                    IF LinesOf(k) = {} THEN table[k]
                    ELSE [table[k] EXCEPT !.verdict =
                             file[CHOOSE i \in LinesOf(k) : \A j \in LinesOf(k) : i <= j].verdict]]
    /\ raced' = (raced \/ \E r \in Reviewer : review[r].pc = "committed")
    /\ UNCHANGED <<nights, file, review, writes, lost>>

\* import_verdicts: every line in turn overwrites its case, so the last one stays.
ImportVerdicts ==
    /\ file # <<>>
    /\ table' = [k \in DOMAIN table |->
                    IF LinesOf(k) = {} THEN table[k]
                    ELSE [table[k] EXCEPT !.verdict = LastLine(k)]]
    /\ raced' = (raced \/ \E r \in Reviewer : review[r].pc = "committed")
    /\ UNCHANGED <<nights, file, review, writes, lost>>

GoldNext ==
    \/ GraphMoves
    \/ BuildQueue
    \/ \E r \in Reviewer :
          \/ \E k \in DOMAIN table, overwrite \in BOOLEAN : ApiCheck(r, k, overwrite)
          \/ CliOpen(r)
          \/ CliSkip(r)
          \/ \E v \in Verdicts : RecordVerdict(r, v)
          \/ AppendLine(r)
          \/ Quit(r)
    \/ LoseDatabase
    \/ ImportVerdicts

GoldSpec == GoldInit /\ [][GoldNext]_goldVars

-----------------------------------------------------------------------------
(* What the workbench and the report compute from the table. *)

Count(v) == Cardinality({k \in DOMAIN table : table[k].verdict.v = v})

\* Faulty form: the wrap compares ids alone, not (case_type, case_id).
NextCaseById(k) ==
    LET after == {j \in Unlabeled : table[k].id < table[j].id}
    IN  First(IF after # {} THEN after ELSE Unlabeled)

\* GET /next: the first unlabelled case after k, else the first of all.
NextCase(k) ==
    LET after == {j \in Unlabeled : Precedes(k, j)}
    IN  First(IF after # {} THEN after ELSE Unlabeled)

\* Faulty form: unresolvable verdicts stay in the denominator.
ChipAccuracyOfAll ==
    <<2 * Count("correct") + Count("partial"),
      2 * Cardinality({k \in DOMAIN table : table[k].verdict.v \in VERDICT_VALUES})>>

\* The chip's accuracy in half points over half points: unresolvable cases are not gradable.
ChipAccuracy ==
    LET labeled == Cardinality({k \in DOMAIN table : table[k].verdict.v \in VERDICT_VALUES})
    IN  <<2 * Count("correct") + Count("partial"),
          2 * (labeled - Count("unresolvable"))>>

\* The report's overall row: the sum of the strata's breakdowns.
ReportAccuracy ==
    <<2 * Count("correct") + Count("partial"),
      2 * (Count("correct") + Count("partial") + Count("incorrect"))>>

-----------------------------------------------------------------------------
Settled == \A r \in Reviewer : review[r].pc # "committed"

\* Every verdict in the table is the last one the file has of its case.
Lockstep ==
    \A k \in DOMAIN table :
        table[k].verdict # NoVerdict =>
            LinesOf(k) # {} /\ LastLine(k) = table[k].verdict

\* "... so the DB row and the committed docs/gold/verdicts.jsonl file (which IS the gold set) stay
\* in lockstep no matter which surface recorded the verdict" (api/routers/review.py:13): when no
\* verdict is on its way to the file, replaying the file gives the table.
DbAndFileInLockstep == Settled /\ ~lost => Lockstep

\* What is left of that: table and file agree unless two verdicts on one case (or a verdict and an
\* import) overlapped between commit and append, or a process died there.  It holds across rebuilds
\* of the queue, sessions with stale lists, relabelling, a lost database and imports.
LockstepUnlessRaced == Settled /\ ~lost /\ ~raced => Lockstep

\* Skipping through the workbench (GET /next with the id of the case on screen) from any case shows
\* every unlabelled case: none is out of reach behind the wrap.
SkippingVisitsAll ==
    \A k \in DOMAIN table :
        LET n == Cardinality(Unlabeled)
            walk[i \in 0..n] == IF i = 0 THEN k ELSE NextCase(walk[i - 1])
        IN  Unlabeled \subseteq {walk[i] : i \in 1..n}

\* "so this chip never disagrees with the generated gold_eval.md report"
\* (api/routers/review.py:62).
ChipAgreesWithReport == ChipAccuracy = ReportAccuracy

\* Whatever the graph, the sampled strata are spread as the script promises.
SampleIsSpread == EvenSpread(Head(nights)) /\ EveryDealShown(Head(nights))

=============================================================================

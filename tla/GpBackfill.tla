----------------------------- MODULE GpBackfill -----------------------------
(***************************************************************************)
(* scripts/backfill_gp_history.py: a grid of (operator, month) units, each *)
(* asked for in batches of the operator's fleet, landed batch by batch and *)
(* noted in a checkpoint file when it is complete, so that a run that was  *)
(* stopped, failed or died is resumed.  Fleets grow, days pass, and runs   *)
(* may overlap.  A window may end on any day, one to come included.  The   *)
(* service publishes the element sets of a day some time after it, answers *)
(* some queries with nothing, and some rows as stubs that are not landed.  *)
(* An object has one element set a day; a failed attempt and its retries   *)
(* are one step.  Counts, the ETA and the pacing (RequestPacer) are left   *)
(* out.                                                                    *)
(***************************************************************************)
EXTENDS Integers, Sequences, FiniteSetsExt

CONSTANTS
    Operators,      \* BENCHMARK_OPERATORS, the --operators given: a sequence
    Children,       \* operator_relationship: set of <<parent, child>>
    Owned,          \* the ownerships at first: set of <<operator, payload id>>
    Joining,        \* ownerships that appear later
    BatchSize,      \* BATCH_SIZE
    MonthStarts,    \* first days of months
    Since,          \* --since
    LastDay,        \* bound: days
    Untils,         \* days that --until is given as, when it is not today
    MaxWithheld,    \* bound: element sets that a query or a stub row leaves out
    Backfills,      \* processes
    MaxStarts       \* bound: runs started

ASSUME BackfillAssumption ==
    /\ DOMAIN Operators \subseteq Nat
    /\ BatchSize \in Nat \ {0} /\ MaxStarts \in Nat
    /\ Since \in Nat /\ LastDay \in Nat /\ Since < LastDay
    /\ MonthStarts \subseteq Nat /\ Untils \subseteq Nat /\ MaxWithheld \in Nat
    /\ IsFiniteSet(Owned \cup Joining)
    /\ \A o \in Owned \cup Joining : o[2] \in Nat

VARIABLES
    today,
    visible,        \* the days whose element sets can be queried
    owned,          \* satellite_operator with role 'owner', of payloads
    elements,       \* gp_elements: set of <<id, day>>
    checkpoint,     \* data/backfill_checkpoint.json: the units in it
    run,            \* [process -> where it is, its plan, its copy of the units]
    starts,
    withheld,       \* history: the element sets left out of the answers that asked for them
    owed            \* history: [unit noted -> the element sets of it that could be queried when
                    \*           it was begun]

backfillVars == <<today, visible, owned, elements, checkpoint, run, starts, withheld, owed>>

\* FLEET_SQL: of the operator and of its children, whatever the validity.
Fleet(operator) ==
    {o[2] : o \in {x \in owned : x[1] = operator \/ <<operator, x[1]>> \in Children}}

\* monthly_windows: [first, end) per calendar month, the last one clipped to until.
Windows(until) ==
    LET firsts == {d \in MonthStarts \cup {Since} : d >= Since /\ d < until}
        After(d) == {m \in MonthStarts : m > d} \cup {until}
    IN  {<<d, Min(After(d))>> : d \in firsts}

\* _chunk of the ids in order: the ids of the n-th batch.
Batch(ids, n) ==
    {i \in ids : LET before == Cardinality({j \in ids : j < i})
                 IN  before >= BatchSize * (n - 1) /\ before < BatchSize * n}

Stopped == [pc |-> "idle", plan |-> <<>>, units |-> {}, todo |-> {}, batch |-> 0,
            seen |-> {}, stop |-> FALSE]

BackfillInit ==
    /\ today = Since
    /\ visible = {Since}
    /\ owned = Owned
    /\ elements = {}
    /\ checkpoint = {}
    /\ run = [p \in Backfills |-> Stopped]
    /\ starts = 0
    /\ withheld = {}
    /\ owed = <<>>

DayPasses ==
    /\ today < LastDay
    /\ today' = today + 1
    /\ UNCHANGED <<visible, owned, elements, checkpoint, run, starts, withheld, owed>>

\* The element sets created on day d can be queried from now on.
Appear(d) ==
    /\ d <= today /\ d \notin visible
    /\ visible' = visible \cup {d}
    /\ UNCHANGED <<today, owned, elements, checkpoint, run, starts, withheld, owed>>

Joins(o) ==
    /\ o \notin owned
    /\ owned' = owned \cup {o}
    /\ UNCHANGED <<today, visible, elements, checkpoint, run, starts, withheld, owed>>

\* What the plan has to do: <<number of the operator, window>>.
Grid(until) == (DOMAIN Operators) \X Windows(until)

\* The plan, of the fleets as they are now; the checkpoint is loaded, or cleared by --reset.
Begin(p, reset, until) ==
    /\ run[p] = Stopped
    /\ starts < MaxStarts
    /\ Windows(until) # {}
    /\ run' = [run EXCEPT ![p] =
          [Stopped EXCEPT !.pc = "unit", !.todo = Grid(until), !.units = IF reset THEN {} ELSE checkpoint,
                          !.plan = [i \in DOMAIN Operators |-> Fleet(Operators[i])]]]
    /\ checkpoint' = IF reset THEN {} ELSE checkpoint
    /\ starts' = starts + 1
    /\ UNCHANGED <<today, visible, owned, elements, withheld, owed>>

\* Of a run q: what comes next, operator by operator and month by month, the key of its unit, the
\* fleet of its operator and the number of its batches.
Upcoming(q) == CHOOSE t \in q.todo : \A o \in q.todo :
                  t[1] < o[1] \/ (t[1] = o[1] /\ t[2][1] <= o[2][1])
Unit(q) == [operator |-> Operators[Upcoming(q)[1]], window |-> Upcoming(q)[2]]
Ids(q) == q.plan[Upcoming(q)[1]]
Batches(q) == (Cardinality(Ids(q)) + BatchSize - 1) \div BatchSize

Beyond(q) == q.todo \ {Upcoming(q)}

\* A unit in the checkpoint is skipped; SIGINT is looked at before a unit is begun.
NextUnit(p) ==
    /\ run[p].pc = "unit"
    /\ run' = [run EXCEPT ![p] =
          IF @.todo = {} THEN Stopped
          ELSE IF Unit(@) \in @.units THEN [@ EXCEPT !.todo = Beyond(run[p])]
          ELSE IF @.stop THEN Stopped
          ELSE [@ EXCEPT !.pc = IF Batches(run[p]) = 0 THEN "done" ELSE "batch", !.batch = 1,
                        !.seen = visible]]
    /\ UNCHANGED <<today, visible, owned, elements, checkpoint, starts, withheld, owed>>

Interrupt(p) ==
    /\ run[p].pc # "idle" /\ ~run[p].stop
    /\ run' = [run EXCEPT ![p].stop = TRUE]
    /\ UNCHANGED <<today, visible, owned, elements, checkpoint, starts, withheld, owed>>

\* Of a window, the element sets of these objects and days.
Sets(window, ids, days) == ids \X {d \in days : d >= window[1] /\ d < window[2]}

\* Those of the current batch that can be queried.
Queried(q) == Sets(Unit(q).window, Batch(Ids(q), q.batch), visible)

\* The current batch: the service answers with what can be queried, or, the query being broken or
\* a throttle stub slipping through, with nothing; the answer is landed without its stub rows, and
\* committed.
Land(q) ==
    \E stubs \in SUBSET Queried(q) :
        /\ elements' = elements \cup (Queried(q) \ stubs)
        /\ withheld' = withheld \cup stubs
        /\ Cardinality(withheld') <= MaxWithheld

\* Faulty form: the stop is looked at before the next unit only, and leaves the batch loop too.
LandAnyway(p) ==
    LET last == (run[p].batch = Batches(run[p])) \/ run[p].stop IN
    /\ run[p].pc = "batch"
    /\ Land(run[p])
    /\ run' = [run EXCEPT ![p].batch = IF last THEN 0 ELSE @ + 1,
                          ![p].pc = IF last THEN "done" ELSE "batch"]
    /\ UNCHANGED <<today, visible, owned, checkpoint, starts, owed>>

\* SIGINT is looked at after each batch, and then the unit is left out of the checkpoint, the last
\* batch's included.
LandBatch(p) ==
    LET last == (run[p].batch = Batches(run[p])) IN
    /\ run[p].pc = "batch"
    /\ Land(run[p])
    /\ run' = [run EXCEPT ![p] =
          IF run[p].stop THEN Stopped
          ELSE [run[p] EXCEPT !.batch = IF last THEN 0 ELSE @ + 1,
                              !.pc = IF last THEN "done" ELSE "batch"]]
    /\ UNCHANGED <<today, visible, owned, checkpoint, starts, owed>>

\* mark_done: the file is replaced by this run's copy of the units.
MarkDone(p) ==
    LET u == Unit(run[p])
        due == Sets(u.window, Ids(run[p]), run[p].seen)
    IN  /\ run[p].pc = "done"
        /\ run' = [run EXCEPT ![p].pc = "unit", ![p].units = @ \cup {u}, ![p].todo = Beyond(run[p]),
                              ![p].seen = {}]
        /\ checkpoint' = run[p].units \cup {u}
        /\ owed' = [v \in DOMAIN owed \cup {u} |->
                        IF v = u THEN due \cup IF u \in DOMAIN owed THEN owed[u] ELSE {}
                        ELSE owed[v]]
        /\ UNCHANGED <<today, visible, owned, elements, starts, withheld>>

\* A batch raises, after the client's retries or as it lands: the units so far are saved.
Fails(p) ==
    /\ run[p].pc = "batch"
    /\ checkpoint' = run[p].units
    /\ run' = [run EXCEPT ![p] = Stopped]
    /\ UNCHANGED <<today, visible, owned, elements, starts, withheld, owed>>

Dies(p) ==
    /\ run[p].pc # "idle"
    /\ run' = [run EXCEPT ![p] = Stopped]
    /\ UNCHANGED <<today, visible, owned, elements, checkpoint, starts, withheld, owed>>

BackfillNext ==
    \/ DayPasses
    \/ \E d \in Since..LastDay : Appear(d)
    \/ \E o \in Joining : Joins(o)
    \/ \E p \in Backfills :
          \/ \E reset \in BOOLEAN, until \in {today} \cup Untils : Begin(p, reset, until)
          \/ NextUnit(p) \/ Interrupt(p) \/ LandBatch(p) \/ MarkDone(p)
          \/ Fails(p) \/ Dies(p)

BackfillSpec == BackfillInit /\ [][BackfillNext]_backfillVars

-----------------------------------------------------------------------------
BackfillTypeOK ==
    /\ today \in Since..LastDay
    /\ visible \subseteq Since..today
    /\ owned \subseteq Owned \cup Joining
    /\ checkpoint \subseteq DOMAIN owed
    /\ run \in [Backfills ->
          [pc: {"idle", "unit", "batch", "done"},
           plan: {<<>>} \cup [DOMAIN Operators -> SUBSET Nat],
           units: SUBSET DOMAIN owed,
           todo: SUBSET ((DOMAIN Operators) \X (Nat \X Nat)),
           batch: Nat, seen: SUBSET visible, stop: BOOLEAN]]

\* "the in-progress unit is left un-checkpointed so it restarts": what a resumed run skips is
\* there.  Of a unit in the checkpoint file, every element set that could be queried when the unit
\* was begun, of every object that its operator owned then, is in gp_elements, however the runs
\* were stopped, failed, died, overlapped or were reset; or an answer that asked for it left it
\* out (an empty answer, a stub row), which nothing here notices.  A restart does not ask again
\* for what became visible, or joined the operator, afterwards: the file does not cover that.
SkippedIsLanded == \A u \in checkpoint : owed[u] \subseteq elements \cup withheld
=============================================================================

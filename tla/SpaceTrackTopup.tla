--------------------------- MODULE SpaceTrackTopup ---------------------------
(***************************************************************************)
(* The gp_history part of the nightly Space-Track top-up:                  *)
(* scripts/spacetrack_topup.py, with run_backfill of                       *)
(* scripts/backfill_gp_history.py and the client of                        *)
(* ingest/spacetrack_client.py, against a service that publishes element   *)
(* sets some time after their CREATION_DATE, answers late or not at all,   *)
(* and asks that nothing be downloaded twice.                              *)
(*                                                                         *)
(* A night's window runs from the cursor to a margin before now, both ends *)
(* included.  Its batches (100 objects each) are asked for and landed one  *)
(* by one, each landing committed; the cursor moves only when all have     *)
(* landed.  A top-up may be started by the nightly or by hand, may fail,   *)
(* and may die at any point.                                               *)
(*                                                                         *)
(* Abstractions: every object of the fleet has one element set at every    *)
(* creation time; the fleet does not change (an object that joins late     *)
(* misses its first element sets, as docs/specs/spacetrack-topup.md says); *)
(* times start at 1 and 0 is "none".  --dry-run and the decay part, which  *)
(* touch neither the cursor nor gp_elements, are left out.                 *)
(***************************************************************************)
EXTENDS Naturals, FiniteSets

CONSTANTS
    Worker,     \* the processes that may run the top-up
    NoWorker,   \* the advisory lock's "holder" when it is free
    Batches,    \* requests in one night's plan
    Margin,     \* PUBLICATION_MARGIN
    Delay,      \* how long after its creation a set may stay unpublished
    Lookback,   \* INITIAL_LOOKBACK
    MaxGap,     \* MAX_GAP_DAYS
    Gate,       \* TOPUP_MIN_INTERVAL
    Retries,    \* MAX_RETRIES
    MaxStubs,   \* bound: stub rows ever answered
    Large,      \* has the fleet EMPTY_WINDOW_MIN_IDS objects?
    MaxTime     \* bound: the last moment modelled

ASSUME ConstantsAssumption ==
    /\ NoWorker \notin Worker
    /\ Batches \in Nat \ {0}
    /\ {Margin, Delay, Lookback, MaxGap, Gate, Retries, MaxStubs, MaxTime} \subseteq Nat
    /\ Delay <= Margin
    /\ Large \in BOOLEAN
    /\ Lookback + Margin < MaxTime

Batch == 1..Batches
Time == 1..MaxTime
Start == Lookback + Margin + 1

VARIABLES
    now,
    visible,   \* creation times whose element sets can be queried
    landed,    \* rows of gp_elements: <<batch, creation time>>
    dropped,   \* history: rows answered without NORAD_CAT_ID or EPOCH, which are never landed
    cursor,    \* spacetrack_cursor.through
    lastOk,    \* finished_at of the newest 'ok' run of gp_history_topup
    lockedBy,  \* holder of the session advisory lock LOCK_KEY
    worker,    \* each process: where it is, its window and what it holds
    first,     \* history: since of the first window that counted
    opened     \* history: since of the first window opened

vars == <<now, visible, landed, dropped, cursor, lastOk, lockedBy, worker, first, opened>>

Idle == [pc |-> "idle", since |-> 0, through |-> 0, batch |-> 1, attempt |-> 0, query |-> "sound",
         got |-> {}, rows |-> {}]

Init ==
    /\ now = Start
    /\ visible = 1..(Start - Delay)
    /\ landed = {} /\ dropped = {}
    /\ cursor = 0
    /\ lastOk = 0
    /\ lockedBy = NoWorker
    /\ worker = [w \in Worker |-> Idle]
    /\ first = 0 /\ opened = 0

Set(w, field) == worker' = [worker EXCEPT ![w] = field]

-----------------------------------------------------------------------------
(* The service and the clock.                                              *)

\* The element sets created at t can be queried from now on.
Publish(t) ==
    /\ t <= now /\ t \notin visible
    /\ visible' = visible \cup {t}
    /\ UNCHANGED <<now, landed, dropped, cursor, lastOk, lockedBy, worker, first, opened>>

\* Time passes; what was created Delay ago is published.
Tick ==
    /\ now < MaxTime
    /\ \A t \in Time : t + Delay <= now + 1 => t \in visible
    /\ now' = now + 1
    /\ UNCHANGED <<visible, landed, dropped, cursor, lastOk, lockedBy, worker, first, opened>>

-----------------------------------------------------------------------------
(* The top-up.                                                             *)

\* Faulty form: the top-up runs whether or not it got the lock.
TryLockIgnored(w) ==
    /\ worker[w].pc = "idle"
    /\ lockedBy' = w
    /\ Set(w, [Idle EXCEPT !.pc = "locked"])
    /\ UNCHANGED <<now, visible, landed, dropped, cursor, lastOk, first, opened>>

\* main takes the lock; a top-up that does not get it exits at once.
TryLock(w) ==
    /\ worker[w].pc = "idle"
    /\ lockedBy = NoWorker
    /\ lockedBy' = w
    /\ Set(w, [Idle EXCEPT !.pc = "locked"])
    /\ UNCHANGED <<now, visible, landed, dropped, cursor, lastOk, first, opened>>

\* fresh_within: a window counted within the last Gate.
Fresh == lastOk # 0 /\ lastOk + Gate >= now

\* Faulty form: the window ends now.
WindowToNow == [since |-> IF cursor # 0 THEN cursor ELSE now - Lookback, through |-> now]

\* topup_window.
Window == [since |-> IF cursor # 0 THEN cursor ELSE now - Lookback, through |-> now - Margin]

Refused == Window.through <= Window.since \/ Window.through > Window.since + MaxGap

\* gp_topup returns or raises before its first request: a fresh window, an empty one, a gap too
\* wide for a night, operators missing, a plan over MAX_PLANNED_REQUESTS, a fleet of no ids (its
\* run finished 'error').
Skip(w) ==
    /\ worker[w].pc = "locked"
    /\ Set(w, [Idle EXCEPT !.pc = "unlock"])
    /\ UNCHANGED <<now, visible, landed, dropped, cursor, lastOk, lockedBy, first, opened>>

\* The run is opened over tonight's window. A query that is broken (a changed field, a bad
\* range) is so for every batch.
Open(w) ==
    /\ worker[w].pc = "locked"
    /\ ~Fresh /\ ~Refused
    /\ \E query \in {"sound", "broken"} :
          Set(w, [Idle EXCEPT !.pc = "ask", !.since = Window.since, !.through = Window.through,
                              !.query = query])
    /\ opened' = IF opened = 0 THEN Window.since ELSE opened
    /\ UNCHANGED <<now, visible, landed, dropped, cursor, lastOk, lockedBy, first>>

Asked(w) ==
    {t \in visible : worker[w].since <= t /\ t <= worker[w].through /\ worker[w].query = "sound"}

\* One attempt of _request is answered: the batch's published element sets of the window.
Answer(w) ==
    /\ worker[w].pc = "ask"
    /\ Set(w, [worker[w] EXCEPT !.pc = "land", !.got = Asked(w)])
    /\ UNCHANGED <<now, visible, landed, dropped, cursor, lastOk, lockedBy, first, opened>>

\* Faulty form: one retry too many.
MissOneMore(w) ==
    /\ worker[w].pc = "ask"
    /\ IF worker[w].attempt <= Retries
       THEN Set(w, [worker[w] EXCEPT !.attempt = @ + 1])
       ELSE Set(w, [Idle EXCEPT !.pc = "unlock"])
    /\ UNCHANGED <<now, visible, landed, dropped, cursor, lastOk, lockedBy, first, opened>>

\* One attempt fails (a timeout, 429, 5xx or a throttle stub): it is retried MAX_RETRIES times,
\* then the pull, and with it the run, fails.
Miss(w) ==
    /\ worker[w].pc = "ask"
    /\ IF worker[w].attempt < Retries
       THEN Set(w, [worker[w] EXCEPT !.attempt = @ + 1])
       ELSE Set(w, [Idle EXCEPT !.pc = "unlock"])
    /\ UNCHANGED <<now, visible, landed, dropped, cursor, lastOk, lockedBy, first, opened>>

\* The answer cannot be retried (a 4xx, a failed login, bad JSON) or a row cannot be landed: the
\* run is finished 'error' and what earlier batches landed stays.
Fail(w) ==
    /\ worker[w].pc \in {"ask", "land"}
    /\ Set(w, [Idle EXCEPT !.pc = "unlock"])
    /\ UNCHANGED <<now, visible, landed, dropped, cursor, lastOk, lockedBy, first, opened>>

\* land_gp_rows: the batch is inserted (ON CONFLICT DO NOTHING) and committed, without its stub
\* rows (NORAD_CAT_ID or EPOCH missing), which are skipped.
Land(w) ==
    /\ worker[w].pc = "land"
    /\ \E stubs \in SUBSET worker[w].got :
          /\ landed' = landed \cup {<<worker[w].batch, t>> : t \in worker[w].got \ stubs}
          /\ dropped' = dropped \cup {<<worker[w].batch, t>> : t \in stubs}
          /\ Cardinality(dropped') <= MaxStubs
          /\ Set(w, [worker[w] EXCEPT !.pc = IF worker[w].batch = Batches THEN "finish" ELSE "ask",
                                      !.batch = @ + 1, !.attempt = 0, !.got = {},
                                      !.rows = @ \cup (worker[w].got \ stubs)])
    /\ UNCHANGED <<now, visible, cursor, lastOk, lockedBy, first, opened>>

\* All batches landed: the cursor and the ledger's 'ok' commit together.
Count(w) ==
    /\ worker[w].pc = "finish"
    /\ worker[w].rows # {} \/ ~Large
    /\ cursor' = worker[w].through
    /\ lastOk' = now
    /\ first' = IF first = 0 THEN worker[w].since ELSE first
    /\ Set(w, [Idle EXCEPT !.pc = "unlock"])
    /\ UNCHANGED <<now, visible, landed, dropped, lockedBy, opened>>

\* A large fleet that returned nothing over a whole window is an error.
RejectEmpty(w) ==
    /\ worker[w].pc = "finish"
    /\ worker[w].rows = {} /\ Large
    /\ Set(w, [Idle EXCEPT !.pc = "unlock"])
    /\ UNCHANGED <<now, visible, landed, dropped, cursor, lastOk, lockedBy, first, opened>>

Unlock(w) ==
    /\ worker[w].pc = "unlock"
    /\ lockedBy' = NoWorker
    /\ Set(w, Idle)
    /\ UNCHANGED <<now, visible, landed, dropped, cursor, lastOk, first, opened>>

\* The process dies: its connection closes, which frees the lock and undoes what it had not
\* committed.
Crash(w) ==
    /\ worker[w].pc # "idle"
    /\ lockedBy' = IF lockedBy = w THEN NoWorker ELSE lockedBy
    /\ Set(w, Idle)
    /\ UNCHANGED <<now, visible, landed, dropped, cursor, lastOk, first, opened>>

Step(w) == TryLock(w) \/ Skip(w) \/ Open(w) \/ Answer(w) \/ Miss(w) \/ Fail(w) \/ Land(w)
               \/ Count(w) \/ RejectEmpty(w) \/ Unlock(w) \/ Crash(w)

Next == Tick \/ (\E t \in Time : Publish(t)) \/ \E w \in Worker : Step(w)

Spec == Init /\ [][Next]_vars

-----------------------------------------------------------------------------
(* Properties.                                                             *)

\* The types of the variables.
TypeOK ==
    /\ now \in Time /\ visible \subseteq 1..now
    /\ landed \subseteq Batch \X Time /\ dropped \subseteq Batch \X Time
    /\ {cursor, lastOk, first, opened} \subseteq 0..MaxTime
    /\ lockedBy \in Worker \cup {NoWorker}
    /\ worker \in [Worker ->
          [pc: {"idle", "locked", "ask", "land", "finish", "unlock"}, since: 0..MaxTime,
           through: 0..MaxTime, batch: 1..(Batches + 1), attempt: 0..Retries,
           query: {"sound", "broken"}, got: SUBSET Time, rows: SUBSET Time]]

AtWork(w) == worker[w].pc \in {"ask", "land", "finish"}

\* Nothing behind the cursor is missing: for a large fleet, every element set created since the
\* first window that counted and up to the cursor is in gp_elements, or was answered as a stub
\* row, however late it was published and whatever failed, died or ran beside it. No later window
\* asks for it.
NothingBehindCursorIsMissing ==
    Large /\ cursor # 0 =>
        \A t \in first..cursor : \A b \in Batch : <<b, t>> \in landed \cup dropped

\* Nothing that counted is asked for again: the window of a top-up at work begins at the cursor
\* as it is now, not as it was when the window was chosen.
WindowStartsAtCursor == \A w \in Worker : AtWork(w) /\ cursor # 0 => worker[w].since = cursor

\* At most one window counts within the Gate, and the cursor only moves forward.
OneWindowADay ==
    [][/\ cursor' # cursor => cursor' > cursor /\ lastOk' # lastOk
       /\ lastOk' # lastOk /\ lastOk # 0 => lastOk' > lastOk + Gate]_vars

\* Landed, about to be asked for, or in reach of the next window.
Reachable(t) ==
    \/ \A b \in Batch : <<b, t>> \in landed \cup dropped
    \/ t >= Window.since
    \/ \E w \in Worker : AtWork(w) /\ worker[w].since <= t

\* A night that fails loses nothing: what its window asked for stays landed or in reach
\* ("the ledger row is 'error' and the cursor stays put, so nothing is lost").
FailedNightsLoseNothing == opened # 0 => \A t \in opened..now : Reachable(t)
=============================================================================

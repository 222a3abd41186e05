------------------------------ MODULE WarmCache ------------------------------
(***************************************************************************)
(* One WarmCache of api/cache.py: a whole-catalog payload that a daemon    *)
(* thread recomputes on a timer and request threads read.                  *)
(*                                                                         *)
(* A payload is the answers of a fixed sequence of queries (_build_stats   *)
(* runs six), each seeing the database as committed when it runs (READ     *)
(* COMMITTED), so a nightly commit in mid-compute mixes versions.  The     *)
(* database is a version number that the nightly advances.  _lock guards   *)
(* only assignments and is never held across a blocking call, so what is   *)
(* done under it is one step; _refresh_lock is held through the compute    *)
(* and is a variable.  The disabled path of get (tests) computes on the    *)
(* caller's connection and touches none of this state: it is left out.     *)
(***************************************************************************)
EXTENDS Naturals

CONSTANTS
    Reader,      \* request threads
    Refresher,   \* the daemon thread
    NoThread,    \* _refresh_lock's "holder" when it is free
    Parts,       \* number of queries behind one payload
    MaxVersion   \* bound: versions of the database

ASSUME ConstantsAssumption ==
    /\ Refresher \notin Reader
    /\ NoThread \notin Reader \cup {Refresher}
    /\ Parts \in Nat \ {0}
    /\ MaxVersion \in Nat \ {0}

Thread == Reader \cup {Refresher}
Part == 1..Parts
Payload == [Part -> Nat]     \* the database version each query saw
Nothing == [i \in Part |-> 0]

VARIABLES
    db,          \* version of the committed data
    value,       \* _value
    hasValue,    \* _has_value
    refreshing,  \* holder of _refresh_lock
    pc,          \* where each thread is
    ifMissing,   \* its only_if_missing argument
    done,        \* queries it has run in this compute
    mem,         \* the answers so far, then what its call returned
    floor        \* history: the payload cached when its get began

vars == <<db, value, hasValue, refreshing, pc, ifMissing, done, mem, floor>>

Init ==
    /\ db = 1
    /\ value = Nothing
    /\ hasValue = FALSE
    /\ refreshing = NoThread
    /\ pc = [t \in Thread |-> IF t = Refresher THEN "unstarted" ELSE "idle"]
    /\ ifMissing = [t \in Thread |-> TRUE]
    /\ done = [t \in Thread |-> 0]
    /\ mem = [t \in Thread |-> Nothing]
    /\ floor = [t \in Thread |-> Nothing]

Goto(t, label) == pc' = [pc EXCEPT ![t] = label]

\* The nightly commits new data.
Nightly ==
    /\ db < MaxVersion
    /\ db' = db + 1
    /\ UNCHANGED <<value, hasValue, refreshing, pc, ifMissing, done, mem, floor>>

\* A request calls get.
Request(t) ==
    /\ pc[t] = "idle"
    /\ Goto(t, "check")
    /\ ifMissing' = [ifMissing EXCEPT ![t] = TRUE]
    /\ mem' = [mem EXCEPT ![t] = Nothing]
    /\ floor' = [floor EXCEPT ![t] = value]
    /\ UNCHANGED <<db, value, hasValue, refreshing, done>>

\* Faulty form: get refreshes whether or not a value is there.
CheckAlwaysRefreshing(t) ==
    /\ pc[t] = "check"
    /\ Goto(t, "wait")
    /\ UNCHANGED <<db, value, hasValue, refreshing, ifMissing, done, mem, floor>>

\* get under _lock: a warm caller returns the value, a cold one goes to _refresh.
Check(t) ==
    /\ pc[t] = "check"
    /\ IF hasValue
       THEN Goto(t, "idle") /\ mem' = [mem EXCEPT ![t] = value]
       ELSE Goto(t, "wait") /\ UNCHANGED mem
    /\ UNCHANGED <<db, value, hasValue, refreshing, ifMissing, done, floor>>

\* The thread's call of _refresh is over: a request goes back with what it has, the loop sleeps.
After(t) == IF t = Refresher THEN "sleep" ELSE "idle"

\* Faulty form: computations are not serialized.
EnterUnserialized(t) ==
    /\ pc[t] = "wait"
    /\ Goto(t, "compute")
    /\ refreshing' = t
    /\ done' = [done EXCEPT ![t] = 0]
    /\ UNCHANGED <<db, value, hasValue, ifMissing, mem, floor>>

\* Faulty form: a cold caller computes without looking again.
EnterNoRecheck(t) ==
    /\ pc[t] = "wait"
    /\ refreshing = NoThread
    /\ Goto(t, "compute")
    /\ refreshing' = t
    /\ done' = [done EXCEPT ![t] = 0]
    /\ UNCHANGED <<db, value, hasValue, ifMissing, mem, floor>>

\* _refresh takes _refresh_lock and begins to compute, unless the value it was to fill in is
\* there by now: then it returns that value and the lock is free again.
Enter(t) ==
    /\ pc[t] = "wait"
    /\ refreshing = NoThread
    /\ IF ifMissing[t] /\ hasValue
       THEN /\ Goto(t, After(t))
            /\ mem' = [mem EXCEPT ![t] = value]
            /\ ifMissing' = [ifMissing EXCEPT ![t] = FALSE]
            /\ UNCHANGED <<refreshing, done>>
       ELSE /\ Goto(t, "compute")
            /\ refreshing' = t
            /\ done' = [done EXCEPT ![t] = 0]
            /\ UNCHANGED <<mem, ifMissing>>
    /\ UNCHANGED <<db, value, hasValue, floor>>

\* Faulty form: one query too many.
QueryOneMore(t) ==
    /\ pc[t] = "compute"
    /\ done[t] <= Parts
    /\ done' = [done EXCEPT ![t] = @ + 1]
    /\ mem' = [mem EXCEPT ![t][done[t] + 1] = db]
    /\ UNCHANGED <<db, value, hasValue, refreshing, pc, ifMissing, floor>>

\* One query of the compute, on the connection _refresh opened.
Query(t) ==
    /\ pc[t] = "compute"
    /\ done[t] < Parts
    /\ done' = [done EXCEPT ![t] = @ + 1]
    /\ mem' = [mem EXCEPT ![t][done[t] + 1] = db]
    /\ UNCHANGED <<db, value, hasValue, refreshing, pc, ifMissing, floor>>

\* Faulty form: the connection is closed but a failure leaves the lock taken.
FailHoldingLock(t) ==
    /\ pc[t] = "compute"
    /\ Goto(t, After(t))
    /\ mem' = [mem EXCEPT ![t] = Nothing]
    /\ UNCHANGED <<db, value, hasValue, refreshing, ifMissing, done, floor>>

\* Connecting or a query raises: the lock is released by the with block, the request answers
\* an error, the loop logs and retries, still filling in if it has never succeeded.
Fail(t) ==
    /\ pc[t] = "compute"
    /\ Goto(t, After(t))
    /\ refreshing' = NoThread
    /\ mem' = [mem EXCEPT ![t] = Nothing]
    /\ UNCHANGED <<db, value, hasValue, ifMissing, done, floor>>

\* Faulty form: a payload is published before its last query.
StoreEarly(t) ==
    /\ pc[t] = "compute"
    /\ done[t] > 0
    /\ value' = mem[t]
    /\ hasValue' = TRUE
    /\ refreshing' = NoThread
    /\ ifMissing' = [ifMissing EXCEPT ![t] = FALSE]
    /\ Goto(t, After(t))
    /\ UNCHANGED <<db, done, mem, floor>>

\* The payload is complete: it is published under _lock and _refresh_lock is released.
Store(t) ==
    /\ pc[t] = "compute"
    /\ done[t] = Parts
    /\ value' = mem[t]
    /\ hasValue' = TRUE
    /\ refreshing' = NoThread
    /\ ifMissing' = [ifMissing EXCEPT ![t] = FALSE]
    /\ Goto(t, After(t))
    /\ UNCHANGED <<db, done, mem, floor>>

\* start_all at application startup; a second call of start finds _started set.
Start ==
    /\ pc[Refresher] = "unstarted"
    /\ Goto(Refresher, "wait")
    /\ UNCHANGED <<db, value, hasValue, refreshing, ifMissing, done, mem, floor>>

\* Faulty form: the loop never drops only_if_missing.
WakeStillFirst ==
    /\ pc[Refresher] = "sleep"
    /\ Goto(Refresher, "wait")
    /\ ifMissing' = [ifMissing EXCEPT ![Refresher] = TRUE]
    /\ UNCHANGED <<db, value, hasValue, refreshing, done, mem, floor>>

\* REFRESH_S or RETRY_S is over; first is still TRUE only if no pass has succeeded.
Wake ==
    /\ pc[Refresher] = "sleep"
    /\ Goto(Refresher, "wait")
    /\ UNCHANGED <<db, value, hasValue, refreshing, ifMissing, done, mem, floor>>

Compute(t) == Query(t) \/ Store(t)

Next ==
    \/ Nightly
    \/ \E t \in Reader : Request(t) \/ Check(t)
    \/ \E t \in Thread : Enter(t) \/ Compute(t) \/ Fail(t)
    \/ Start \/ Wake

Spec == Init /\ [][Next]_vars

\* The scheduler runs every thread and hands a lock that keeps becoming free to each waiter.
ThreadFairness ==
    /\ \A t \in Reader : WF_vars(Check(t))
    /\ \A t \in Thread : SF_vars(Enter(t))
    /\ WF_vars(Start) /\ WF_vars(Wake)

\* The database answers, and does not fail every compute for ever at the same query.
DatabaseFairness ==
    /\ \A t \in Reader : WF_vars(Compute(t))
    /\ \A i \in Part : SF_vars(done[Refresher] + 1 = i /\ Query(Refresher))
    /\ SF_vars(Store(Refresher))

FairSpec == Spec /\ ThreadFairness

-----------------------------------------------------------------------------
(* Properties.                                                             *)

Label == {"unstarted", "idle", "check", "wait", "compute", "sleep"}

\* The types of the variables.
TypeOK ==
    /\ db \in 1..MaxVersion
    /\ value \in Payload
    /\ hasValue \in BOOLEAN
    /\ refreshing \in Thread \cup {NoThread}
    /\ pc \in [Thread -> Label]
    /\ ifMissing \in [Thread -> BOOLEAN]
    /\ done \in [Thread -> 0..Parts]
    /\ mem \in [Thread -> Payload]
    /\ floor \in [Thread -> Payload]

NoOlder(p, q) == \A i \in Part : p[i] <= q[i]

\* Computations are serialized: the thread that computes holds _refresh_lock, so the database
\* never runs two of these multi-second aggregates for one cache, even in a cold-start rush.
OneComputation ==
    \A t, u \in Thread : pc[t] = "compute" /\ pc[u] = "compute" => t = u

\* A caller that asked only for a missing value computes only while the value is missing: those
\* who waited out someone else's compute take its result.
NoRedundantCompute == \A t \in Thread : pc[t] = "compute" /\ ifMissing[t] => ~hasValue

\* What is served never goes back: a slow compute that started first cannot overwrite the
\* result of one that saw newer data, and a value once there stays.
ServedNeverOlder == [][NoOlder(value, value') /\ (hasValue => hasValue')]_vars

\* A request that returned a payload returned one no older, query by query, than what the cache
\* served when it began: reloading a page never shows older numbers.
NoOlderThanAtStart ==
    \A t \in Reader : pc[t] = "idle" /\ mem[t] # Nothing => NoOlder(floor[t], mem[t])

\* Every served payload is complete: each part was read, by a query that saw committed data.
ServedIsComplete == hasValue => \A i \in Part : value[i] \in 1..db

\* A warm request returns even when the database hangs for good with the lock taken.
WarmReadReturns == \A t \in Reader : (pc[t] = "check" /\ hasValue) ~> pc[t] = "idle"

\* A cold request returns too, if the database answers.
ColdReadReturns == DatabaseFairness => \A t \in Reader : pc[t] = "wait" ~> pc[t] = "idle"

\* If the database answers, then once the data stops changing the served payload catches up with
\* it in every part, whatever mixture an earlier compute cached and however many refreshes failed.
EventuallyCurrent ==
    DatabaseFairness => ((db = MaxVersion) ~> (hasValue /\ \A i \in Part : value[i] = db))
=============================================================================

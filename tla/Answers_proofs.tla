--------------------------- MODULE Answers_proofs ---------------------------
(***************************************************************************)
(* What the API answers, for every value of the constants: from the warm   *)
(* cache (WarmCache), of a satellite's owners (OwnerResolution) and in the *)
(* workbench, with the gold set it fills (GoldReview).  The invariants     *)
(* they keep, and the properties that follow.                              *)
(***************************************************************************)
EXTENDS WarmCache, OwnerResolution, GoldReview, NatFacts, TLAPS

-----------------------------------------------------------------------------
(* WarmCache. *)

\* The thread that computes holds _refresh_lock.
ComputesLocked == \A t \in Thread : pc[t] = "compute" => refreshing = t

\* The served payload is no newer than the database, and complete once it is there.
ServedFromDb ==
    /\ \A i \in Part : value[i] <= db
    /\ hasValue => \A i \in Part : 1 <= value[i]
    /\ ~hasValue => value = Nothing

\* What a compute has read so far is committed data, no older than what is served meanwhile.
PartialResults ==
    \A t \in Thread : pc[t] = "compute" =>
        \A i \in Part : i <= done[t] =>
            /\ 1 <= mem[t][i] /\ mem[t][i] <= db
            /\ value[i] <= mem[t][i]

\* What was served when a request began is no newer than what is served now.
FloorsBelow == \A t \in Thread : NoOlder(floor[t], value)

\* The inductive invariant.
CacheInv ==
    /\ TypeOK
    /\ ComputesLocked
    /\ ServedFromDb
    /\ PartialResults
    /\ FloorsBelow
    /\ NoRedundantCompute
    /\ NoOlderThanAtStart

LEMMA CacheTypes ==
    ASSUME TypeOK
    PROVE  /\ db \in Nat
           /\ Nothing \in Payload
           /\ \A i \in Part : i \in Nat /\ value[i] \in Nat /\ Nothing[i] = 0
           /\ \A t \in Thread : /\ done[t] \in Nat
                                /\ \A i \in Part : mem[t][i] \in Nat /\ floor[t][i] \in Nat
  BY ConstantsAssumption DEF TypeOK, Payload, Nothing, Part

\* Every step keeps the types.
LEMMA CacheTypeStep ==
    ASSUME TypeOK, [Next]_vars
    PROVE  TypeOK'
  <1> USE DEF TypeOK, Goto
  <1>1. CASE Nightly
    BY <1>1, ConstantsAssumption DEF Nightly
  <1>2. ASSUME NEW t \in Reader, Request(t) PROVE TypeOK'
    BY <1>2, CacheTypes DEF Request, Thread, Label
  <1>3. ASSUME NEW t \in Reader, Check(t) PROVE TypeOK'
    BY <1>3 DEF Check, Thread, Label
  <1>4. ASSUME NEW t \in Thread, Enter(t) PROVE TypeOK'
    <2>1. CASE ifMissing[t] /\ hasValue
      BY <1>4, <2>1 DEF Enter, After, Label
    <2>2. CASE ~(ifMissing[t] /\ hasValue)
      <3>1. /\ pc' = [pc EXCEPT ![t] = "compute"] /\ refreshing' = t
            /\ done' = [done EXCEPT ![t] = 0]
            /\ UNCHANGED <<mem, ifMissing, db, value, hasValue, floor>>
        BY <1>4, <2>2, Zenon DEF Enter
      <3> QED BY <3>1, ConstantsAssumption DEF Label
    <2> QED BY <2>1, <2>2
  <1>5. ASSUME NEW t \in Thread, Query(t) PROVE TypeOK'
    <2>1. done[t] + 1 \in 0..Parts /\ done[t] + 1 \in Part /\ db \in Nat
      BY <1>5, CacheTypes, ConstantsAssumption DEF Query, Part
    <2>2. [mem[t] EXCEPT ![done[t] + 1] = db] \in Payload
      BY <2>1 DEF Payload
    <2> QED BY <1>5, <2>1, <2>2 DEF Query
  <1>6. ASSUME NEW t \in Thread, Store(t) PROVE TypeOK'
    BY <1>6 DEF Store, After, Label
  <1>7. ASSUME NEW t \in Thread, Fail(t) PROVE TypeOK'
    BY <1>7, CacheTypes DEF Fail, After, Label
  <1>8. CASE Start
    BY <1>8 DEF Start, Label
  <1>9. CASE Wake
    BY <1>9 DEF Wake, Label
  <1>10. CASE UNCHANGED vars
    BY <1>10 DEF vars
  <1> QED BY <1>1, <1>2, <1>3, <1>4, <1>5, <1>6, <1>7, <1>8, <1>9, <1>10 DEF Next, Compute

-----------------------------------------------------------------------------
(* One lemma per kind of step.                                             *)

\* Steps of the database and of requests outside _refresh.
LEMMA OutsideStep ==
    ASSUME CacheInv, TypeOK',
           Nightly \/ Start \/ Wake \/ UNCHANGED vars
    PROVE  CacheInv'
  <1>1. /\ UNCHANGED <<value, hasValue, refreshing, ifMissing, done, mem, floor>>
        /\ db <= db'
    BY CacheTypes DEF Nightly, Start, Wake, vars, CacheInv
  <1>2. \A t \in Thread : /\ pc'[t] = "compute" => pc[t] = "compute"
                          /\ t \in Reader => pc'[t] = pc[t]
    BY ConstantsAssumption DEF Nightly, Start, Wake, vars, Goto, CacheInv, TypeOK, Thread
  <1>3. \A i \in Part : \A n \in Nat : n <= db => n <= db'
    BY <1>1, CacheTypes DEF CacheInv, TypeOK
  <1>4. ComputesLocked' /\ NoRedundantCompute' /\ FloorsBelow'
    BY <1>1, <1>2 DEF CacheInv, ComputesLocked, NoRedundantCompute, FloorsBelow, NoOlder
  <1>5. ServedFromDb'
    BY <1>1, <1>3, CacheTypes DEF CacheInv, ServedFromDb
  <1>6. PartialResults'
    BY <1>1, <1>2, <1>3, CacheTypes DEF CacheInv, PartialResults
  <1>7. NoOlderThanAtStart'
    BY <1>1, <1>2 DEF CacheInv, NoOlderThanAtStart, Thread, NoOlder
  <1> QED BY <1>4, <1>5, <1>6, <1>7 DEF CacheInv

\* A request begins: what it may be given is bounded by what is served at that moment.
LEMMA RequestStep ==
    ASSUME CacheInv, TypeOK', NEW t \in Reader, Request(t)
    PROVE  CacheInv'
  <1>0. t \in Thread /\ TypeOK
    BY DEF Thread, CacheInv
  <1>1. /\ UNCHANGED <<db, value, hasValue, refreshing, done>>
        /\ pc'[t] = "check" /\ floor'[t] = value
        /\ \A u \in Thread : u # t => /\ pc'[u] = pc[u] /\ ifMissing'[u] = ifMissing[u]
                                      /\ mem'[u] = mem[u] /\ floor'[u] = floor[u]
    BY <1>0 DEF Request, Goto, TypeOK
  <1>2. ComputesLocked' /\ NoRedundantCompute' /\ ServedFromDb' /\ PartialResults'
    BY <1>1 DEF CacheInv, ComputesLocked, NoRedundantCompute, ServedFromDb, PartialResults
  <1>3. FloorsBelow' /\ NoOlderThanAtStart'
    BY <1>0, <1>1, CacheTypes DEF CacheInv, FloorsBelow, NoOlderThanAtStart, NoOlder, Thread
  <1> QED BY <1>2, <1>3 DEF CacheInv

\* A thread that stops waiting without computing takes what is served.
LEMMA TakeServedStep ==
    ASSUME CacheInv, TypeOK', NEW t \in Thread, pc'[t] # "compute",
           UNCHANGED <<db, value, hasValue, refreshing, done, floor>>,
           \A u \in Thread : u # t => /\ pc'[u] = pc[u] /\ ifMissing'[u] = ifMissing[u]
                                      /\ mem'[u] = mem[u],
           pc'[t] # "idle" \/ mem'[t] = value
    PROVE  CacheInv'
  <1>1. ComputesLocked' /\ NoRedundantCompute' /\ ServedFromDb' /\ PartialResults' /\ FloorsBelow'
    BY DEF CacheInv, ComputesLocked, NoRedundantCompute, ServedFromDb, PartialResults, FloorsBelow, NoOlder
  <1>2. NoOlderThanAtStart'
    BY DEF CacheInv, NoOlderThanAtStart, NoOlder, Thread, FloorsBelow
  <1> QED BY <1>1, <1>2 DEF CacheInv

\* get's look under _lock.
LEMMA CheckStep ==
    ASSUME CacheInv, TypeOK', NEW t \in Reader, Check(t)
    PROVE  CacheInv'
  <1>0. t \in Thread /\ TypeOK
    BY DEF Thread, CacheInv
  <1>1. UNCHANGED <<db, value, hasValue, refreshing, ifMissing, done, floor>>
    BY DEF Check
  <1>2. /\ pc'[t] \in {"idle", "wait"} /\ (pc'[t] = "idle" => mem'[t] = value)
        /\ \A u \in Thread : u # t => pc'[u] = pc[u] /\ mem'[u] = mem[u]
    <2>1. CASE hasValue
      BY <1>0, <2>1 DEF Check, Goto, TypeOK
    <2>2. CASE ~hasValue
      BY <1>0, <2>2 DEF Check, Goto, TypeOK
    <2> QED BY <2>1, <2>2
  <1> QED BY <1>0, <1>1, <1>2, TakeServedStep

\* _refresh gets its lock: it was free, so nobody computes.
LEMMA EnterStep ==
    ASSUME CacheInv, TypeOK', NEW t \in Thread, Enter(t)
    PROVE  CacheInv'
  <1>0. TypeOK
    BY DEF CacheInv
  <1>1. CASE ifMissing[t] /\ hasValue
    <2>1. /\ UNCHANGED <<db, value, hasValue, refreshing, done, floor>>
          /\ pc'[t] \in {"idle", "sleep"} /\ mem'[t] = value
          /\ \A u \in Thread : u # t => /\ pc'[u] = pc[u] /\ ifMissing'[u] = ifMissing[u]
                                        /\ mem'[u] = mem[u]
      BY <1>0, <1>1 DEF Enter, Goto, After, TypeOK
    <2> QED BY <2>1, TakeServedStep
  <1>2. CASE ~(ifMissing[t] /\ hasValue)
    <2>1. /\ pc' = [pc EXCEPT ![t] = "compute"] /\ refreshing' = t
          /\ done' = [done EXCEPT ![t] = 0]
          /\ UNCHANGED <<mem, ifMissing, db, value, hasValue, floor>>
          /\ refreshing = NoThread
      BY <1>2, Zenon DEF Enter, Goto
    <2>2. \A u \in Thread : pc[u] # "compute"
      BY <2>1, ConstantsAssumption DEF CacheInv, ComputesLocked, Thread
    <2>3. \A u \in Thread : pc'[u] = "compute" => u = t
      BY <1>0, <2>1, <2>2 DEF TypeOK
    <2>4. done'[t] = 0 /\ pc'[t] = "compute" /\ \A u \in Thread : u # t => pc'[u] = pc[u]
      BY <1>0, <2>1 DEF TypeOK
    <2>5. ComputesLocked' /\ FloorsBelow' /\ ServedFromDb'
      BY <2>1, <2>3 DEF CacheInv, ComputesLocked, FloorsBelow, ServedFromDb, NoOlder
    <2>6. NoRedundantCompute'
      BY <1>2, <2>1, <2>3 DEF NoRedundantCompute
    <2>7. PartialResults'
      BY <2>1, <2>3, <2>4 DEF PartialResults, Part
    <2>8. NoOlderThanAtStart'
      BY <2>1, <2>4 DEF CacheInv, NoOlderThanAtStart, Thread, NoOlder
    <2> QED BY <2>5, <2>6, <2>7, <2>8 DEF CacheInv
  <1> QED BY <1>1, <1>2

\* A query adds what is committed now to what the compute has read.
LEMMA QueryStep ==
    ASSUME CacheInv, TypeOK', NEW t \in Thread, Query(t)
    PROVE  CacheInv'
  <1>0. TypeOK
    BY DEF CacheInv
  <1>1. /\ pc[t] = "compute" /\ done[t] < Parts
        /\ UNCHANGED <<db, value, hasValue, refreshing, pc, ifMissing, floor>>
    BY DEF Query
  <1>2. /\ done'[t] = done[t] + 1
        /\ \A u \in Thread : u # t => done'[u] = done[u] /\ mem'[u] = mem[u]
        /\ mem'[t] = [mem[t] EXCEPT ![done[t] + 1] = db]
    BY <1>0 DEF Query, TypeOK
  <1>3. mem[t] \in [Part -> Nat] /\ done[t] \in Nat /\ db \in Nat /\ db >= 1
    BY <1>0, ConstantsAssumption DEF TypeOK, Payload
  <1>4. \A i \in Part : i \in Nat /\ mem'[t][i] = IF i = done[t] + 1 THEN db ELSE mem[t][i]
    <2>1. \A i \in Part : [mem[t] EXCEPT ![done[t] + 1] = db][i]
                              = IF i = done[t] + 1 THEN db ELSE mem[t][i]
      BY <1>3
    <2> QED BY <1>2, <2>1 DEF Part
  <1>5. ComputesLocked' /\ NoRedundantCompute' /\ ServedFromDb' /\ FloorsBelow'
    BY <1>1 DEF CacheInv, ComputesLocked, NoRedundantCompute, ServedFromDb, FloorsBelow, NoOlder
  <1>6. PartialResults'
    <2> SUFFICES ASSUME NEW u \in Thread, pc[u] = "compute", NEW i \in Part, i <= done'[u]
                 PROVE  1 <= mem'[u][i] /\ mem'[u][i] <= db /\ value[i] <= mem'[u][i]
      BY <1>1 DEF PartialResults
    <2>1. CASE u # t
      BY <1>2, <2>1 DEF CacheInv, PartialResults
    <2>2. CASE u = t /\ i = done[t] + 1
      BY <1>3, <1>4, <2>2 DEF CacheInv, ServedFromDb
    <2>3. CASE u = t /\ i # done[t] + 1
      BY <1>2, <1>3, <1>4, <2>3 DEF CacheInv, PartialResults
    <2> QED BY <2>1, <2>2, <2>3
  <1>7. NoOlderThanAtStart'
    BY <1>1, <1>2 DEF CacheInv, NoOlderThanAtStart, NoOlder, Thread
  <1> QED BY <1>5, <1>6, <1>7 DEF CacheInv

\* A compute fails: the lock it held is free and nothing is published.
LEMMA FailStep ==
    ASSUME CacheInv, TypeOK', NEW t \in Thread, Fail(t)
    PROVE  CacheInv'
  <1>0. TypeOK
    BY DEF CacheInv
  <1>1. /\ pc[t] = "compute" /\ refreshing' = NoThread
        /\ UNCHANGED <<db, value, hasValue, ifMissing, done, floor>>
        /\ pc'[t] \in {"idle", "sleep"} /\ mem'[t] = Nothing
        /\ \A u \in Thread : u # t => pc'[u] = pc[u] /\ mem'[u] = mem[u]
    BY <1>0 DEF Fail, Goto, After, TypeOK
  <1>2. \A u \in Thread : pc'[u] # "compute"
    BY <1>1 DEF CacheInv, ComputesLocked
  <1>3. ComputesLocked' /\ NoRedundantCompute' /\ PartialResults'
    BY <1>2 DEF ComputesLocked, NoRedundantCompute, PartialResults
  <1>4. ServedFromDb' /\ FloorsBelow'
    BY <1>1 DEF CacheInv, ServedFromDb, FloorsBelow, NoOlder
  <1>5. NoOlderThanAtStart'
    BY <1>1 DEF CacheInv, NoOlderThanAtStart, NoOlder, Thread
  <1> QED BY <1>3, <1>4, <1>5 DEF CacheInv

\* A complete payload is published; it is nowhere older than the one it replaces.
LEMMA StoreStep ==
    ASSUME CacheInv, TypeOK', NEW t \in Thread, Store(t)
    PROVE  CacheInv' /\ NoOlder(value, value')
  <1>0. TypeOK
    BY DEF CacheInv
  <1>1. /\ pc[t] = "compute" /\ done[t] = Parts /\ value' = mem[t] /\ hasValue' = TRUE
        /\ UNCHANGED <<db, done, mem, floor>>
        /\ pc'[t] \in {"idle", "sleep"}
        /\ \A u \in Thread : u # t => pc'[u] = pc[u]
    BY <1>0 DEF Store, Goto, After, TypeOK
  <1>2. \A u \in Thread : pc'[u] # "compute"
    <2>1. \A u \in Thread : u # t => pc[u] # "compute"
      BY <1>1 DEF CacheInv, ComputesLocked
    <2> QED BY <1>1, <2>1
  <1>3. \A i \in Part : 1 <= mem[t][i] /\ mem[t][i] <= db /\ value[i] <= mem[t][i]
    BY <1>1 DEF CacheInv, PartialResults, Part
  <1>4. NoOlder(value, value')
    BY <1>1, <1>3 DEF NoOlder
  <1>5. \A u \in Thread : NoOlder(floor[u], value')
    BY <1>1, <1>3, <1>0, CacheTypes DEF CacheInv, FloorsBelow, NoOlder
  <1>6. ComputesLocked' /\ NoRedundantCompute' /\ PartialResults'
    BY <1>2 DEF ComputesLocked, NoRedundantCompute, PartialResults
  <1>7. ServedFromDb' /\ FloorsBelow'
    BY <1>1, <1>3, <1>5 DEF ServedFromDb, FloorsBelow, NoOlder
  <1>8. NoOlderThanAtStart'
    BY <1>1, <1>5 DEF CacheInv, NoOlderThanAtStart, NoOlder, Thread
  <1> QED BY <1>4, <1>6, <1>7, <1>8 DEF CacheInv

-----------------------------------------------------------------------------
(* The theorems.                                                           *)

LEMMA CacheInvStep == CacheInv /\ [Next]_vars => CacheInv'
  <1> SUFFICES ASSUME CacheInv, [Next]_vars PROVE CacheInv'
    OBVIOUS
  <1>1. TypeOK'
    BY CacheTypeStep DEF CacheInv
  <1> QED BY <1>1, OutsideStep, RequestStep, CheckStep, EnterStep, QueryStep, FailStep, StoreStep
          DEF Next, Compute

LEMMA CacheInductive == Spec => []CacheInv
  <1>1. Init => CacheInv
    <2> SUFFICES ASSUME Init PROVE CacheInv
      OBVIOUS
    <2>1. Nothing \in Payload /\ \A i \in Part : Nothing[i] = 0
      BY ConstantsAssumption DEF Nothing, Payload, Part
    <2>2. TypeOK
      <3>1. db \in 1..MaxVersion
        BY ConstantsAssumption DEF Init
      <3>0. hasValue \in BOOLEAN /\ refreshing \in Thread \cup {NoThread}
        BY Zenon DEF Init
      <3>2. pc \in [Thread -> Label] /\ ifMissing \in [Thread -> BOOLEAN]
        BY DEF Init, Label
      <3>3. done \in [Thread -> 0..Parts]
        BY ConstantsAssumption DEF Init
      <3>4. value \in Payload /\ mem \in [Thread -> Payload] /\ floor \in [Thread -> Payload]
        BY <2>1 DEF Init
      <3> QED BY <3>0, <3>1, <3>2, <3>3, <3>4 DEF TypeOK
    <2>3. \A t \in Thread : pc[t] # "compute" /\ mem[t] = Nothing /\ floor[t] = Nothing
      BY DEF Init
    <2>4. ComputesLocked /\ PartialResults /\ NoRedundantCompute /\ NoOlderThanAtStart
      BY <2>3 DEF ComputesLocked, PartialResults, NoRedundantCompute, NoOlderThanAtStart, Thread
    <2>5. ServedFromDb
      BY <2>1 DEF Init, ServedFromDb
    <2>6. FloorsBelow
      BY <2>1, <2>3 DEF Init, FloorsBelow, NoOlder
    <2> QED BY <2>2, <2>4, <2>5, <2>6 DEF CacheInv
  <1> QED BY <1>1, CacheInvStep, PTL DEF Spec

\* The variables of the cache keep their types in every behaviour.
THEOREM CacheTypeCorrect == Spec => []TypeOK
  <1>1. CacheInv => TypeOK
    BY DEF CacheInv
  <1> QED BY <1>1, CacheInductive, PTL

\* However many requests meet a cold or refreshing cache, one thread at most computes.
THEOREM ComputesAreSerialized == Spec => []OneComputation
  <1>1. CacheInv => OneComputation
    BY DEF CacheInv, ComputesLocked, OneComputation
  <1> QED BY <1>1, CacheInductive, PTL

\* A request that waited out another's compute does not repeat it.
THEOREM WaitersTakeTheResult == Spec => []NoRedundantCompute
  <1>1. CacheInv => NoRedundantCompute
    BY DEF CacheInv
  <1> QED BY <1>1, CacheInductive, PTL

\* A request never returns a payload older, in any query, than what was served when it began.
THEOREM ReadsAreMonotone == Spec => []NoOlderThanAtStart
  <1>1. CacheInv => NoOlderThanAtStart
    BY DEF CacheInv
  <1> QED BY <1>1, CacheInductive, PTL

\* What is served has an answer from the database to every query.
THEOREM ServedPayloadIsComplete == Spec => []ServedIsComplete
  <1>1. CacheInv => ServedIsComplete
    BY CacheTypes DEF CacheInv, ServedFromDb, ServedIsComplete, TypeOK
  <1> QED BY <1>1, CacheInductive, PTL

\* The served payload never goes back to an older answer.
THEOREM ServedMovesForward == Spec => ServedNeverOlder
  <1>1. CacheInv /\ [Next]_vars => [NoOlder(value, value') /\ (hasValue => hasValue')]_vars
    <2> SUFFICES ASSUME CacheInv, [Next]_vars PROVE NoOlder(value, value') /\ (hasValue => hasValue')
      OBVIOUS
    <2>1. ASSUME NEW t \in Thread, Store(t) PROVE NoOlder(value, value') /\ (hasValue => hasValue')
      <3>1. TypeOK'
        BY CacheTypeStep DEF CacheInv
      <3>2. hasValue' = TRUE
        BY <2>1 DEF Store
      <3> QED BY <2>1, <3>1, <3>2, StoreStep
    <2>2. CASE value' = value /\ hasValue' = hasValue
      BY <2>2, CacheTypes DEF CacheInv, NoOlder
    <2>3. (\E t \in Thread : Store(t)) \/ (value' = value /\ hasValue' = hasValue)
      BY DEF Next, Compute, Nightly, Request, Check, Enter, Query, Fail, Start, Wake, vars
    <2> QED BY <2>1, <2>2, <2>3
  <1> QED BY <1>1, CacheInductive, PTL DEF Spec, ServedNeverOlder

-----------------------------------------------------------------------------
(* OwnerResolution. *)

RowsOf(periods, t) == {r \in periods : r.sat = t}

IsRow(r) == r = [sat |-> r.sat, operator |-> r.operator, from |-> r.from, to |-> r.to]

\* A satellite has no row, one that is open, or one that ends when the open one begins.
OneTimeline(periods) ==
    \/ periods = {}
    \/ \E r \in periods : periods = {r} /\ r.to = Unknown
    \/ \E r, o \in periods : /\ periods = {r, o} /\ r # o
                             /\ r.to \in Nat /\ r.from < r.to
                             /\ o.from = r.to /\ o.to = Unknown

\* Records are folded into anchored ones only, which stay; so no chain of homes arises.
HomesInv ==
    /\ home \in [Sats -> Sats]
    /\ \A t \in Sats : home[t] = t \/ (t \notin Anchored /\ home[t] \in Anchored)

OwnersInv ==
    /\ launch \in [Sats -> LaunchDays]
    /\ HomesInv
    /\ mixed \subseteq Anchored
    /\ \A r \in owners : IsRow(r) /\ r.sat \in Sats /\ home[r.sat] = r.sat
    /\ \A t \in Sats \ mixed : OneTimeline(RowsOf(owners, t))

\* The rows written for a satellite are its own.
LEMMA TimelineIsOwn ==
    ASSUME NEW t, NEW o, NEW r \in Timeline(t, o)
    PROVE  r.sat = t /\ IsRow(r)
  BY DEF Timeline, IsRow

\* And they are one timeline: a launch date is a day, and an acquisition splits it after that day.
LEMMA TimelineIsOne ==
    ASSUME OwnersInv, NEW t \in Sats, NEW o
    PROVE  OneTimeline(Timeline(t, o))
  <1> DEFINE Row(op, from, to) == [sat |-> t, operator |-> op, from |-> from, to |-> to]
  <1>1. CASE launch[t] = Unknown
    BY <1>1 DEF Timeline, OneTimeline
  <1>2. CASE launch[t] # Unknown /\ ~AcquiredAfter(o, launch[t])
    <2>1. Timeline(t, o) = {Row(o, launch[t], Unknown)}
      BY <1>2 DEF Timeline
    <2> QED BY <2>1 DEF OneTimeline
  <1>3. CASE launch[t] # Unknown /\ AcquiredAfter(o, launch[t])
    <2>1. launch[t] \in Nat
      BY <1>3, ResolutionAssumption DEF OwnersInv
    <2>2. PICK c \in DOMAIN Acquired : o = <<c>> /\ launch[t] < Acquired[c].day
      BY <1>3 DEF AcquiredAfter
    <2>3. o[1] = c
      BY <2>2
    <2> DEFINE was == Row(o, launch[t], Acquired[c].day)
               is == Row(<<Acquired[c].parent>>, Acquired[c].day, Unknown)
    <2>4. Timeline(t, o) = {was, is}
      BY <1>3, <2>3 DEF Timeline
    <2>5. Acquired[c].day \in Nat
      BY ResolutionAssumption
    <2>6. was.from < was.to /\ was.to \in Nat /\ is.from = was.to /\ is.to = Unknown /\ was # is
      <3>1. was.from = launch[t] /\ is.from = Acquired[c].day
        OBVIOUS
      <3> QED BY <2>1, <2>2, <2>5, <3>1
    <2> HIDE DEF was, is
    <2> QED BY <2>4, <2>6 DEF OneTimeline
  <1> QED BY <1>1, <1>2, <1>3

\* A promoted record goes to an anchored satellite.
LEMMA SurvivorIsAnchored ==
    ASSUME NEW promoted \in SUBSET Promotable, NEW p \in promoted
    PROVE  /\ p \in Sats \ Anchored /\ home[p] = p
           /\ Survivor(promoted, p) \in Anchored /\ Survivor(promoted, p) \in Sats
  <1>1. p \in Sats \ Anchored /\ home[p] = p /\ Cardinality(Twins(p)) = 1
    BY DEF Promotable
  <1>2. Twins(p) # {}
    BY <1>1, FS_EmptySet
  <1>3. Survivor(promoted, p) \in Twins(p)
    BY <1>2 DEF Survivor
  <1>4. Survivor(promoted, p) \in Anchored
    BY <1>3 DEF Twins
  <1> QED BY <1>1, <1>4, ResolutionAssumption

\* One timeline stays one under another satellite's number.
LEMMA MovedTimeline ==
    ASSUME NEW periods, NEW t, \A r \in periods : IsRow(r), OneTimeline(periods)
    PROVE  OneTimeline({[r EXCEPT !.sat = t] : r \in periods})
  <1> DEFINE To(r) == [r EXCEPT !.sat = t]
             there == {To(r) : r \in periods}
  <1>1. ASSUME NEW r \in periods
        PROVE  To(r).operator = r.operator /\ To(r).from = r.from /\ To(r).to = r.to
    <2>1. r = [sat |-> r.sat, operator |-> r.operator, from |-> r.from, to |-> r.to]
      BY DEF IsRow
    <2> QED BY <2>1
  <1> HIDE DEF To
  <1>2. CASE periods = {}
    BY <1>2 DEF OneTimeline
  <1>3. CASE \E r \in periods : periods = {r} /\ r.to = Unknown
    <2>1. PICK r \in periods : periods = {r} /\ r.to = Unknown
      BY <1>3
    <2>2. there = {To(r)} /\ To(r).to = Unknown
      BY <2>1, <1>1
    <2>3. OneTimeline(there)
      BY <2>2 DEF OneTimeline
    <2> QED BY <2>3 DEF To
  <1>4. CASE \E r, o \in periods : /\ periods = {r, o} /\ r # o
                                /\ r.to \in Nat /\ r.from < r.to
                                /\ o.from = r.to /\ o.to = Unknown
    <2>1. PICK r, o \in periods : /\ periods = {r, o} /\ r.to \in Nat /\ r.from < r.to
                               /\ o.from = r.to /\ o.to = Unknown
      BY <1>4
    <2>2. there = {To(r), To(o)}
      BY <2>1
    <2>3. /\ To(r).to \in Nat /\ To(r).from < To(r).to
          /\ To(o).from = To(r).to /\ To(o).to = Unknown
      BY <2>1, <1>1
    <2>4. To(r) # To(o)
      BY <2>3 DEF Unknown
    <2>5. OneTimeline(there)
      BY <2>2, <2>3, <2>4 DEF OneTimeline
    <2> QED BY <2>5 DEF To
  <1> QED BY <1>2, <1>3, <1>4 DEF OneTimeline, To

\* A satellite that is not mixed by the merges of a build has the rows of one record.
LEMMA MergedTimelines ==
    ASSUME OwnersInv, NEW promoted \in SUBSET Promotable,
           NEW t \in Sats, t \notin mixed, t \notin Mixing(promoted)
    PROVE  OneTimeline(RowsOf(Merged(promoted), t))
  <1> DEFINE To(r) == [r EXCEPT !.sat = t]
             going == {r \in owners : Survivor(promoted, r.sat) = t}
  <1>1. CASE going = {}
    <2>1. ASSUME NEW m \in Merged(promoted) PROVE m.sat # t
      <3>1. PICK r \in owners : m = [r EXCEPT !.sat = Survivor(promoted, r.sat)]
        BY <2>1 DEF Merged
      <3>2. r = [sat |-> r.sat, operator |-> r.operator, from |-> r.from, to |-> r.to]
        BY DEF OwnersInv, IsRow
      <3>3. m.sat = Survivor(promoted, r.sat)
        BY <3>1, <3>2
      <3> QED BY <3>3, <1>1
    <2> QED BY <2>1 DEF RowsOf, OneTimeline
  <1>2. CASE going # {}
    <2>1. PICK one \in going : TRUE
      BY <1>2
    <2> DEFINE u == one.sat
    <2>2. u \in Sats /\ Survivor(promoted, u) = t /\ u \in Nat
      BY <2>1, ResolutionAssumption DEF OwnersInv
    <2>3. \A r \in owners : Survivor(promoted, r.sat) = t => r.sat = u
      BY <2>1 DEF Mixing
    <2>4. u \notin mixed
      <3>1. CASE u \in promoted
        BY <3>1, SurvivorIsAnchored DEF OwnersInv
      <3>2. CASE u \notin promoted
        BY <3>2, <2>2 DEF Survivor
      <3> QED BY <3>1, <3>2
    <2> HIDE DEF u
    <2>5. RowsOf(Merged(promoted), t) = {To(r) : r \in RowsOf(owners, u)}
      <3>1. ASSUME NEW m \in RowsOf(Merged(promoted), t)
            PROVE  m \in {To(r) : r \in RowsOf(owners, u)}
        <4>1. PICK r \in owners : m = [r EXCEPT !.sat = Survivor(promoted, r.sat)]
          BY <3>1 DEF Merged, RowsOf
        <4>2. r = [sat |-> r.sat, operator |-> r.operator, from |-> r.from, to |-> r.to]
          BY DEF OwnersInv, IsRow
        <4>3. m.sat = Survivor(promoted, r.sat)
          BY <4>1, <4>2
        <4>4. Survivor(promoted, r.sat) = t /\ r.sat = u
          BY <4>3, <3>1, <2>3 DEF RowsOf
        <4> QED BY <4>1, <4>4 DEF RowsOf
      <3>2. ASSUME NEW r \in RowsOf(owners, u)
            PROVE  To(r) \in RowsOf(Merged(promoted), t)
        <4>1. r \in owners /\ r.sat = u /\ Survivor(promoted, r.sat) = t
          BY <2>2 DEF RowsOf
        <4>2. r = [sat |-> r.sat, operator |-> r.operator, from |-> r.from, to |-> r.to]
          BY <4>1 DEF OwnersInv, IsRow
        <4>3. ASSUME NEW o \in owners, Survivor(promoted, o.sat) = Survivor(promoted, r.sat)
              PROVE  o.sat = r.sat /\ ~(o.sat < r.sat)
          BY <4>1, <4>3, <2>2, <2>3
        <4>4. [r EXCEPT !.sat = Survivor(promoted, r.sat)] \in Merged(promoted)
          BY <4>1, <4>3 DEF Merged
        <4>5. To(r).sat = t
          BY <4>2
        <4> QED BY <4>1, <4>4, <4>5 DEF RowsOf
      <3> QED BY <3>1, <3>2
    <2>6. OneTimeline(RowsOf(owners, u)) /\ \A r \in RowsOf(owners, u) : IsRow(r)
      BY <2>2, <2>4 DEF OwnersInv, RowsOf
    <2>7. OneTimeline({To(r) : r \in RowsOf(owners, u)})
      BY <2>6, MovedTimeline
    <2> QED BY <2>5, <2>7
  <1> QED BY <1>1, <1>2

\* A build folds records together, then leaves a satellite's rows or writes them anew.
LEMMA BuildKeepsTimelines ==
    ASSUME OwnersInv, Build
    PROVE  OwnersInv'
  <1>1. PICK promoted \in SUBSET Promotable :
          /\ home' = [t \in Sats |-> IF t \in promoted THEN Survivor(promoted, t) ELSE home[t]]
          /\ \E picked \in [Sats -> UNION {OwnerChoices(t) : t \in Sats}] :
                /\ \A t \in Sats : picked[t] \in OwnerChoices(t)
                /\ owners' = UNION {OwnersOf(Merged(promoted), t, picked[t]) : t \in Sats}
                /\ mixed' = {t \in mixed \cup Mixing(promoted) : picked[t] = Nobody}
    BY DEF Build
  <1>2. PICK picked \in [Sats -> UNION {OwnerChoices(t) : t \in Sats}] :
          /\ \A t \in Sats : picked[t] \in OwnerChoices(t)
          /\ owners' = UNION {OwnersOf(Merged(promoted), t, picked[t]) : t \in Sats}
          /\ mixed' = {t \in mixed \cup Mixing(promoted) : picked[t] = Nobody}
    BY <1>1
  <1>3. launch' = launch
    BY DEF Build, worldVars
  <1>4. \A p \in promoted : /\ p \in Sats \ Anchored /\ home[p] = p
                            /\ Survivor(promoted, p) \in Anchored /\ Survivor(promoted, p) \in Sats
    BY SurvivorIsAnchored
  <1>5. \A t \in Sats : Survivor(promoted, t) \in Sats
    BY <1>4 DEF Survivor
  <1>6. HomesInv'
    <2>1. home \in [Sats -> Sats] /\ \A t \in Sats : home[t] = t \/ (t \notin Anchored /\ home[t] \in Anchored)
      BY DEF OwnersInv, HomesInv
    <2>2. home' \in [Sats -> Sats]
      BY <1>1, <2>1, <1>4
    <2>3. \A t \in Sats : home'[t] = t \/ (t \notin Anchored /\ home'[t] \in Anchored)
      BY <1>1, <2>1, <1>4
    <2> QED BY <2>2, <2>3 DEF HomesInv
  \* A satellite that was folded into another is resolved no more.
  <1>7. ASSUME NEW t \in Sats, home'[t] # t
        PROVE  picked[t] = Nobody
    <2>1. \A k \in Sats : home'[k] # t
      BY <1>6, <1>7 DEF HomesInv
    <2>2. \A s : Claimed(s, t) = NoClaim
      BY <2>1 DEF Claimed
    <2>3. OwnerChoices(t) = {Nobody}
      BY <2>2 DEF OwnerChoices
    <2> QED BY <2>3, <1>2
  <1>8. ASSUME NEW m \in Merged(promoted)
        PROVE  IsRow(m) /\ m.sat \in Sats /\ home'[m.sat] = m.sat
    <2>1. PICK r \in owners : m = [r EXCEPT !.sat = Survivor(promoted, r.sat)]
      BY DEF Merged
    <2>2. /\ r = [sat |-> r.sat, operator |-> r.operator, from |-> r.from, to |-> r.to]
          /\ r.sat \in Sats /\ home[r.sat] = r.sat
      BY DEF OwnersInv, IsRow
    <2>3. m = [sat |-> Survivor(promoted, r.sat), operator |-> r.operator,
               from |-> r.from, to |-> r.to]
      BY <2>1, <2>2
    <2>4. IsRow(m) /\ m.sat = Survivor(promoted, r.sat)
      BY <2>3 DEF IsRow
    <2>5. home'[Survivor(promoted, r.sat)] = Survivor(promoted, r.sat)
      <3>1. CASE r.sat \in promoted
        BY <3>1, <1>4, <1>6 DEF HomesInv
      <3>2. CASE r.sat \notin promoted
        BY <3>2, <2>2, <1>1 DEF Survivor
      <3> QED BY <3>1, <3>2
    <2> QED BY <2>2, <2>4, <2>5, <1>5
  <1>9. ASSUME NEW t \in Sats
        PROVE  \A r \in OwnersOf(Merged(promoted), t, picked[t]) :
                   IsRow(r) /\ r.sat = t /\ home'[t] = t
    <2>1. CASE picked[t] = Nobody
      <3>1. OwnersOf(Merged(promoted), t, picked[t]) = RowsOf(Merged(promoted), t)
        BY <2>1 DEF OwnersOf, RowsOf
      <3> QED BY <3>1, <1>8 DEF RowsOf
    <2>2. CASE picked[t] # Nobody
      <3>1. OwnersOf(Merged(promoted), t, picked[t]) = Timeline(t, picked[t])
        BY <2>2 DEF OwnersOf, WriteOwner
      <3> QED BY <3>1, <2>2, <1>7, TimelineIsOwn
    <2> QED BY <2>1, <2>2
  <1>10. \A r \in owners' : IsRow(r) /\ r.sat \in Sats /\ home'[r.sat] = r.sat
    BY <1>2, <1>9
  <1>11. mixed' \subseteq Anchored
    <2>1. ASSUME NEW t \in Mixing(promoted) PROVE t \in Anchored
      <3>1. PICK r, o \in owners : /\ r.sat # o.sat /\ Survivor(promoted, r.sat) = t
                                /\ Survivor(promoted, o.sat) = t
        BY DEF Mixing
      <3>2. r.sat \in promoted \/ o.sat \in promoted
        BY <3>1 DEF Survivor
      <3> QED BY <3>1, <3>2, <1>4
    <2> QED BY <2>1, <1>2 DEF OwnersInv
  <1>12. ASSUME NEW t \in Sats, t \notin mixed'
         PROVE  OneTimeline(RowsOf(owners', t))
    <2>1. RowsOf(owners', t) = OwnersOf(Merged(promoted), t, picked[t])
      BY <1>2, <1>9 DEF RowsOf
    <2>2. CASE picked[t] = Nobody
      <3>1. t \notin mixed /\ t \notin Mixing(promoted)
        BY <2>2, <1>2, <1>12
      <3>2. OwnersOf(Merged(promoted), t, picked[t]) = RowsOf(Merged(promoted), t)
        BY <2>2 DEF OwnersOf, RowsOf
      <3> QED BY <2>1, <3>1, <3>2, MergedTimelines
    <2>3. CASE picked[t] # Nobody
      <3>1. OwnersOf(Merged(promoted), t, picked[t]) = Timeline(t, picked[t])
        BY <2>3 DEF OwnersOf, WriteOwner
      <3> QED BY <2>1, <3>1, TimelineIsOne
    <2> QED BY <2>2, <2>3
  <1> QED BY <1>3, <1>6, <1>10, <1>11, <1>12 DEF OwnersInv

\* OwnersInv is inductive, whatever changes between builds and whichever records are folded.
THEOREM OwnersInductive == ResolutionSpec => []OwnersInv
  <1>1. ResolutionInit => OwnersInv
    BY DEF ResolutionInit, OwnersInv, HomesInv, OneTimeline, RowsOf
  <1>2. OwnersInv /\ [ResolutionNext]_resolutionVars => OwnersInv'
    <2> SUFFICES ASSUME OwnersInv, [ResolutionNext]_resolutionVars
                 PROVE  OwnersInv'
      OBVIOUS
    <2>1. ASSUME UNCHANGED <<home, owners, mixed>>, launch' \in [Sats -> LaunchDays]
          PROVE  OwnersInv'
      BY <2>1 DEF OwnersInv, HomesInv
    <2>2. launch \in [Sats -> LaunchDays]
      BY DEF OwnersInv
    <2>3. ASSUME NEW s, NEW said, Publish(s, said) PROVE OwnersInv'
      BY <2>1, <2>2, <2>3 DEF Publish, BetweenBuilds
    <2>4. ASSUME NEW said, PublishOrgs(said) PROVE OwnersInv'
      BY <2>1, <2>2, <2>4 DEF PublishOrgs, BetweenBuilds
    <2>5. ASSUME NEW t \in Sats, NEW day \in LaunchDays, LaunchDated(t, day) PROVE OwnersInv'
      BY <2>1, <2>2, <2>5 DEF LaunchDated, BetweenBuilds
    <2>6. ASSUME NEW t \in Sats, NEW p \in Pieces, Designated(t, p) PROVE OwnersInv'
      BY <2>1, <2>2, <2>6 DEF Designated, BetweenBuilds
    <2>7. CASE Build
      BY <2>7, BuildKeepsTimelines
    <2>8. CASE UNCHANGED resolutionVars
      BY <2>1, <2>2, <2>8 DEF resolutionVars, worldVars
    <2> QED BY <2>3, <2>4, <2>5, <2>6, <2>7, <2>8 DEF ResolutionNext
  <1> QED BY <1>1, <1>2, PTL DEF ResolutionSpec

\* Seeded operators stay, and an alias or a row names an operator.
NamesInv ==
    /\ {<<n>> : n \in DOMAIN Seeds} \subseteq operators
    /\ \A a \in aliases : a[1] \in operators
    /\ \A r \in owners : r.operator \in operators

\* A build only adds operators, and every alias that it adds is one of an operator there is.
LEMMA EnrichedNames ==
    ASSUME NamesInv, operators' = Enriched.op, aliases' = Enriched.al
    PROVE  operators \subseteq operators' /\ \A a \in aliases' : a[1] \in operators'
  <1> DEFINE op == operators \cup {l[1] : l \in GcatLinks}
             al == aliases \cup UNION {{<<l[1], a, "gcat_orgs">> : a \in {l[2]} \cup NameVariants(l[2])}
                                      : l \in GcatLinks}
             satcat == SatcatLinks(op, al)
  <1>1. /\ Enriched.op = op \cup {l[1] : l \in satcat}
        /\ Enriched.al = al \cup {<<l[1], l[2], "satcat_sources">> : l \in satcat}
    BY DEF Enriched
  <1> HIDE DEF satcat
  <1>2. \A a \in al : a[1] \in op
    BY DEF NamesInv
  <1> HIDE DEF op, al
  <1>3. \A a \in aliases' : a[1] \in operators'
    BY <1>1, <1>2
  <1>4. operators \subseteq op
    BY DEF op
  <1> QED BY <1>1, <1>3, <1>4

\* The rows written for an operator name it or a seeded one.
LEMMA TimelineNames ==
    ASSUME NEW t, NEW o, NEW r \in Timeline(t, o)
    PROVE  r.operator = o \/ \E n \in DOMAIN Seeds : r.operator = <<n>>
  <1>1. CASE launch[t] = Unknown \/ ~AcquiredAfter(o, launch[t])
    BY <1>1 DEF Timeline
  <1>2. CASE launch[t] # Unknown /\ AcquiredAfter(o, launch[t])
    <2>1. PICK c \in DOMAIN Acquired : o = <<c>>
      BY <1>2 DEF AcquiredAfter
    <2>2. o[1] = c /\ Acquired[c].parent \in DOMAIN Seeds
      BY <2>1, ResolutionAssumption
    <2>3. r.operator = o \/ r.operator = <<Acquired[c].parent>>
      BY <1>2, <2>2 DEF Timeline
    <2> QED BY <2>2, <2>3
  <1> QED BY <1>1, <1>2

\* A build keeps names.
LEMMA BuildKeepsNames ==
    ASSUME NamesInv, OwnersInv, Build
    PROVE  NamesInv'
  <1>1. operators \subseteq operators' /\ \A a \in aliases' : a[1] \in operators'
    BY EnrichedNames DEF Build
  <1>a. PICK promoted \in SUBSET Promotable : \E picked \in [Sats -> UNION {OwnerChoices(t) : t \in Sats}] :
          owners' = UNION {OwnersOf(Merged(promoted), t, picked[t]) : t \in Sats}
    BY DEF Build
  <1>2. PICK picked \in [Sats -> UNION {OwnerChoices(t) : t \in Sats}] :
          owners' = UNION {OwnersOf(Merged(promoted), t, picked[t]) : t \in Sats}
    BY <1>a
  <1>5. \A t \in Sats : picked[t] # Nobody => picked[t] \in operators'
    <2>1. ASSUME NEW code PROVE OperatorsOf(code) \subseteq operators'
      BY <1>1 DEF OperatorsOf, Bearers
    <2>2. ASSUME NEW u \in Sats PROVE OwnerChoices(u) \subseteq operators' \cup {Nobody}
      <3>1. OwnerChoices(u) = {Nobody} \/ \E code : OwnerChoices(u) = OperatorsOf(code)
        BY Zenon DEF OwnerChoices
      <3> QED BY <2>1, <3>1
    <2>3. ASSUME NEW t \in Sats PROVE picked[t] \in UNION {OwnerChoices(u) : u \in Sats}
      BY <1>2
    <2> QED BY <2>2, <2>3
  <1>3. ASSUME NEW m \in Merged(promoted) PROVE m.operator \in operators'
    <2>1. PICK r \in owners : m = [r EXCEPT !.sat = Survivor(promoted, r.sat)]
      BY DEF Merged
    <2>2. r = [sat |-> r.sat, operator |-> r.operator, from |-> r.from, to |-> r.to]
      BY DEF OwnersInv, IsRow
    <2>3. m.operator = r.operator
      BY <2>1, <2>2
    <2> QED BY <2>3, <1>1 DEF NamesInv
  <1>4. ASSUME NEW r \in owners' PROVE r.operator \in operators'
    <2>1. PICK t \in Sats : r \in OwnersOf(Merged(promoted), t, picked[t])
      BY <1>2
    <2>2. CASE picked[t] = Nobody
      BY <2>1, <2>2, <1>3 DEF OwnersOf
    <2>3. CASE picked[t] # Nobody
      <3>1. r \in Timeline(t, picked[t])
        BY <2>1, <2>3 DEF OwnersOf, WriteOwner
      <3>a. picked[t] \in operators'
        BY <1>5, <2>1, <2>3
      <3>2. r.operator = picked[t] \/ \E n \in DOMAIN Seeds : r.operator = <<n>>
        BY <3>1, TimelineNames
      <3> QED BY <3>a, <3>2, <1>1 DEF NamesInv
    <2> QED BY <2>2, <2>3
  <1> QED BY <1>1, <1>4 DEF NamesInv

\* The rows of a satellite that is there, the operators that they and the aliases name.
THEOREM ResolutionTypeCorrect == ResolutionSpec => []ResolutionTypeOK
  <1>1. ResolutionInit => NamesInv
    BY DEF ResolutionInit, NamesInv
  <1>2. OwnersInv /\ NamesInv /\ [ResolutionNext]_resolutionVars => NamesInv'
    <2> SUFFICES ASSUME OwnersInv, NamesInv, [ResolutionNext]_resolutionVars
                 PROVE  NamesInv'
      OBVIOUS
    <2>1. CASE Build
      BY <2>1, BuildKeepsNames
    <2>2. CASE UNCHANGED <<operators, aliases, owners>>
      BY <2>2 DEF NamesInv
    <2> QED BY <2>1, <2>2 DEF ResolutionNext, BetweenBuilds, Publish, PublishOrgs, LaunchDated,
                              Designated, resolutionVars
  <1>3. OwnersInv /\ NamesInv => ResolutionTypeOK
    BY DEF OwnersInv, HomesInv, NamesInv, ResolutionTypeOK
  <1> QED BY <1>1, <1>2, <1>3, OwnersInductive, PTL DEF ResolutionSpec

\* No satellite ever has two owners on a day, and its periods follow each other without a gap up
\* to the present, but for one that keeps the rows of two records and whose owner was not resolved
\* since.
THEOREM OwnershipIsOneTimelineHolds == ResolutionSpec => []OwnershipIsOneTimeline
  <1>1. OwnersInv => OwnershipIsOneTimeline
    <2> SUFFICES ASSUME OwnersInv, NEW t \in Sats \ mixed, RowsOf(owners, t) # {}
                 PROVE  /\ home[t] = t
                        /\ Cardinality({r \in RowsOf(owners, t) : r.to = Unknown}) = 1
                        /\ \A r, o \in RowsOf(owners, t) : r # o => r.to = o.from \/ o.to = r.from
      BY DEF OwnershipIsOneTimeline, RowsOf
    <2>h. home[t] = t
      BY DEF OwnersInv, RowsOf
    <2> DEFINE periods == RowsOf(owners, t)
               open == {r \in periods : r.to = Unknown}
    <2>0. OneTimeline(periods)
      BY DEF OwnersInv
    <2> HIDE DEF periods
    <2>1. CASE \E r \in periods : periods = {r} /\ r.to = Unknown
      <3>1. PICK r \in periods : periods = {r} /\ r.to = Unknown
        BY <2>1
      <3>2. open = {r}
        BY <3>1
      <3>3. Cardinality(open) = 1
        BY <3>2, FS_Singleton
      <3> QED BY <2>h, <3>1, <3>3 DEF periods
    <2>2. CASE \E r, o \in periods : /\ periods = {r, o} /\ r # o
                                  /\ r.to \in Nat /\ r.from < r.to
                                  /\ o.from = r.to /\ o.to = Unknown
      <3>1. PICK r, o \in periods : /\ periods = {r, o} /\ r # o /\ r.to \in Nat
                                 /\ o.from = r.to /\ o.to = Unknown
        BY <2>2
      <3>2. open = {o}
        BY <3>1 DEF Unknown
      <3>3. Cardinality(open) = 1
        BY <3>2, FS_Singleton
      <3> QED BY <2>h, <3>1, <3>3 DEF periods
    <2> QED BY <2>0, <2>1, <2>2 DEF OneTimeline, periods
  <1> QED BY <1>1, OwnersInductive, PTL

-----------------------------------------------------------------------------
(* GoldReview. *)

Given == [n : Nat, v : VERDICT_VALUES]
Labeled == {k \in DOMAIN table : table[k].verdict # NoVerdict}
Committed == {r \in Reviewer : review[r].pc = "committed"}

\* The file is a sequence of lines.
FileTyped ==
    /\ file \in Seq({file[i] : i \in DOMAIN file})
    /\ \A i \in DOMAIN file : file[i].verdict \in Given

\* The shapes of the variables, and verdicts are verdicts wherever they are.
GoldTypes ==
    /\ \A k \in DOMAIN table :
          /\ table[k] = [id |-> table[k].id, sat |-> table[k].sat, verdict |-> table[k].verdict]
          /\ table[k].verdict \in {NoVerdict} \cup Given
    /\ review = [r \in Reviewer |-> [pc |-> review[r].pc, case |-> review[r].case,
                                     todo |-> review[r].todo, verdict |-> review[r].verdict]]
    /\ FileTyped
    /\ \A r \in Committed : review[r].verdict \in Given
    /\ writes \in Nat /\ raced \in BOOLEAN /\ lost \in BOOLEAN

\* Each reviewer between its commit and its line has a case of its own, with its verdict on it;
\* every other verdict of the table is the last one in the file.
OnTheWay ==
    /\ \A r \in Committed :
          /\ review[r].case \in DOMAIN table
          /\ table[review[r].case].verdict = review[r].verdict
    /\ \A r, o \in Committed : r # o => review[r].case # review[o].case
    /\ \A k \in Labeled : \/ \E r \in Committed : review[r].case = k
                          \/ LinesOf(k) # {} /\ LastLine(k) = table[k].verdict

GoldInv ==
    /\ GoldTypes
    /\ IsFiniteSet(Labeled)
    /\ ~lost /\ ~raced => OnTheWay

\* A case with a line has a last one.
LEMMA LastLineIsOne ==
    ASSUME FileTyped, NEW k, LinesOf(k) # {}
    PROVE  \E i \in LinesOf(k) : LastLine(k) = file[i].verdict /\ \A j \in LinesOf(k) : j <= i
  <1>1. Len(file) \in Nat /\ DOMAIN file = 1..Len(file)
    BY DEF FileTyped
  <1>2. LinesOf(k) \subseteq 1..Len(file)
    BY <1>1 DEF LinesOf
  <1>3. \E i \in LinesOf(k) : \A j \in LinesOf(k) : j <= i
    <2>1. LinesOf(k) \subseteq Nat /\ \A j \in LinesOf(k) : j <= Len(file)
      BY <1>1, <1>2
    <2> QED BY <1>1, <2>1, GreatestNat
  <1> QED BY <1>3 DEF LastLine

\* A line added at the end is the last one of its case and of no other.
LEMMA LineIsLast ==
    ASSUME FileTyped, NEW k, NEW v, v \in Given, file' = Append(file, [case |-> k, verdict |-> v])
    PROVE  /\ LinesOf(k)' # {} /\ LastLine(k)' = v
           /\ \A j : j # k => LinesOf(j)' = LinesOf(j)
           /\ \A j : j # k /\ LinesOf(j) # {} => LastLine(j)' = LastLine(j)
           /\ FileTyped'
  <1> DEFINE line == [case |-> k, verdict |-> v]
             old == {file[i] : i \in DOMAIN file}
             n == Len(file)
  <1>1. file \in Seq(old) /\ n \in Nat /\ DOMAIN file = 1..n
    BY DEF FileTyped
  <1>2. file \in Seq(old \cup {line}) /\ line \in old \cup {line}
    BY <1>1
  <1> HIDE DEF old
  <1>3. /\ file' \in Seq(old \cup {line}) /\ Len(file') = n + 1
        /\ \A i \in 1..n : file'[i] = file[i]
        /\ file'[n + 1] = line
    BY <1>2, AppendProperties
  <1>4. DOMAIN file' = 1..(n + 1)
    BY <1>3, <1>1
  <1>5. line.case = k /\ line.verdict = v
    OBVIOUS
  <1> HIDE DEF line, n
  <1>6. LinesOf(k)' = LinesOf(k) \cup {n + 1}
    BY <1>1, <1>3, <1>4, <1>5 DEF LinesOf
  <1>7. \A j : j # k => LinesOf(j)' = LinesOf(j)
    BY <1>1, <1>3, <1>4, <1>5 DEF LinesOf
  <1>8. LastLine(k)' = v
    <2>1. \A i \in LinesOf(k)' : i <= n + 1 /\ i \in Nat
      BY <1>1, <1>4 DEF LinesOf
    <2>2. n + 1 \in LinesOf(k)'
      BY <1>6
    <2>3. (CHOOSE i \in LinesOf(k)' : \A j \in LinesOf(k)' : j <= i) = n + 1
      BY <2>1, <2>2, <1>1
    <2> QED BY <2>3, <1>3, <1>5 DEF LastLine
  <1>9. ASSUME NEW j, j # k, LinesOf(j) # {} PROVE LastLine(j)' = LastLine(j)
    <2>1. LinesOf(j)' = LinesOf(j)
      BY <1>7, <1>9
    <2> DEFINE last == CHOOSE i \in LinesOf(j) : \A h \in LinesOf(j) : h <= i
    <2>2. last \in LinesOf(j)
      <3>1. \E i \in LinesOf(j) : \A h \in LinesOf(j) : h <= i
        BY <1>9, LastLineIsOne
      <3> QED BY <3>1
    <2>3. last \in 1..n
      BY <2>2, <1>1 DEF LinesOf
    <2>4. LastLine(j) = file[last].verdict /\ LastLine(j)' = file'[last].verdict
      BY <2>1 DEF LastLine
    <2> QED BY <2>3, <2>4, <1>3
  <1>10. file' \in Seq({file'[i] : i \in DOMAIN file'})
    BY <1>3, <1>4, <1>1
  <1>11. \A i \in DOMAIN file' : file'[i].verdict \in Given
    BY <1>1, <1>3, <1>4, <1>5 DEF FileTyped
  <1> QED BY <1>6, <1>7, <1>8, <1>9, <1>10, <1>11 DEF FileTyped

\* A session's fields.
SessionShape(q) == q = [pc |-> q.pc, case |-> q.case, todo |-> q.todo, verdict |-> q.verdict]

\* Moving on, a session has no verdict under way.
LEMMA OnwardIsUncommitted ==
    ASSUME NEW q
    PROVE  SessionShape(Onward(q)) /\ Onward(q).pc # "committed"
  <1> DEFINE known == q.todo \cap DOMAIN table
  <1>1. CASE known = {}
    <2>1. Onward(q) = Idle
      BY <1>1 DEF Onward
    <2> QED BY <2>1 DEF Idle, SessionShape
  <1>2. CASE known # {}
    <2>1. Onward(q) = [Idle EXCEPT !.pc = "checked", !.case = First(known),
                                   !.todo = known \ {First(known)}]
      BY <1>2 DEF Onward
    <2> HIDE DEF known
    <2> QED BY <2>1 DEF Idle, SessionShape
  <1> QED BY <1>1, <1>2

\* A reviewer with no verdict under way moves to where it has none.
LEMMA SessionKeeps ==
    ASSUME GoldInv, NEW r \in Reviewer, NEW q, SessionShape(q), q.pc # "committed",
           review' = [review EXCEPT ![r] = q], UNCHANGED <<table, file, writes, raced>>,
           \/ review[r].pc # "committed" /\ lost' = lost
           \/ review[r].pc = "committed" /\ lost' = TRUE
    PROVE  GoldInv'
  <1>1. review = [o \in Reviewer |-> [pc |-> review[o].pc, case |-> review[o].case,
                                     todo |-> review[o].todo, verdict |-> review[o].verdict]]
    BY DEF GoldInv, GoldTypes
  <1>2. /\ DOMAIN review' = Reviewer /\ review'[r] = q
        /\ \A o \in Reviewer \ {r} : review'[o] = review[o]
    BY <1>1
  <1>3. review' = [o \in Reviewer |-> review'[o]]
    BY <1>1
  <1>4. \A o \in Reviewer : SessionShape(review'[o])
    BY <1>1, <1>2 DEF SessionShape
  <1>5. review' = [o \in Reviewer |-> [pc |-> review'[o].pc, case |-> review'[o].case,
                                      todo |-> review'[o].todo, verdict |-> review'[o].verdict]]
    BY <1>3, <1>4 DEF SessionShape
  <1>6. Committed' = Committed \ {r}
    BY <1>2 DEF Committed
  <1>7. GoldTypes'
    <2>1. \A o \in Committed' : review'[o].verdict \in Given
      BY <1>2, <1>6 DEF GoldInv, GoldTypes
    <2>2. FileTyped'
      BY DEF GoldInv, GoldTypes, FileTyped
    <2>3. writes' \in Nat /\ raced' \in BOOLEAN /\ lost' \in BOOLEAN
      BY DEF GoldInv, GoldTypes
    <2>4. \A k \in DOMAIN table' :
             /\ table'[k] = [id |-> table'[k].id, sat |-> table'[k].sat, verdict |-> table'[k].verdict]
             /\ table'[k].verdict \in {NoVerdict} \cup Given
      BY DEF GoldInv, GoldTypes
    <2> QED BY <2>1, <2>2, <2>3, <2>4, <1>5 DEF GoldTypes
  <1>8. IsFiniteSet(Labeled')
    BY DEF GoldInv, Labeled
  <1>9. ASSUME ~lost', ~raced' PROVE OnTheWay'
    <2>1. OnTheWay /\ r \notin Committed
      BY <1>9 DEF GoldInv, Committed
    <2>2. Committed' = Committed /\ \A o \in Committed : review'[o] = review[o]
      BY <2>1, <1>6, <1>2 DEF Committed
    <2>3. \A k : LinesOf(k)' = LinesOf(k) /\ LastLine(k)' = LastLine(k)
      BY DEF LinesOf, LastLine
    <2>4. Labeled' = Labeled
      BY DEF Labeled
    <2> QED BY <2>1, <2>2, <2>3, <2>4 DEF OnTheWay
  <1> QED BY <1>7, <1>8, <1>9 DEF GoldInv

\* Only a verdict recorded over one that is under way races it.
LEMMA RecordVerdictKeeps ==
    ASSUME GoldInv, NEW r \in Reviewer, NEW v \in Verdicts, RecordVerdict(r, v)
    PROVE  GoldInv'
  <1> DEFINE k == review[r].case
             verdict == [n |-> writes + 1, v |-> v]
  <1>1. /\ review[r].pc = "checked" /\ k \in DOMAIN table
        /\ table' = [table EXCEPT ![k].verdict = verdict]
        /\ writes' = writes + 1
        /\ review' = [review EXCEPT ![r].pc = "committed", ![r].verdict = verdict]
        /\ raced' = (raced \/ \E o \in Reviewer : review[o].pc = "committed" /\ review[o].case = k)
        /\ UNCHANGED <<file, lost>>
    BY DEF RecordVerdict
  <1>2. verdict \in Given
    BY GoldAssumption DEF GoldInv, GoldTypes, Given
  <1>3. /\ \A j \in DOMAIN table :
              /\ table[j] = [id |-> table[j].id, sat |-> table[j].sat, verdict |-> table[j].verdict]
              /\ table[j].verdict \in {NoVerdict} \cup Given
        /\ review = [o \in Reviewer |-> [pc |-> review[o].pc, case |-> review[o].case,
                                         todo |-> review[o].todo, verdict |-> review[o].verdict]]
    BY DEF GoldInv, GoldTypes
  <1> HIDE DEF verdict
  <1>4. /\ DOMAIN table' = DOMAIN table
        /\ table'[k] = [id |-> table[k].id, sat |-> table[k].sat, verdict |-> verdict]
        /\ \A j \in DOMAIN table \ {k} : table'[j] = table[j]
    <2>1. table[k] = [id |-> table[k].id, sat |-> table[k].sat, verdict |-> table[k].verdict]
      BY <1>1, <1>3
    <2> HIDE DEF k
    <2> QED BY <1>1, <2>1
  <1>5. /\ DOMAIN review' = Reviewer /\ review' = [o \in Reviewer |-> review'[o]]
        /\ \A o \in Reviewer \ {r} : review'[o] = review[o]
        /\ review'[r] = [pc |-> "committed", case |-> k, todo |-> review[r].todo, verdict |-> verdict]
    <2>1. review[r] = [pc |-> review[r].pc, case |-> review[r].case,
                       todo |-> review[r].todo, verdict |-> review[r].verdict]
      BY <1>3
    <2> QED BY <1>1, <1>3, <2>1
  <1>6. Committed' = Committed \cup {r}
    BY <1>5 DEF Committed
  <1> HIDE DEF k
  <1>7. GoldTypes'
    <2>1. ASSUME NEW j \in DOMAIN table'
          PROVE  /\ table'[j] = [id |-> table'[j].id, sat |-> table'[j].sat, verdict |-> table'[j].verdict]
                 /\ table'[j].verdict \in {NoVerdict} \cup Given
      BY <2>1, <1>2, <1>3, <1>4
    <2>2. \A o \in Reviewer : SessionShape(review'[o])
      BY <1>3, <1>5 DEF SessionShape
    <2>3. review' = [o \in Reviewer |-> [pc |-> review'[o].pc, case |-> review'[o].case,
                                        todo |-> review'[o].todo, verdict |-> review'[o].verdict]]
      BY <1>5, <2>2 DEF SessionShape
    <2>4. \A o \in Committed' : review'[o].verdict \in Given
      BY <1>2, <1>5, <1>6 DEF GoldInv, GoldTypes, Committed
    <2>5. writes' \in Nat /\ raced' \in BOOLEAN /\ lost' \in BOOLEAN
      BY <1>1 DEF GoldInv, GoldTypes
    <2>6. FileTyped'
      BY <1>1 DEF GoldInv, GoldTypes, FileTyped
    <2> QED BY <2>1, <2>3, <2>4, <2>5, <2>6 DEF GoldTypes
  <1>8. verdict # NoVerdict
    BY <1>2 DEF Given, NoVerdict, VERDICT_VALUES
  <1>9. Labeled' = Labeled \cup {k}
    BY <1>1, <1>4, <1>8 DEF Labeled
  <1>10. IsFiniteSet(Labeled')
    BY <1>9, FS_AddElement DEF GoldInv
  <1>11. ASSUME ~lost', ~raced' PROVE OnTheWay'
    <2>1. OnTheWay /\ \A o \in Committed : review[o].case # k
      BY <1>11, <1>1 DEF GoldInv, GoldTypes, Committed
    <2>2. r \notin Committed /\ \A o \in Committed : review'[o] = review[o]
      BY <1>1, <1>5 DEF Committed
    <2>3. \A j : LinesOf(j)' = LinesOf(j) /\ LastLine(j)' = LastLine(j)
      BY <1>1 DEF LinesOf, LastLine
    <2>4. review'[r].case = k /\ review'[r].verdict = verdict /\ k \in DOMAIN table'
      BY <1>5, <1>4, <1>1 DEF k
    <2>5. ASSUME NEW o \in Committed'
          PROVE  /\ review'[o].case \in DOMAIN table'
                 /\ table'[review'[o].case].verdict = review'[o].verdict
      BY <2>1, <2>2, <2>4, <1>4, <1>6 DEF OnTheWay
    <2>6. \A o, p \in Committed' : o # p => review'[o].case # review'[p].case
      BY <2>1, <2>2, <2>4, <1>6 DEF OnTheWay
    <2>7. ASSUME NEW j \in Labeled'
          PROVE  \/ \E o \in Committed' : review'[o].case = j
                 \/ LinesOf(j)' # {} /\ LastLine(j)' = table'[j].verdict
      <3>1. CASE j = k
        BY <3>1, <2>4, <1>6
      <3>2. CASE j # k
        <4>1. j \in Labeled /\ table'[j] = table[j]
          BY <3>2, <1>9, <1>4 DEF Labeled
        <4> QED BY <4>1, <2>1, <2>2, <2>3, <1>6 DEF OnTheWay
      <3> QED BY <3>1, <3>2
    <2> QED BY <2>5, <2>6, <2>7 DEF OnTheWay
  <1> QED BY <1>7, <1>10, <1>11 DEF GoldInv

\* The line is appended: the case is no longer under way and its last line is its verdict.
LEMMA AppendLineKeeps ==
    ASSUME GoldInv, NEW r \in Reviewer, AppendLine(r)
    PROVE  GoldInv'
  <1>0. PICK k, v : k = review[r].case /\ v = review[r].verdict
    OBVIOUS
  <1>1. /\ r \in Committed
        /\ file' = Append(file, [case |-> k, verdict |-> v])
        /\ review' = [review EXCEPT ![r] = Onward(review[r])]
        /\ UNCHANGED <<table, writes, raced, lost>>
    BY <1>0 DEF AppendLine, Committed
  <1>2. FileTyped /\ v \in Given
    BY <1>0, <1>1 DEF GoldInv, GoldTypes
  <1>3. review = [o \in Reviewer |-> [pc |-> review[o].pc, case |-> review[o].case,
                                     todo |-> review[o].todo, verdict |-> review[o].verdict]]
    BY DEF GoldInv, GoldTypes
  <1>4. /\ review' = [o \in Reviewer |-> review'[o]]
        /\ \A o \in Reviewer \ {r} : review'[o] = review[o]
        /\ review'[r] = Onward(review[r])
    BY <1>1, <1>3
  <1>5. /\ LinesOf(k)' # {} /\ LastLine(k)' = v
        /\ \A j : j # k => LinesOf(j)' = LinesOf(j)
        /\ \A j : j # k /\ LinesOf(j) # {} => LastLine(j)' = LastLine(j)
        /\ FileTyped'
    BY <1>1, <1>2, LineIsLast
  <1>6. SessionShape(review'[r]) /\ review'[r].pc # "committed"
    BY <1>4, OnwardIsUncommitted
  <1>7. Committed' = Committed \ {r}
    BY <1>4, <1>6 DEF Committed
  <1>8. GoldTypes'
    <2>1. \A o \in Reviewer : SessionShape(review'[o])
      BY <1>3, <1>4, <1>6 DEF SessionShape
    <2>2. review' = [o \in Reviewer |-> [pc |-> review'[o].pc, case |-> review'[o].case,
                                        todo |-> review'[o].todo, verdict |-> review'[o].verdict]]
      BY <1>4, <2>1 DEF SessionShape
    <2>3. \A o \in Committed' : review'[o].verdict \in Given
      BY <1>4, <1>7 DEF GoldInv, GoldTypes, Committed
    <2>4. writes' \in Nat /\ raced' \in BOOLEAN /\ lost' \in BOOLEAN
      BY <1>1 DEF GoldInv, GoldTypes
    <2>5. \A j \in DOMAIN table' :
             /\ table'[j] = [id |-> table'[j].id, sat |-> table'[j].sat, verdict |-> table'[j].verdict]
             /\ table'[j].verdict \in {NoVerdict} \cup Given
      BY <1>1 DEF GoldInv, GoldTypes
    <2> QED BY <1>5, <2>2, <2>3, <2>4, <2>5 DEF GoldTypes
  <1>9. Labeled' = Labeled
    BY <1>1 DEF Labeled
  <1>10. ASSUME ~lost', ~raced' PROVE OnTheWay'
    <2>1. OnTheWay
      BY <1>10, <1>1 DEF GoldInv
    <2>2. table[k].verdict = v /\ \A o \in Committed \ {r} : review[o].case # k
      BY <2>1, <1>0, <1>1 DEF OnTheWay
    <2>3. \A o \in Committed' : review'[o] = review[o] /\ o \in Committed
      BY <1>4, <1>7 DEF Committed
    <2>4. ASSUME NEW j \in Labeled'
          PROVE  \/ \E o \in Committed' : review'[o].case = j
                 \/ LinesOf(j)' # {} /\ LastLine(j)' = table'[j].verdict
      <3>1. CASE j = k
        BY <3>1, <1>5, <2>2, <1>1
      <3>2. CASE j # k
        <4>1. \/ \E o \in Committed : review[o].case = j
              \/ LinesOf(j) # {} /\ LastLine(j) = table[j].verdict
          BY <2>1, <2>4, <1>9 DEF OnTheWay
        <4>2. ASSUME NEW o \in Committed, review[o].case = j PROVE o \in Committed' /\ review'[o].case = j
          BY <4>2, <3>2, <1>0, <1>7, <2>3
        <4> QED BY <4>1, <4>2, <3>2, <1>5, <1>1
      <3> QED BY <3>1, <3>2
    <2>5. \A o \in Committed' : /\ review'[o].case \in DOMAIN table'
                               /\ table'[review'[o].case].verdict = review'[o].verdict
      BY <2>1, <2>3, <1>1 DEF OnTheWay
    <2>6. \A o, p \in Committed' : o # p => review'[o].case # review'[p].case
      BY <2>1, <2>3 DEF OnTheWay
    <2> QED BY <2>4, <2>5, <2>6 DEF OnTheWay
  <1> QED BY <1>8, <1>9, <1>10 DEF GoldInv

\* A known case keeps its verdict; a new one has none.
LEMMA UpsertKeepsVerdicts ==
    ASSUME NEW t, NEW cases,
           \A k \in DOMAIN t : t[k] = [id |-> t[k].id, sat |-> t[k].sat, verdict |-> t[k].verdict]
    PROVE  /\ DOMAIN t \subseteq DOMAIN Upserted(t, cases)
           /\ \A k \in DOMAIN t : Upserted(t, cases)[k].verdict = t[k].verdict
           /\ \A k \in DOMAIN Upserted(t, cases) \ DOMAIN t :
                 Upserted(t, cases)[k].verdict = NoVerdict
           /\ \A k \in DOMAIN Upserted(t, cases) :
                 Upserted(t, cases)[k] = [id |-> Upserted(t, cases)[k].id,
                                          sat |-> Upserted(t, cases)[k].sat,
                                          verdict |-> Upserted(t, cases)[k].verdict]
  <1> DEFINE keys == {<<c.type, c.ref>> : c \in cases}
             new == keys \ DOMAIN t
             old == Cardinality(DOMAIN t)
             number == CHOOSE f \in [new -> (old + 1)..(old + Cardinality(new))] :
                          \A j, k \in new : f[j] = f[k] => j = k
             Sat(k) == (CHOOSE c \in cases : <<c.type, c.ref>> = k).sat
             u == Upserted(t, cases)
  <1>1. u = [k \in DOMAIN t \cup keys |->
              IF k \in new THEN [id |-> number[k], sat |-> Sat(k), verdict |-> NoVerdict]
              ELSE IF k \in keys THEN [t[k] EXCEPT !.sat = Sat(k)]
              ELSE t[k]]
    BY DEF Upserted
  <1> HIDE DEF keys, number, Sat, u
  <1>2. ASSUME NEW k \in new
        PROVE  u[k] = [id |-> number[k], sat |-> Sat(k), verdict |-> NoVerdict]
    BY <1>1
  <1>3. ASSUME NEW k \in DOMAIN t
        PROVE  \/ u[k] = [id |-> t[k].id, sat |-> Sat(k), verdict |-> t[k].verdict]
               \/ u[k] = [id |-> t[k].id, sat |-> t[k].sat, verdict |-> t[k].verdict]
    <2>1. t[k] = [id |-> t[k].id, sat |-> t[k].sat, verdict |-> t[k].verdict]
      OBVIOUS
    <2>2. u[k] = [t[k] EXCEPT !.sat = Sat(k)] \/ u[k] = t[k]
      BY <1>1
    <2> QED BY <2>1, <2>2
  <1>4. DOMAIN u = DOMAIN t \cup new
    BY <1>1
  <1>5. ASSUME NEW k \in DOMAIN u
        PROVE  u[k] = [id |-> u[k].id, sat |-> u[k].sat, verdict |-> u[k].verdict]
    <2>1. CASE k \in new
      <3>1. u[k] = [id |-> number[k], sat |-> Sat(k), verdict |-> NoVerdict]
        BY <2>1, <1>2
      <3> QED BY <3>1
    <2>2. CASE k \in DOMAIN t
      <3>1. \/ u[k] = [id |-> t[k].id, sat |-> Sat(k), verdict |-> t[k].verdict]
            \/ u[k] = [id |-> t[k].id, sat |-> t[k].sat, verdict |-> t[k].verdict]
        BY <2>2, <1>3
      <3> QED BY <3>1
    <2> QED BY <1>4, <2>1, <2>2
  <1>6. ASSUME NEW k \in DOMAIN t PROVE u[k].verdict = t[k].verdict
    <2>1. \/ u[k] = [id |-> t[k].id, sat |-> Sat(k), verdict |-> t[k].verdict]
          \/ u[k] = [id |-> t[k].id, sat |-> t[k].sat, verdict |-> t[k].verdict]
      BY <1>3
    <2> QED BY <2>1
  <1>7. \A k \in DOMAIN u \ DOMAIN t : u[k].verdict = NoVerdict
    <2>1. ASSUME NEW k \in new PROVE u[k].verdict = NoVerdict
      <3>1. u[k] = [id |-> number[k], sat |-> Sat(k), verdict |-> NoVerdict]
        BY <2>1, <1>2
      <3> QED BY <3>1
    <2> QED BY <2>1, <1>4
  <1>8. DOMAIN t \subseteq DOMAIN u
    BY <1>4
  <1> QED BY <1>5, <1>6, <1>7, <1>8 DEF u

\* A rebuild of the queue changes no verdict.
LEMMA BuildQueueKeeps ==
    ASSUME GoldInv, BuildQueue
    PROVE  GoldInv'
  <1>1. /\ table' = Upserted(table, Selected(Head(nights)))
        /\ UNCHANGED <<file, review, writes, raced, lost>>
    BY DEF BuildQueue
  <1>2. /\ DOMAIN table \subseteq DOMAIN table'
        /\ \A k \in DOMAIN table : table'[k].verdict = table[k].verdict
        /\ \A k \in DOMAIN table' \ DOMAIN table : table'[k].verdict = NoVerdict
        /\ \A k \in DOMAIN table' :
             table'[k] = [id |-> table'[k].id, sat |-> table'[k].sat, verdict |-> table'[k].verdict]
    BY <1>1, UpsertKeepsVerdicts DEF GoldInv, GoldTypes
  <1>3. Committed' = Committed
    BY <1>1 DEF Committed
  <1>4. GoldTypes'
    <2>1. \A k \in DOMAIN table' : table'[k].verdict \in {NoVerdict} \cup Given
      BY <1>2 DEF GoldInv, GoldTypes
    <2>2. FileTyped'
      BY <1>1 DEF GoldInv, GoldTypes, FileTyped
    <2> QED BY <1>1, <1>2, <1>3, <2>1, <2>2 DEF GoldInv, GoldTypes
  <1>5. Labeled' = Labeled
    BY <1>2 DEF Labeled
  <1>6. \A k : LinesOf(k)' = LinesOf(k) /\ LastLine(k)' = LastLine(k)
    BY <1>1 DEF LinesOf, LastLine
  <1>7. ASSUME OnTheWay PROVE OnTheWay'
    <2>1. \A k \in Labeled : table'[k].verdict = table[k].verdict
      BY <1>2 DEF Labeled
    <2> QED BY <1>1, <1>2, <1>3, <1>5, <1>6, <1>7, <2>1 DEF OnTheWay
  <1> QED BY <1>1, <1>4, <1>5, <1>7 DEF GoldInv

\* An import that overlaps no verdict under way gives each case its last line; a case without one
\* has no verdict.
LEMMA ImportKeeps ==
    ASSUME GoldInv, ImportVerdicts
    PROVE  GoldInv'
  <1>1. /\ table' = [k \in DOMAIN table |->
                       IF LinesOf(k) = {} THEN table[k]
                       ELSE [table[k] EXCEPT !.verdict = LastLine(k)]]
        /\ raced' = (raced \/ \E r \in Reviewer : review[r].pc = "committed")
        /\ UNCHANGED <<file, review, writes, lost>>
    BY DEF ImportVerdicts
  <1>2. ASSUME NEW k \in DOMAIN table
        PROVE  /\ table'[k] = [id |-> table'[k].id, sat |-> table'[k].sat, verdict |-> table'[k].verdict]
               /\ LinesOf(k) = {} => table'[k].verdict = table[k].verdict
               /\ LinesOf(k) # {} => table'[k].verdict = LastLine(k)
    <2>1. table[k] = [id |-> table[k].id, sat |-> table[k].sat, verdict |-> table[k].verdict]
      BY DEF GoldInv, GoldTypes
    <2>2. CASE LinesOf(k) = {}
      <3>1. table'[k] = table[k]
        BY <1>1, <2>2
      <3> QED BY <2>1, <2>2, <3>1
    <2>3. CASE LinesOf(k) # {}
      <3>1. table'[k] = [table[k] EXCEPT !.verdict = LastLine(k)]
        BY <1>1, <2>3
      <3>2. table'[k] = [id |-> table[k].id, sat |-> table[k].sat, verdict |-> LastLine(k)]
        BY <2>1, <3>1
      <3> QED BY <2>3, <3>2
    <2> QED BY <2>2, <2>3
  <1>3. DOMAIN table' = DOMAIN table
    BY <1>1
  <1>4. FileTyped /\ \A k : LinesOf(k) # {} => LastLine(k) \in Given
    BY LastLineIsOne DEF GoldInv, GoldTypes, FileTyped, LinesOf
  <1>5. Committed' = Committed
    BY <1>1 DEF Committed
  <1>6. GoldTypes'
    <2>1. \A k \in DOMAIN table' : table'[k].verdict \in {NoVerdict} \cup Given
      BY <1>2, <1>3, <1>4 DEF GoldInv, GoldTypes
    <2>2. FileTyped'
      BY <1>1, <1>4 DEF FileTyped
    <2>3. raced' \in BOOLEAN
      BY <1>1 DEF GoldInv, GoldTypes
    <2> QED BY <1>1, <1>2, <1>3, <1>5, <2>1, <2>2, <2>3 DEF GoldInv, GoldTypes
  <1>7. IsFiniteSet(Labeled')
    <2> DEFINE f == [i \in DOMAIN file |-> file[i].case]
               named == {f[i] : i \in DOMAIN file}
    <2>1. IsFiniteSet(DOMAIN file)
      <3>1. Len(file) \in Nat /\ DOMAIN file = 1..Len(file)
        BY <1>4 DEF FileTyped
      <3> QED BY <3>1, FS_Interval
    <2>2. IsFiniteSet(named)
      <3>1. DOMAIN f = DOMAIN file
        OBVIOUS
      <3> HIDE DEF f
      <3> QED BY <2>1, <3>1, FiniteImage
    <2>3. Labeled' \subseteq Labeled \cup named
      BY <1>2, <1>3 DEF Labeled, LinesOf
    <2>4. IsFiniteSet(Labeled \cup named)
      <3> HIDE DEF named
      <3> QED BY <2>2, FS_Union DEF GoldInv
    <2> QED BY <2>3, <2>4, FS_Subset
  <1>8. ASSUME ~lost', ~raced' PROVE OnTheWay'
    <2>1. OnTheWay /\ Committed = {}
      BY <1>8, <1>1 DEF GoldInv, GoldTypes, Committed
    <2>2. \A k : LinesOf(k)' = LinesOf(k) /\ LastLine(k)' = LastLine(k)
      BY <1>1 DEF LinesOf, LastLine
    <2>3. ASSUME NEW k \in Labeled' PROVE LinesOf(k)' # {} /\ LastLine(k)' = table'[k].verdict
      <3>1. k \in DOMAIN table /\ table'[k].verdict # NoVerdict
        BY <1>3 DEF Labeled
      <3>2. LinesOf(k) # {}
        BY <3>1, <1>2, <2>1 DEF OnTheWay, Labeled
      <3> QED BY <3>1, <3>2, <1>2, <2>2
    <2> QED BY <2>1, <2>3, <1>5 DEF OnTheWay
  <1> QED BY <1>6, <1>7, <1>8 DEF GoldInv

\* The table is lost when no session is open.
LEMMA LoseDatabaseKeeps ==
    ASSUME GoldInv, LoseDatabase
    PROVE  GoldInv'
  <1>1. /\ table' = <<>> /\ \A r \in Reviewer : review[r] = Idle
        /\ UNCHANGED <<file, review, writes, raced, lost>>
    BY DEF LoseDatabase
  <1>2. Committed' = {} /\ DOMAIN table' = {}
    BY <1>1 DEF Committed, Idle
  <1>3. Labeled' = {}
    BY <1>2 DEF Labeled
  <1>4. GoldTypes'
    <2>1. FileTyped'
      BY <1>1 DEF GoldInv, GoldTypes, FileTyped
    <2> QED BY <1>1, <1>2, <2>1 DEF GoldInv, GoldTypes
  <1> QED BY <1>2, <1>3, <1>4, FS_EmptySet DEF GoldInv, OnTheWay

\* GoldInv is inductive, whatever rebuilds, sessions, requests, losses and imports interleave.
THEOREM GoldInductive == GoldSpec => []GoldInv
  <1>1. GoldInit => GoldInv
    <2> SUFFICES ASSUME GoldInit PROVE GoldInv
      OBVIOUS
    <2>1. Committed = {} /\ Labeled = {} /\ DOMAIN table = {}
      BY DEF GoldInit, Committed, Labeled, Idle
    <2>2. FileTyped
      BY DEF GoldInit, FileTyped
    <2>3. GoldTypes
      BY <2>1, <2>2 DEF GoldInit, GoldTypes, Idle
    <2> QED BY <2>1, <2>3, FS_EmptySet DEF GoldInv, OnTheWay
  <1>2. GoldInv /\ [GoldNext]_goldVars => GoldInv'
    <2> SUFFICES ASSUME GoldInv, [GoldNext]_goldVars
                 PROVE  GoldInv'
      OBVIOUS
    <2>1. CASE GraphMoves \/ UNCHANGED goldVars
      <3>1. UNCHANGED <<table, file, review, writes, raced, lost>>
        BY <2>1 DEF GraphMoves, goldVars
      <3>2. GoldTypes'
        BY <3>1 DEF GoldInv, GoldTypes, FileTyped, Committed
      <3>3. Labeled' = Labeled /\ Committed' = Committed
        BY <3>1 DEF Labeled, Committed
      <3>4. \A k : LinesOf(k)' = LinesOf(k) /\ LastLine(k)' = LastLine(k)
        BY <3>1 DEF LinesOf, LastLine
      <3> QED BY <3>1, <3>2, <3>3, <3>4 DEF GoldInv, OnTheWay
    <2>2. ASSUME NEW r \in Reviewer, NEW k, NEW overwrite, ApiCheck(r, k, overwrite)
          PROVE  GoldInv'
      <3>1. PICK q : q = [Idle EXCEPT !.pc = "checked", !.case = k]
        OBVIOUS
      <3>2. SessionShape(q) /\ q.pc # "committed"
        BY <3>1 DEF Idle, SessionShape
      <3>3. review' = [review EXCEPT ![r] = q] /\ review[r].pc # "committed"
        BY <2>2, <3>1 DEF ApiCheck, Idle
      <3> QED BY <2>2, <3>2, <3>3, SessionKeeps DEF ApiCheck
    <2>3. ASSUME NEW r \in Reviewer, CliOpen(r) PROVE GoldInv'
      <3>1. PICK q : q = [Idle EXCEPT !.pc = "checked", !.case = First(Unlabeled),
                                      !.todo = FirstN(Unlabeled, Limit) \ {First(Unlabeled)}]
        OBVIOUS
      <3>2. SessionShape(q) /\ q.pc # "committed"
        BY <3>1 DEF Idle, SessionShape
      <3>3. review' = [review EXCEPT ![r] = q] /\ review[r].pc # "committed"
        BY <2>3, <3>1 DEF CliOpen, Idle
      <3> QED BY <2>3, <3>2, <3>3, SessionKeeps DEF CliOpen
    <2>4. ASSUME NEW r \in Reviewer, CliSkip(r) PROVE GoldInv'
      <3>1. review' = [review EXCEPT ![r] = Onward(review[r])] /\ review[r].pc # "committed"
        BY <2>4 DEF CliSkip
      <3> QED BY <2>4, <3>1, OnwardIsUncommitted, SessionKeeps DEF CliSkip
    <2>5. ASSUME NEW r \in Reviewer, Quit(r) PROVE GoldInv'
      <3>1. SessionShape(Idle) /\ Idle.pc # "committed"
        BY DEF Idle, SessionShape
      <3>2. /\ review' = [review EXCEPT ![r] = Idle]
            /\ lost' = (lost \/ review[r].pc = "committed")
            /\ UNCHANGED <<table, file, writes, raced>>
        BY <2>5 DEF Quit
      <3>3. lost \in BOOLEAN
        BY DEF GoldInv, GoldTypes
      <3>4. \/ review[r].pc # "committed" /\ lost' = lost
            \/ review[r].pc = "committed" /\ lost' = TRUE
        BY <3>2, <3>3
      <3> QED BY <3>1, <3>2, <3>4, SessionKeeps
    <2>6. ASSUME NEW r \in Reviewer, NEW v \in Verdicts, RecordVerdict(r, v) PROVE GoldInv'
      BY <2>6, RecordVerdictKeeps
    <2>7. ASSUME NEW r \in Reviewer, AppendLine(r) PROVE GoldInv'
      BY <2>7, AppendLineKeeps
    <2>8. ASSUME BuildQueue \/ LoseDatabase \/ ImportVerdicts PROVE GoldInv'
      BY <2>8, BuildQueueKeeps, LoseDatabaseKeeps, ImportKeeps
    <2> QED BY <2>1, <2>2, <2>3, <2>4, <2>5, <2>6, <2>7, <2>8 DEF GoldNext
  <1> QED BY <1>1, <1>2, PTL DEF GoldSpec

\* The file replays to the table whenever no verdict is on its way to it, unless two overlapped or
\* a process died between its commit and its line.
THEOREM LockstepUnlessRacedHolds == GoldSpec => []LockstepUnlessRaced
  <1>1. GoldInv => LockstepUnlessRaced
    <2> SUFFICES ASSUME GoldInv, Settled, ~lost, ~raced PROVE Lockstep
      BY DEF LockstepUnlessRaced
    <2>1. OnTheWay /\ Committed = {}
      BY DEF GoldInv, Settled, Committed
    <2> QED BY <2>1 DEF OnTheWay, Lockstep, Labeled
  <1> QED BY <1>1, GoldInductive, PTL

\* The chip and the report divide the same half points by the same number of gradable cases: the
\* cases with a verdict are finitely many and each has one of the four.
THEOREM ChipAgreesWithReportHolds == GoldSpec => []ChipAgreesWithReport
  <1>1. GoldInv => ChipAgreesWithReport
    <2> SUFFICES ASSUME GoldInv PROVE ChipAgreesWithReport
      OBVIOUS
    <2> DEFINE Of(v) == {k \in DOMAIN table : table[k].verdict.v = v}
               graded == Of("correct") \cup Of("partial") \cup Of("incorrect")
               all == {k \in DOMAIN table : table[k].verdict.v \in VERDICT_VALUES}
    <2>1. \A k \in DOMAIN table : table[k].verdict \in {NoVerdict} \cup Given
      BY DEF GoldInv, GoldTypes
    <2>2. all = Labeled
      BY <2>1 DEF Labeled, Given, NoVerdict, VERDICT_VALUES
    <2>3. /\ IsFiniteSet(Of("correct")) /\ IsFiniteSet(Of("partial"))
          /\ IsFiniteSet(Of("incorrect")) /\ IsFiniteSet(Of("unresolvable"))
      <3>1. IsFiniteSet(all)
        BY <2>2 DEF GoldInv
      <3>2. \A v \in VERDICT_VALUES : Of(v) \in SUBSET all
        OBVIOUS
      <3> HIDE DEF Of, all
      <3>3. \A v \in VERDICT_VALUES : IsFiniteSet(Of(v))
        BY <3>1, <3>2, FS_Subset
      <3> QED BY <3>3 DEF VERDICT_VALUES
    <2>4. all = graded \cup Of("unresolvable") /\ graded \cap Of("unresolvable") = {}
      BY DEF VERDICT_VALUES
    <2>5. /\ Of("correct") \cap Of("partial") = {}
          /\ (Of("correct") \cup Of("partial")) \cap Of("incorrect") = {}
      OBVIOUS
    <2>6. \A v : Count(v) = Cardinality(Of(v))
      BY DEF Count
    <2> HIDE DEF Of
    <2>7. \A v \in VERDICT_VALUES : Count(v) \in Nat
      BY <2>3, <2>6, FS_CardinalityType DEF VERDICT_VALUES
    <2>8. ASSUME NEW S, NEW T, IsFiniteSet(S), IsFiniteSet(T), S \cap T = {}
          PROVE  /\ IsFiniteSet(S \cup T)
                 /\ Cardinality(S \cup T) = Cardinality(S) + Cardinality(T)
      <3>1. /\ IsFiniteSet(S \cup T)
            /\ Cardinality(S \cup T) = Cardinality(S) + Cardinality(T) - Cardinality(S \cap T)
        BY <2>8, FS_Union
      <3>2. Cardinality(S \cap T) = 0
        BY <2>8, FS_EmptySet
      <3>3. Cardinality(S) \in Nat /\ Cardinality(T) \in Nat
        BY <2>8, FS_CardinalityType
      <3> QED BY <3>1, <3>2, <3>3
    <2>9. /\ IsFiniteSet(graded)
          /\ Cardinality(graded) = Count("correct") + Count("partial") + Count("incorrect")
      <3>1. /\ IsFiniteSet(Of("correct") \cup Of("partial"))
            /\ Cardinality(Of("correct") \cup Of("partial")) = Count("correct") + Count("partial")
        BY <2>3, <2>5, <2>6, <2>8
      <3> QED BY <2>3, <2>5, <2>6, <2>8, <3>1
    <2>10. Cardinality(all) = Cardinality(graded) + Count("unresolvable")
      <3> HIDE DEF graded, all
      <3> QED BY <2>3, <2>4, <2>6, <2>8, <2>9
    <2>11. Cardinality(all) - Count("unresolvable")
             = Count("correct") + Count("partial") + Count("incorrect")
      <3> HIDE DEF all, graded
      <3> QED BY <2>7, <2>9, <2>10 DEF VERDICT_VALUES
    <2> HIDE DEF Count
    <2> QED BY <2>11 DEF ChipAgreesWithReport, ChipAccuracy, ReportAccuracy
  <1> QED BY <1>1, GoldInductive, PTL

-----------------------------------------------------------------------------
(* GoldReview: the order of the screens, and the sample. *)

\* The order of U as met when going up from k and, past the end, again from the start.
Around(U, before, k) ==
    [r \in U |-> IF k \in before[r] THEN {q \in U : k \in before[q] /\ q \in before[r]}
                 ELSE {q \in U : k \in before[q] \/ q \in before[r]}]

\* Going round from any element meets the others in a total order.
LEMMA AroundIsOrder ==
    ASSUME NEW D, NEW before, TotalOrder(D, before), NEW U, U \subseteq D, NEW k \in D
    PROVE  TotalOrder(U, Around(U, before, k))
  <1> DEFINE around == Around(U, before, k)
  <1>1. ASSUME NEW q \in U, NEW r \in U
        PROVE  q \in around[r] <=> IF k \in before[r] THEN k \in before[q] /\ q \in before[r]
                                   ELSE k \in before[q] \/ q \in before[r]
    BY DEF Around
  <1>2. \A r \in U : around[r] \subseteq U
    BY DEF Around
  <1>3. \A r \in D : r \notin before[r]
    BY DEF TotalOrder
  <1>4. \A q, r \in D : q # r => q \in before[r] \/ r \in before[q]
    BY DEF TotalOrder
  <1>5. \A p, q, r \in D : p \in before[q] /\ q \in before[r] => p \in before[r]
    BY DEF TotalOrder
  <1> HIDE DEF around
  <1>6. \A r \in U : r \notin around[r]
    BY <1>1, <1>3
  <1>7. \A q, r \in U : q # r => q \in around[r] \/ r \in around[q]
    BY <1>1, <1>4, <1>5
  <1>8. \A p, q, r \in U : p \in around[q] /\ q \in around[r] => p \in around[r]
    BY <1>1, <1>3, <1>4, <1>5
  <1>9. TotalOrder(U, around)
    BY <1>2, <1>6, <1>7, <1>8 DEF TotalOrder
  <1> QED BY <1>9 DEF around

\* How many of S are in group d.
Share(group, d, S) == Cardinality({r \in S : group[r] = d})

\* Within each group, before is a total order.
OrdersGroups(pool, group, before) ==
    \A d : TotalOrder({r \in pool : group[r] = d},
                      [r \in {x \in pool : group[x] = d} |-> {q \in before[r] : group[q] = d}])

\* A total order is one within each group.
LEMMA OrderedInGroups ==
    ASSUME NEW pool, NEW group, NEW before, TotalOrder(pool, before)
    PROVE  OrdersGroups(pool, group, before)
  BY DEF TotalOrder, OrdersGroups

\* A round-robin takes as many of the pool as it may, and gives no group two more than a group that
\* has some left.
LEMMA RoundRobinIsEven ==
    ASSUME NEW pool, IsFiniteSet(pool), NEW group \in [pool -> Int], NEW before,
           OrdersGroups(pool, group, before), NEW n \in Nat,
           NEW picked, picked = RoundRobin(pool, group, before, n)
    PROVE  /\ picked \subseteq pool
           /\ Cardinality(picked) = IF Cardinality(pool) < n THEN Cardinality(pool) ELSE n
           /\ \A d, e : Share(group, d, picked) > Share(group, e, picked) + 1 =>
                           Share(group, e, picked) = Share(group, e, pool)
  <1> DEFINE round == [r \in pool |-> Cardinality({q \in before[r] : group[q] = group[r]})]
             turns == [r \in pool |-> {q \in pool : \/ round[q] < round[r]
                                                    \/ round[q] = round[r] /\ group[q] < group[r]}]
             M(d) == {r \in pool : group[r] = d}
             P(d) == {r \in picked : group[r] = d}
             inner(d) == [r \in M(d) |-> {q \in before[r] : group[q] = d}]
  <1>1. picked = {r \in pool : Rank(turns, r) < n}
    BY DEF RoundRobin, TopN, Rank
  <1>2. \A d : IsFiniteSet(M(d)) /\ IsFiniteSet(P(d)) /\ P(d) \subseteq M(d)
    <2>1. \A d : M(d) \in SUBSET pool /\ P(d) \in SUBSET pool /\ P(d) \subseteq M(d)
      BY <1>1
    <2> HIDE DEF M, P
    <2> QED BY <2>1, FS_Subset
  <1>3. \A d : TotalOrder(M(d), inner(d))
    BY DEF OrdersGroups
  <1>4. \A d : \A r \in M(d) : Rank(inner(d), r) = round[r]
    <2> SUFFICES ASSUME NEW d, NEW r \in M(d)
                 PROVE  Rank(inner(d), r) = round[r]
      OBVIOUS
    <2>1. r \in pool /\ group[r] = d
      OBVIOUS
    <2>2. inner(d)[r] = {q \in before[r] : group[q] = group[r]}
      BY <2>1
    <2> QED BY <2>1, <2>2 DEF Rank
  <1>5. \A r \in pool : r \in M(group[r]) /\ group[r] \in Int
    OBVIOUS
  <1> HIDE DEF inner, round
  <1>6. \A r \in pool : round[r] \in Nat
    <2> SUFFICES ASSUME NEW r \in pool PROVE round[r] \in Nat
      OBVIOUS
    <2>1. PICK d : d = group[r]
      OBVIOUS
    <2>2. r \in M(d)
      BY <2>1
    <2>3. /\ Rank(inner(d), r) \in 0 .. Cardinality(M(d)) - 1
          /\ Cardinality(M(d)) \in Nat
      <3> HIDE DEF M
      <3> QED BY <1>2, <1>3, <2>2, Ranked
    <2>4. Rank(inner(d), r) \in Nat
      <3> HIDE DEF M
      <3> QED BY <2>3
    <2> QED BY <1>4, <2>2, <2>4
  <1>7. \A q, r \in pool : round[q] = round[r] /\ group[q] = group[r] => q = r
    <2> SUFFICES ASSUME NEW q \in pool, NEW r \in pool, round[q] = round[r], group[q] = group[r]
                 PROVE  q = r
      OBVIOUS
    <2>1. PICK d : d = group[r]
      OBVIOUS
    <2>2. q \in M(d) /\ r \in M(d)
      BY <2>1
    <2>3. Rank(inner(d), q) = Rank(inner(d), r)
      BY <1>4, <2>2
    <2>4. PICK S, b : S = M(d) /\ b = inner(d)
      OBVIOUS
    <2> HIDE DEF M
    <2>5. IsFiniteSet(S) /\ TotalOrder(S, b)
      BY <1>2, <1>3, <2>4
    <2>6. \A x, y \in S : Rank(b, x) = Rank(b, y) => x = y
      BY <2>5, Ranked
    <2> QED BY <2>2, <2>3, <2>4, <2>6
  <1>8. TotalOrder(pool, turns)
    <2>1. \A q, r \in pool : q \in turns[r] <=> \/ round[q] < round[r]
                                                \/ round[q] = round[r] /\ group[q] < group[r]
      OBVIOUS
    <2>2. \A r \in pool : turns[r] \subseteq pool
      OBVIOUS
    <2> HIDE DEF turns, M
    <2>3. \A r \in pool : r \notin turns[r]
      BY <1>5, <1>6, <2>1
    <2>4. \A q, r \in pool : q # r => q \in turns[r] \/ r \in turns[q]
      BY <1>5, <1>6, <1>7, <2>1
    <2>5. \A p, q, r \in pool : p \in turns[q] /\ q \in turns[r] => p \in turns[r]
      BY <1>5, <1>6, <2>1
    <2> QED BY <2>2, <2>3, <2>4, <2>5 DEF TotalOrder
  <1>9. Cardinality(picked) = IF Cardinality(pool) < n THEN Cardinality(pool) ELSE n
    <2> HIDE DEF turns
    <2> QED BY <1>1, <1>8, FirstRanks
  <1>10. ASSUME NEW q \in pool, NEW r \in picked, round[q] < round[r]
         PROVE  q \in picked
    <2>1. q \in turns[r] /\ r \in pool /\ Rank(turns, r) < n
      BY <1>1, <1>10
    <2> HIDE DEF turns
    <2>2. Rank(turns, q) < Rank(turns, r)
      BY <1>8, <2>1, Ranked
    <2>3. /\ Rank(turns, q) \in 0 .. Cardinality(pool) - 1
          /\ Rank(turns, r) \in 0 .. Cardinality(pool) - 1 /\ Cardinality(pool) \in Nat
      BY <1>8, <2>1, Ranked
    <2> QED BY <1>1, <2>1, <2>2, <2>3
  <1>11. \A d : Cardinality(M(d)) \in Nat /\ Cardinality(P(d)) \in Nat
    <2> HIDE DEF M, P
    <2> QED BY <1>2, FS_CardinalityType
  <1>12. ASSUME NEW d, NEW m \in Nat
         PROVE  /\ IsFiniteSet({r \in M(d) : round[r] < m})
                /\ Cardinality({r \in M(d) : round[r] < m})
                     = IF Cardinality(M(d)) < m THEN Cardinality(M(d)) ELSE m
    <2>1. {r \in M(d) : round[r] < m} = {r \in M(d) : Rank(inner(d), r) < m}
      BY <1>4
    <2>2. {r \in M(d) : round[r] < m} \in SUBSET M(d)
      OBVIOUS
    <2> HIDE DEF M
    <2>3. Cardinality({r \in M(d) : Rank(inner(d), r) < m})
            = IF Cardinality(M(d)) < m THEN Cardinality(M(d)) ELSE m
      <3>1. PICK S, b : S = M(d) /\ b = inner(d)
        OBVIOUS
      <3>2. IsFiniteSet(S) /\ TotalOrder(S, b)
        BY <1>2, <1>3, <3>1
      <3>3. Cardinality({r \in S : Rank(b, r) < m})
              = IF Cardinality(S) < m THEN Cardinality(S) ELSE m
        BY <3>2, FirstRanks
      <3> QED BY <3>1, <3>3
    <2> QED BY <1>2, <2>1, <2>2, <2>3, FS_Subset
  <1>13. ASSUME NEW d, NEW e, Cardinality(P(d)) > Cardinality(P(e)) + 1
         PROVE  P(e) = M(e)
    <2> DEFINE a == Cardinality(P(e))
    <2> SUFFICES ASSUME P(e) # M(e) PROVE FALSE
      OBVIOUS
    <2>1. a \in Nat /\ Cardinality(P(d)) \in Nat
      BY <1>11
    <2>2. a < Cardinality(M(e))
      <3>1. P(e) \in SUBSET M(e)
        BY <1>2
      <3> HIDE DEF P, M
      <3> QED BY <1>2, <1>11, <3>1, FS_Subset
    <2>3. PICK u \in M(e) : round[u] = a
      <3> HIDE DEF P, M
      <3>1. a \in 0 .. Cardinality(M(e)) - 1
        BY <1>11, <2>1, <2>2
      <3> HIDE DEF a
      <3>2. PICK u \in M(e) : Rank(inner(e), u) = a
        BY <1>2, <1>3, <3>1, Ranked
      <3> QED BY <1>4, <3>2
    <2>4. u \notin P(e)
      <3> SUFFICES ASSUME u \in P(e) PROVE FALSE
        OBVIOUS
      <3> DEFINE early == {r \in M(e) : round[r] < a + 1}
      <3>1. ASSUME NEW r \in early PROVE r \in P(e)
        <4>1. r \in pool /\ u \in picked /\ round[r] \in Nat /\ group[r] = e /\ group[u] = e
              /\ u \in pool /\ round[r] < a + 1
          BY <1>6
        <4> HIDE DEF a, early
        <4>2. CASE round[r] < a
          <5>1. r \in picked
            BY <1>10, <2>3, <4>1, <4>2
          <5> QED BY <4>1, <5>1
        <4>3. CASE round[r] = a
          <5>1. r = u
            BY <1>7, <2>3, <4>1, <4>3
          <5> QED BY <5>1
        <4> QED BY <2>1, <4>1, <4>2, <4>3
      <3>2. a + 1 \in Nat /\ early \in SUBSET P(e)
        <4> HIDE DEF early, P
        <4> QED BY <2>1, <3>1
      <3>3. IsFiniteSet(early) /\ Cardinality(early) = a + 1
        <4> HIDE DEF M, P
        <4>1. Cardinality(early) = IF Cardinality(M(e)) < a + 1 THEN Cardinality(M(e)) ELSE a + 1
          BY <1>12, <3>2
        <4>2. IsFiniteSet(early)
          BY <1>12, <3>2
        <4> HIDE DEF early, a
        <4> QED BY <1>11, <2>1, <2>2, <4>1, <4>2
      <3>4. Cardinality(early) <= a
        <4> HIDE DEF early, P
        <4> QED BY <1>2, <3>2, FS_Subset
      <3> HIDE DEF a, early
      <3> QED BY <2>1, <3>3, <3>4
    <2>5. \E v \in P(d) : ~(round[v] < a + 1)
      <3> SUFFICES ASSUME \A v \in P(d) : round[v] < a + 1 PROVE FALSE
        OBVIOUS
      <3> DEFINE early == {r \in M(d) : round[r] < a + 1}
      <3>1. a + 1 \in Nat /\ P(d) \in SUBSET early
        <4>1. P(d) \subseteq M(d)
          BY <1>2
        <4> HIDE DEF P, M
        <4> QED BY <2>1, <4>1
      <3>2. IsFiniteSet(early) /\ Cardinality(early) <= a + 1
        <4> HIDE DEF M, P
        <4>1. Cardinality(early) = IF Cardinality(M(d)) < a + 1 THEN Cardinality(M(d)) ELSE a + 1
          BY <1>12, <3>1
        <4>2. IsFiniteSet(early)
          BY <1>12, <3>1
        <4> HIDE DEF early, a
        <4> QED BY <1>11, <2>1, <4>1, <4>2
      <3>3. Cardinality(P(d)) <= Cardinality(early) /\ Cardinality(early) \in Nat
        <4> HIDE DEF early, P
        <4> QED BY <3>1, <3>2, FS_Subset, FS_CardinalityType
      <3>4. Cardinality(P(d)) > a + 1
        BY <1>13
      <3> HIDE DEF early, a, P
      <3> QED BY <2>1, <3>2, <3>3, <3>4
    <2>6. PICK v \in P(d) : ~(round[v] < a + 1)
      BY <2>5
    <2>7. v \in picked /\ v \in pool /\ round[v] \in Nat /\ u \in pool
      BY <1>1, <1>6
    <2>8. round[u] < round[v]
      <3> HIDE DEF a
      <3> QED BY <2>1, <2>3, <2>6, <2>7
    <2>9. u \in picked
      BY <1>10, <2>7, <2>8
    <2> QED BY <2>4, <2>9
  <1>14. \A d, e : Cardinality(P(d)) > Cardinality(P(e)) + 1 => Cardinality(P(e)) = Cardinality(M(e))
    <2> HIDE DEF P, M
    <2> QED BY <1>13
  <1> QED BY <1>1, <1>9, <1>14 DEF Share

\* The deals are in order of child and parent, so each has a number of its own.
LEMMA DealsAreNumbered ==
    /\ \A d \in Acquisitions : Cardinality(DealsBefore(d)) \in Nat
    /\ \A d, e \in Acquisitions : Cardinality(DealsBefore(d)) = Cardinality(DealsBefore(e)) => d = e
  <1> DEFINE before == [d \in Acquisitions |-> DealsBefore(d)]
  <1>1. /\ IsFiniteSet(Acquisitions)
        /\ \A d \in Acquisitions : d[1] \in Nat /\ d[2] \in Nat /\ d = <<d[1], d[2]>>
    BY SelectionAssumption
  <1>2. \A d, e \in Acquisitions :
           e \in before[d] <=> e[1] < d[1] \/ (e[1] = d[1] /\ e[2] < d[2])
    BY DEF DealsBefore
  <1>3. \A d \in Acquisitions :
           before[d] \subseteq Acquisitions /\ Rank(before, d) = Cardinality(DealsBefore(d))
    BY DEF DealsBefore, Rank
  <1> HIDE DEF before
  <1>4. TotalOrder(Acquisitions, before)
    <2>1. \A d \in Acquisitions : d \notin before[d]
      BY <1>1, <1>2
    <2>2. \A d, e \in Acquisitions : d # e => d \in before[e] \/ e \in before[d]
      BY <1>1, <1>2
    <2>3. \A c, d, e \in Acquisitions : c \in before[d] /\ d \in before[e] => c \in before[e]
      BY <1>1, <1>2
    <2> QED BY <1>3, <2>1, <2>2, <2>3 DEF TotalOrder
  <1>5. /\ Cardinality(Acquisitions) \in Nat
        /\ \A d \in Acquisitions : Rank(before, d) \in 0 .. Cardinality(Acquisitions) - 1
        /\ \A d, e \in Acquisitions : Rank(before, d) = Rank(before, e) => d = e
    BY <1>1, <1>4, Ranked
  <1> QED BY <1>3, <1>5

\* With room for every deal, the round-robin over the deals takes a satellite of each.
LEMMA DealsAreShown ==
    ASSUME NEW g, GraphRows(g)
    PROVE  EveryDealShown(g)
  <1> DEFINE rows == Split(g)
             No(d) == Cardinality(DealsBefore(d))
             group == [r \in rows |-> No(r[1])]
             before == [r \in rows |-> {q \in rows : ByNorad(g, q[2], r[2])}]
             n == Target["stale_owner"]
             picked == RoundRobin(rows, group, before, n)
             deals == {r[1] : r \in rows}
  <1>1. /\ \A r \in rows : /\ r[1] \in Acquisitions /\ r[2] \in DOMAIN g /\ r = <<r[1], r[2]>>
                           /\ r[2] \in Nat /\ g[r[2]].norad \in Nat
        /\ IsFiniteSet(rows)
    <2>1. rows \in SUBSET (Acquisitions \X DOMAIN g)
      BY DEF Split
    <2>2. IsFiniteSet(Acquisitions \X DOMAIN g)
      BY SelectionAssumption, FS_Product DEF GraphRows
    <2> HIDE DEF rows
    <2>3. IsFiniteSet(rows)
      BY <2>1, <2>2, FS_Subset
    <2> QED BY <2>1, <2>3 DEF GraphRows
  <1>2. n \in Nat
    BY SelectionAssumption DEF Strata
  <1> HIDE DEF rows, n
  <1>3. group \in [rows -> Int] /\ \A q, r \in rows : group[q] = group[r] => q[1] = r[1]
    BY <1>1, DealsAreNumbered
  <1>4. OrdersGroups(rows, group, before)
    <2> SUFFICES ASSUME NEW d
                 PROVE  TotalOrder({r \in rows : group[r] = d},
                            [r \in {x \in rows : group[x] = d} |-> {q \in before[r] : group[q] = d}])
      BY DEF OrdersGroups
    <2> DEFINE M == {r \in rows : group[r] = d}
               inner == [r \in M |-> {q \in before[r] : group[q] = d}]
    <2>1. \A q, r \in M : q[2] = r[2] => q = r
      BY <1>1, <1>3
    <2>2. \A q, r \in M : q \in inner[r] <=> ByNorad(g, q[2], r[2])
      BY DEF ByNorad
    <2>3. \A r \in M : inner[r] \subseteq M
      OBVIOUS
    <2>4. \A r \in M : r[2] \in Nat /\ g[r[2]].norad \in Nat
      BY <1>1
    <2> HIDE DEF M, inner
    <2>5. \A r \in M : r \notin inner[r]
      BY <2>2, <2>4 DEF ByNorad
    <2>6. \A q, r \in M : q # r => q \in inner[r] \/ r \in inner[q]
      BY <2>1, <2>2, <2>4 DEF ByNorad
    <2>7. \A p, q, r \in M : p \in inner[q] /\ q \in inner[r] => p \in inner[r]
      BY <2>2, <2>4 DEF ByNorad
    <2>8. TotalOrder(M, inner)
      BY <2>3, <2>5, <2>6, <2>7 DEF TotalOrder
    <2> QED BY <2>8 DEF M, inner
  <1>5. /\ picked \subseteq rows
        /\ Cardinality(picked) = IF Cardinality(rows) < n THEN Cardinality(rows) ELSE n
        /\ \A d, e : Share(group, d, picked) > Share(group, e, picked) + 1 =>
                        Share(group, e, picked) = Share(group, e, rows)
    <2>1. IsFiniteSet(rows) /\ group \in [rows -> Int]
      BY <1>1, <1>3
    <2>2. PICK taken : taken = picked
      OBVIOUS
    <2> HIDE DEF group, before
    <2>3. taken = RoundRobin(rows, group, before, n)
      BY <2>2
    <2> HIDE DEF picked
    <2> QED BY ONLY <1>2, <1>4, <2>1, <2>2, <2>3, RoundRobinIsEven
  <1>6. StaleOwner(g) = About("stale_owner", g, {r[2] : r \in picked})
    BY DEF StaleOwner, rows, n
  <1>7. /\ IsFiniteSet(deals) /\ Cardinality(deals) \in Nat
        /\ \A r \in rows : r[1] \in deals
        /\ \A d \in deals : d \in Acquisitions /\ \E r \in rows : r[1] = d
    <2>1. deals \in SUBSET Acquisitions
      BY <1>1
    <2>2. IsFiniteSet(deals)
      BY <2>1, SelectionAssumption, FS_Subset
    <2> QED BY <2>1, <2>2, FS_CardinalityType
  <1>8. IsFiniteSet(picked) /\ Cardinality(picked) \in Nat /\ Cardinality(rows) \in Nat
    <2>1. picked \in SUBSET rows
      BY <1>5
    <2> HIDE DEF picked
    <2> QED BY <1>1, <2>1, FS_Subset, FS_CardinalityType
  <1> HIDE DEF group, picked, deals
  <1>9. ASSUME NEW S, S \subseteq rows, NEW d
        PROVE  /\ Share(group, d, S) \in Nat /\ IsFiniteSet({r \in S : group[r] = d})
               /\ Share(group, d, S) = 0 <=> \A r \in S : group[r] # d
    <2> DEFINE T == {r \in S : group[r] = d}
    <2>1. T \in SUBSET rows
      BY <1>9
    <2>2. T = {} <=> \A r \in S : group[r] # d
      OBVIOUS
    <2> HIDE DEF T
    <2>3. IsFiniteSet(T)
      BY <1>1, <2>1, FS_Subset
    <2>4. Cardinality(T) \in Nat /\ (Cardinality(T) = 0 <=> T = {})
      BY <2>3, FS_CardinalityType, FS_EmptySet
    <2> QED BY <2>2, <2>3, <2>4 DEF T, Share
  <1>10. ASSUME Cardinality(deals) <= n, NEW d \in deals
         PROVE  \E r \in picked : r[1] = d
    <2> SUFFICES ASSUME \A r \in picked : r[1] # d PROVE FALSE
      OBVIOUS
    <2>1. PICK row \in rows : row[1] = d
      BY <1>7
    <2>2. PICK k : k = group[row]
      OBVIOUS
    <2>3. \A r \in picked : group[r] # k
      BY <1>3, <1>5, <2>1, <2>2
    <2>4. Share(group, k, picked) = 0 /\ Share(group, k, rows) # 0
      BY <1>5, <1>9, <2>2, <2>3
    <2>5. \A e : Share(group, e, picked) \in Nat /\ Share(group, e, picked) <= 1
      <3> SUFFICES ASSUME NEW e
                   PROVE  Share(group, e, picked) \in Nat /\ Share(group, e, picked) <= 1
        OBVIOUS
      <3>1. Share(group, e, picked) \in Nat
        BY <1>5, <1>9
      <3>2. ~(Share(group, e, picked) > Share(group, k, picked) + 1)
        BY <1>5, <2>4
      <3> QED BY <2>4, <3>1, <3>2
    <2>6. CASE Cardinality(rows) < n
      <3>1. picked \in SUBSET rows /\ Cardinality(picked) = Cardinality(rows)
        BY <1>5, <2>6
      <3>2. picked = rows
        BY <1>1, <3>1, FS_Subset
      <3> QED BY <2>1, <3>2
    <2>7. CASE ~(Cardinality(rows) < n)
      <3> DEFINE others == deals \ {d}
                 f == [r \in picked |-> r[1]]
      <3>1. /\ IsFiniteSet(others) /\ Cardinality(others) = Cardinality(deals) - 1
        BY <1>7, <1>10, FS_RemoveElement
      <3>2. Cardinality(others) < Cardinality(picked)
        BY <1>2, <1>5, <1>7, <1>8, <1>10, <2>7, <3>1
      <3>3. f \in [picked -> others]
        BY <1>5, <1>7
      <3>4. \A r \in picked : f[r] = r[1]
        OBVIOUS
      <3> HIDE DEF f, others
      <3>5. PICK q \in picked, r \in picked : q # r /\ f[q] = f[r]
        BY <1>8, <3>1, <3>2, <3>3, FS_PigeonHole
      <3>6. q \in rows /\ r \in rows /\ q[1] = r[1]
        BY <1>5, <3>4, <3>5
      <3>7. group[q] = group[r]
        BY <3>6 DEF group
      <3>8. PICK e : e = group[r]
        OBVIOUS
      <3> DEFINE two == {x \in picked : group[x] = e}
      <3>9. /\ q \in two /\ r \in two /\ IsFiniteSet(two)
            /\ Cardinality(two) \in Nat /\ Cardinality(two) <= 1
        <4>1. q \in two /\ r \in two
          BY <3>5, <3>7, <3>8
        <4>2. IsFiniteSet(two)
          BY <1>5, <1>9
        <4>3. Cardinality(two) = Share(group, e, picked)
          BY DEF Share
        <4> QED BY <2>5, <4>1, <4>2, <4>3
      <3> HIDE DEF two
      <3>10. Cardinality(two) # 0 /\ Cardinality(two) # 1
        <4>1. Cardinality(two) # 0
          BY <3>9, FS_EmptySet
        <4>2. Cardinality(two) # 1
          BY <3>5, <3>9, FS_Singleton
        <4> QED BY <4>1, <4>2
      <3> QED BY <3>9, <3>10
    <2> QED BY <2>6, <2>7
  <1>11. ASSUME Cardinality(deals) <= n, NEW d \in deals
         PROVE  \E c \in StaleOwner(g) : <<d, c.sat>> \in rows
    <2>1. PICK r \in picked : r[1] = d
      BY <1>10, <1>11
    <2>2. PICK c : c = Case("stale_owner", SubjectRef(g[r[2]].norad, g[r[2]].jcat, r[2]), r[2])
      OBVIOUS
    <2>3. c \in StaleOwner(g) /\ c.sat = r[2]
      BY <1>6, <2>2 DEF About, Case
    <2>4. <<d, c.sat>> = r /\ r \in rows
      BY <1>1, <1>5, <2>1, <2>3
    <2> QED BY <2>3, <2>4
  <1>12. EveryDealShown(g) <=>
            (Cardinality(deals) <= n =>
                \A d \in deals : \E s \in {c.sat : c \in StaleOwner(g)} : <<d, s>> \in rows)
    BY DEF EveryDealShown, deals, rows, n
  <1> QED BY <1>11, <1>12

\* Each stratum selects finitely many cases, all of that stratum.
LEMMA SelectedIsFinite ==
    ASSUME NEW g, GraphRows(g)
    PROVE  IsFiniteSet(Selected(g)) /\ \A c \in Selected(g) : c.type \in Strata
  <1>1. ASSUME NEW type, NEW S, S \subseteq DOMAIN g
        PROVE  /\ IsFiniteSet(About(type, g, S)) /\ \A c \in About(type, g, S) : c.type = type
               /\ IsFiniteSet(AboutOrphans(type, g, S))
               /\ \A c \in AboutOrphans(type, g, S) : c.type = type
    <2> DEFINE f == [s \in S |-> Case(type, SubjectRef(g[s].norad, g[s].jcat, s), s)]
               h == [s \in S |-> Case(type, SubjectRef(0, g[s].jcat, s), s)]
    <2>1. IsFiniteSet(S)
      BY <1>1, FS_Subset DEF GraphRows
    <2>2. About(type, g, S) = {f[s] : s \in S} /\ AboutOrphans(type, g, S) = {h[s] : s \in S}
      BY DEF About, AboutOrphans
    <2>3. /\ \A c \in About(type, g, S) : c.type = type
          /\ \A c \in AboutOrphans(type, g, S) : c.type = type
      BY DEF About, AboutOrphans, Case
    <2>4. DOMAIN f = S /\ DOMAIN h = S
      OBVIOUS
    <2> HIDE DEF f, h
    <2>5. IsFiniteSet({f[s] : s \in S}) /\ IsFiniteSet({h[s] : s \in S})
      BY <2>1, <2>4, FiniteImage
    <2> QED BY <2>2, <2>3, <2>5
  <1>2. \A all, before, n : TopN(all, before, n) \subseteq all
    BY DEF TopN
  <1>3. IsFiniteSet(AmbiguousCospar(g)) /\ \A c \in AmbiguousCospar(g) : c.type \in Strata
    <2> DEFINE sets == {g[s].cospars : s \in DOMAIN g}
               shared == {c \in UNION sets : Cardinality({s \in DOMAIN g : c \in g[s].cospars}) > 1}
               f == [c \in shared |-> Case("ambiguous_cospar", <<"cospar", c>>, NoSat)]
    <2>1. IsFiniteSet(UNION sets)
      <3> DEFINE links == [s \in DOMAIN g |-> g[s].cospars]
      <3>1. sets = {links[s] : s \in DOMAIN g} /\ DOMAIN links = DOMAIN g
        OBVIOUS
      <3>2. \A S \in sets : IsFiniteSet(S)
        BY DEF GraphRows
      <3> HIDE DEF links
      <3>3. IsFiniteSet({links[s] : s \in DOMAIN g})
        BY <3>1, FiniteImage DEF GraphRows
      <3> HIDE DEF sets
      <3> QED BY <3>1, <3>2, <3>3, FS_UNION
    <2>2. shared \in SUBSET (UNION sets)
      OBVIOUS
    <2>3. AmbiguousCospar(g) = {f[c] : c \in shared} /\ DOMAIN f = shared
      BY DEF AmbiguousCospar
    <2>4. \A c \in shared : f[c].type = "ambiguous_cospar"
      BY DEF Case
    <2> HIDE DEF f, shared, sets
    <2>5. IsFiniteSet(shared)
      BY <2>1, <2>2, FS_Subset
    <2>6. IsFiniteSet({f[c] : c \in shared})
      BY <2>3, <2>5, FiniteImage
    <2> QED BY <2>3, <2>4, <2>6 DEF Strata
  <1>4. IsFiniteSet(RideshareOrphan(g)) /\ \A c \in RideshareOrphan(g) : c.type \in Strata
    BY <1>1 DEF RideshareOrphan, Strata
  <1>5. IsFiniteSet(MissedJoinCandidate(g)) /\ \A c \in MissedJoinCandidate(g) : c.type \in Strata
    <2>1. PICK S : /\ S \subseteq DOMAIN g
                   /\ MissedJoinCandidate(g) = AboutOrphans("missed_join_candidate", g, S)
      BY <1>2 DEF MissedJoinCandidate
    <2> QED BY <1>1, <2>1 DEF Strata
  <1>6. IsFiniteSet(OwnerDispute(g)) /\ \A c \in OwnerDispute(g) : c.type \in Strata
    <2>1. PICK S : S \subseteq DOMAIN g /\ OwnerDispute(g) = About("owner_dispute", g, S)
      BY <1>2 DEF OwnerDispute
    <2> QED BY <1>1, <2>1 DEF Strata
  <1>7. IsFiniteSet(StatusConflict(g)) /\ \A c \in StatusConflict(g) : c.type \in Strata
    BY <1>1 DEF StatusConflict, Strata
  <1>8. IsFiniteSet(DecayConflict(g)) /\ \A c \in DecayConflict(g) : c.type \in Strata
    <2>1. PICK S : S \subseteq DOMAIN g /\ DecayConflict(g) = About("decay_conflict", g, S)
      BY <1>2 DEF DecayConflict
    <2> QED BY <1>1, <2>1 DEF Strata
  <1>9. IsFiniteSet(TypeConflict(g)) /\ \A c \in TypeConflict(g) : c.type \in Strata
    <2>1. PICK S : S \subseteq DOMAIN g /\ TypeConflict(g) = About("type_conflict", g, S)
      BY <1>2 DEF TypeConflict, RoundRobin, Mistyped
    <2> QED BY <1>1, <2>1 DEF Strata
  <1>10. IsFiniteSet(StaleOwner(g)) /\ \A c \in StaleOwner(g) : c.type \in Strata
    <2>1. \A r \in Split(g) : r[2] \in DOMAIN g
      BY DEF Split
    <2>2. PICK R : R \subseteq Split(g) /\ StaleOwner(g) = About("stale_owner", g, {r[2] : r \in R})
      BY <1>2 DEF StaleOwner, RoundRobin
    <2>3. {r[2] : r \in R} \subseteq DOMAIN g
      BY <2>1, <2>2
    <2> QED BY <1>1, <2>2, <2>3 DEF Strata
  <1>11. Selected(g) = (AmbiguousCospar(g) \cup RideshareOrphan(g) \cup MissedJoinCandidate(g)
             \cup OwnerDispute(g)) \cup (StatusConflict(g) \cup DecayConflict(g)
             \cup TypeConflict(g) \cup StaleOwner(g))
    BY DEF Selected
  <1>12. \A S, T : IsFiniteSet(S) /\ IsFiniteSet(T) => IsFiniteSet(S \cup T)
    BY FS_Union
  <1>13. IsFiniteSet(Selected(g))
    <2>1. IsFiniteSet(AmbiguousCospar(g) \cup RideshareOrphan(g) \cup MissedJoinCandidate(g)
                      \cup OwnerDispute(g))
      BY <1>3, <1>4, <1>5, <1>6, <1>12
    <2>2. IsFiniteSet(StatusConflict(g) \cup DecayConflict(g) \cup TypeConflict(g)
                      \cup StaleOwner(g))
      BY <1>7, <1>8, <1>9, <1>10, <1>12
    <2> QED BY <2>1, <2>2, <1>11, <1>12
  <1>14. \A c \in Selected(g) : c.type \in Strata
    BY <1>3, <1>4, <1>5, <1>6, <1>7, <1>8, <1>9, <1>10, <1>11
  <1> QED BY <1>13, <1>14

\* The cases of the table: finitely many, each of a stratum, with an id of its own.
TableShape(t) ==
    /\ IsFiniteSet(DOMAIN t)
    /\ \A k \in DOMAIN t : k[1] \in Strata /\ t[k].id \in 1..Cardinality(DOMAIN t)
    /\ \A j, k \in DOMAIN t : t[j].id = t[k].id => j = k

\* The table stays so, and there is always a graph to select from.
QueueInv == IsHistory(nights) /\ TableShape(table)

\* A rebuild numbers the new cases past the old ones.
LEMMA UpsertNumbers ==
    ASSUME NEW t, NEW cases, TableShape(t), IsFiniteSet(cases), \A c \in cases : c.type \in Strata,
           \A k \in DOMAIN t : t[k] = [id |-> t[k].id, sat |-> t[k].sat, verdict |-> t[k].verdict]
    PROVE  TableShape(Upserted(t, cases))
  <1> DEFINE keys == {<<c.type, c.ref>> : c \in cases}
             new == keys \ DOMAIN t
             old == Cardinality(DOMAIN t)
             m == Cardinality(new)
             number == CHOOSE f \in [new -> (old + 1)..(old + m)] :
                          \A j, k \in new : f[j] = f[k] => j = k
             Sat(k) == (CHOOSE c \in cases : <<c.type, c.ref>> = k).sat
             u == Upserted(t, cases)
  <1>1. u = [k \in DOMAIN t \cup keys |->
              IF k \in new THEN [id |-> number[k], sat |-> Sat(k), verdict |-> NoVerdict]
              ELSE IF k \in keys THEN [t[k] EXCEPT !.sat = Sat(k)]
              ELSE t[k]]
    BY DEF Upserted
  <1>2. DOMAIN u = DOMAIN t \cup new /\ DOMAIN t \cap new = {}
    BY <1>1
  <1>3. IsFiniteSet(new) /\ m \in Nat /\ old \in Nat
    <2> DEFINE f == [c \in cases |-> <<c.type, c.ref>>]
    <2>1. keys = {f[c] : c \in cases} /\ DOMAIN f = cases /\ new \in SUBSET keys
      OBVIOUS
    <2> HIDE DEF f, keys, new
    <2>2. IsFiniteSet({f[c] : c \in cases})
      BY <2>1, FiniteImage
    <2>3. IsFiniteSet(new)
      BY <2>1, <2>2, FS_Subset
    <2> QED BY <2>3, FS_CardinalityType DEF TableShape
  <1>4. \A k \in new : k[1] \in Strata
    OBVIOUS
  <1> HIDE DEF keys, new, Sat, u
  <1>5. IsFiniteSet(DOMAIN u) /\ Cardinality(DOMAIN u) = old + m
    <2>1. /\ IsFiniteSet(DOMAIN t \cup new)
          /\ Cardinality(DOMAIN t \cup new) = old + m - Cardinality(DOMAIN t \cap new)
      BY <1>3, FS_Union DEF TableShape
    <2>2. Cardinality(DOMAIN t \cap new) = 0
      BY <1>2, FS_EmptySet
    <2> HIDE DEF old, m
    <2> QED BY <1>2, <1>3, <2>1, <2>2
  <1>6. /\ number \in [new -> (old + 1)..(old + m)]
        /\ \A j, k \in new : number[j] = number[k] => j = k
    <2>1. \E f \in [new -> (old + 1)..(old + m)] : \A j, k \in new : f[j] = f[k] => j = k
      <3> HIDE DEF old
      <3> QED BY <1>3, Numberable
    <2> HIDE DEF old, m
    <2> QED BY <2>1
  <1> HIDE DEF number
  <1>7. ASSUME NEW k \in new
        PROVE  u[k].id = number[k] /\ k \notin DOMAIN t /\ k \in DOMAIN u
    <2>1. u[k] = [id |-> number[k], sat |-> Sat(k), verdict |-> NoVerdict]
      BY <1>1, <1>2
    <2> QED BY <2>1, <1>2
  <1>8. ASSUME NEW k \in DOMAIN t PROVE u[k].id = t[k].id
    <2>1. t[k] = [id |-> t[k].id, sat |-> t[k].sat, verdict |-> t[k].verdict]
      OBVIOUS
    <2>2. u[k] = [t[k] EXCEPT !.sat = Sat(k)] \/ u[k] = t[k]
      BY <1>1, <1>2
    <2> QED BY <2>1, <2>2
  <1>9. \A k \in DOMAIN t : t[k].id \in 1..old /\ k[1] \in Strata
    BY DEF TableShape
  <1>10. \A k \in new : number[k] \in (old + 1)..(old + m)
    BY <1>6
  <1>11. \A k \in DOMAIN u : k[1] \in Strata /\ u[k].id \in 1..(old + m)
    <2> HIDE DEF old, m
    <2> QED BY <1>2, <1>3, <1>4, <1>7, <1>8, <1>9, <1>10
  <1>12. ASSUME NEW j \in DOMAIN u, NEW k \in DOMAIN u, u[j].id = u[k].id
         PROVE  j = k
    <2> HIDE DEF old, m
    <2>1. CASE j \in DOMAIN t /\ k \in DOMAIN t
      BY <2>1, <1>8, <1>12 DEF TableShape
    <2>2. CASE j \in new /\ k \in new
      BY <2>2, <1>6, <1>7, <1>12
    <2>3. CASE j \in DOMAIN t /\ k \in new
      BY <2>3, <1>3, <1>7, <1>8, <1>9, <1>10, <1>12
    <2>4. CASE j \in new /\ k \in DOMAIN t
      BY <2>4, <1>3, <1>7, <1>8, <1>9, <1>10, <1>12
    <2> QED BY <1>2, <2>1, <2>2, <2>3, <2>4
  <1>13. TableShape(u)
    BY <1>5, <1>11, <1>12 DEF TableShape
  <1> QED BY <1>13 DEF u

\* The history's later nights are a history.
LEMMA TailIsHistory ==
    ASSUME NEW h, IsHistory(h), Len(h) > 1
    PROVE  IsHistory(Tail(h))
  <1> DEFINE S == {h[i] : i \in DOMAIN h}
  <1>1. h \in Seq(S) /\ Len(h) \in Nat /\ DOMAIN h = 1..Len(h)
    BY DEF IsHistory
  <1> HIDE DEF S
  <1>2. PICK t : t = Tail(h)
    OBVIOUS
  <1>3. /\ t \in Seq(S) /\ Len(t) = Len(h) - 1
        /\ \A i \in 1..(Len(h) - 1) : t[i] = h[i + 1]
    BY <1>1, <1>2, HeadTailProperties
  <1>4. DOMAIN t = 1..Len(t) /\ Len(t) \in Nat /\ Len(t) # 0
    BY <1>1, <1>3
  <1>5. t \in Seq({t[i] : i \in DOMAIN t})
    BY <1>3, <1>4
  <1>6. t # <<>>
    BY <1>4
  <1>7. \A i \in DOMAIN t : GraphRows(t[i])
    BY <1>1, <1>3, <1>4 DEF IsHistory
  <1> QED BY <1>2, <1>5, <1>6, <1>7 DEF IsHistory

\* Verdicts, imports and sessions leave the cases and their ids alone.
LEMMA SameCases ==
    ASSUME TableShape(table), DOMAIN table' = DOMAIN table,
           \A k \in DOMAIN table : table'[k].id = table[k].id
    PROVE  TableShape(table)'
  BY DEF TableShape

\* QueueInv is inductive: a rebuild numbers new cases past the old ones, and nothing else touches
\* an id.
THEOREM QueueInductive == GoldSpec => []QueueInv
  <1>1. GoldInit => QueueInv
    <2> SUFFICES ASSUME GoldInit PROVE QueueInv
      OBVIOUS
    <2>1. DOMAIN table = {} /\ nights \in Histories
      BY DEF GoldInit
    <2> QED BY <2>1, GoldAssumption, FS_EmptySet DEF QueueInv, TableShape
  <1>2. GoldInv /\ QueueInv /\ [GoldNext]_goldVars => QueueInv'
    <2> SUFFICES ASSUME GoldInv, QueueInv, [GoldNext]_goldVars
                 PROVE  QueueInv'
      OBVIOUS
    <2>1. CASE GraphMoves
      BY <2>1, TailIsHistory DEF GraphMoves, QueueInv
    <2>2. CASE BuildQueue
      <3>1. PICK g : g = Head(nights)
        OBVIOUS
      <3>2. GraphRows(g)
        BY <3>1 DEF QueueInv, IsHistory
      <3>3. /\ table' = Upserted(table, Selected(g)) /\ nights' = nights
            /\ IsFiniteSet(Selected(g)) /\ \A c \in Selected(g) : c.type \in Strata
        BY <2>2, <3>1, <3>2, SelectedIsFinite DEF BuildQueue
      <3>4. PICK t, cases : t = table /\ cases = Selected(g)
        OBVIOUS
      <3>5. /\ TableShape(t) /\ table' = Upserted(t, cases)
            /\ IsFiniteSet(cases) /\ \A c \in cases : c.type \in Strata
            /\ \A k \in DOMAIN t :
                  t[k] = [id |-> t[k].id, sat |-> t[k].sat, verdict |-> t[k].verdict]
        BY <3>3, <3>4 DEF QueueInv, GoldInv, GoldTypes
      <3>6. TableShape(table')
        BY <3>5, UpsertNumbers
      <3> QED BY <3>3, <3>6 DEF QueueInv, TableShape
    <2>3. CASE LoseDatabase
      <3>1. DOMAIN table' = {} /\ nights' = nights
        BY <2>3 DEF LoseDatabase
      <3> QED BY <3>1, FS_EmptySet DEF QueueInv, TableShape
    <2>4. CASE ImportVerdicts
      <3>1. \A k \in DOMAIN table : table[k] = [id |-> table[k].id, sat |-> table[k].sat,
                                                verdict |-> table[k].verdict]
        BY DEF GoldInv, GoldTypes
      <3>2. nights' = nights /\ DOMAIN table' = DOMAIN table
        BY <2>4 DEF ImportVerdicts
      <3>3. \A k \in DOMAIN table : table'[k].id = table[k].id
        BY <2>4, <3>1 DEF ImportVerdicts
      <3> QED BY <3>2, <3>3, SameCases DEF QueueInv
    <2>5. ASSUME NEW r \in Reviewer, NEW v \in Verdicts, RecordVerdict(r, v) PROVE QueueInv'
      <3>1. \A k \in DOMAIN table : table[k] = [id |-> table[k].id, sat |-> table[k].sat,
                                                verdict |-> table[k].verdict]
        BY DEF GoldInv, GoldTypes
      <3>2. nights' = nights /\ DOMAIN table' = DOMAIN table
        BY <2>5 DEF RecordVerdict
      <3>3. \A k \in DOMAIN table : table'[k].id = table[k].id
        BY <2>5, <3>1 DEF RecordVerdict
      <3> QED BY <3>2, <3>3, SameCases DEF QueueInv
    <2>6. ASSUME UNCHANGED <<nights, table>> PROVE QueueInv'
      BY <2>6 DEF QueueInv, TableShape
    <2>7. ASSUME NEW r \in Reviewer,
                 \/ \E k \in DOMAIN table, overwrite \in BOOLEAN : ApiCheck(r, k, overwrite)
                 \/ CliOpen(r) \/ CliSkip(r) \/ AppendLine(r) \/ Quit(r)
          PROVE  UNCHANGED <<nights, table>>
      BY <2>7 DEF ApiCheck, CliOpen, CliSkip, AppendLine, Quit
    <2> QED BY <2>1, <2>2, <2>3, <2>4, <2>5, <2>6, <2>7 DEF GoldNext, goldVars
  <1> QED BY <1>1, <1>2, GoldInductive, PTL DEF GoldSpec

\* However the objects lie over the decades, the sample is as large as it may be and as even as the
\* script promises; and however the satellites lie over the acquisitions, each has a case when there
\* is room for all.
THEOREM SampleIsSpreadHolds == GoldSpec => []SampleIsSpread
  <1>1. ASSUME NEW g, GraphRows(g) PROVE EvenSpread(g)
    <2> DEFINE objects == Mistyped(g)
               group == [s \in objects |-> Decade(g, s)]
               before == [s \in objects |-> {t \in objects : ByNorad(g, t, s)}]
               n == Target["type_conflict"]
               taken == RoundRobin(objects, group, before, n)
               picked == {c.sat : c \in TypeConflict(g)}
    <2>1. /\ IsFiniteSet(objects) /\ objects \subseteq DOMAIN g /\ objects \subseteq Nat
          /\ \A s \in objects : g[s].norad \in Nat /\ g[s].launch \in Nat
      <3>1. objects \in SUBSET DOMAIN g
        BY DEF Mistyped
      <3> HIDE DEF objects
      <3>2. IsFiniteSet(DOMAIN g)
        BY <1>1 DEF GraphRows
      <3>3. IsFiniteSet(objects)
        BY <3>1, <3>2, FS_Subset
      <3> QED BY <1>1, <3>1, <3>3 DEF GraphRows
    <2>2. group \in [objects -> Int]
      BY <2>1 DEF Decade
    <2>3. TotalOrder(objects, before)
      <3> HIDE DEF objects
      <3> QED BY <2>1 DEF TotalOrder, ByNorad
    <2>4. n \in Nat
      BY SelectionAssumption DEF Strata
    <2>5. TypeConflict(g) = About("type_conflict", g, taken)
      BY DEF TypeConflict
    <2>6. picked = taken
      <3>1. \A s : Case("type_conflict", SubjectRef(g[s].norad, g[s].jcat, s), s).sat = s
        BY DEF Case
      <3> HIDE DEF taken
      <3> QED BY <2>5, <3>1 DEF About
    <2>7. /\ picked \subseteq objects
          /\ Cardinality(picked) = IF Cardinality(objects) < n THEN Cardinality(objects) ELSE n
          /\ \A d, e : Share(group, d, picked) > Share(group, e, picked) + 1 =>
                          Share(group, e, picked) = Share(group, e, objects)
      <3>1. IsFiniteSet(objects)
        BY <2>1
      <3> HIDE DEF objects, group, before, n, picked
      <3>2. OrdersGroups(objects, group, before)
        BY <2>3, OrderedInGroups
      <3> QED BY ONLY <2>2, <2>4, <2>6, <3>1, <3>2, RoundRobinIsEven
    <2>8. ASSUME NEW d, NEW S, S \subseteq objects
          PROVE  Share(group, d, S) = OfDecade(g, S, d)
      <3>1. {r \in S : group[r] = d} = {s \in S : Decade(g, s) = d}
        <4> HIDE DEF objects
        <4> QED BY <2>8
      <3> HIDE DEF group
      <3> QED BY <3>1 DEF Share, OfDecade
    <2>9. \A d, e : OfDecade(g, picked, d) > OfDecade(g, picked, e) + 1 =>
                       OfDecade(g, picked, e) = OfDecade(g, objects, e)
      <3> HIDE DEF objects, group, picked
      <3>1. \A d : Share(group, d, picked) = OfDecade(g, picked, d)
        BY <2>7, <2>8
      <3>2. \A d : Share(group, d, objects) = OfDecade(g, objects, d)
        BY <2>8
      <3> QED BY <2>7, <3>1, <3>2
    <2>10. Cardinality(picked) = IF Cardinality(objects) < n THEN Cardinality(objects) ELSE n
      BY <2>7
    <2> QED BY <2>9, <2>10 DEF EvenSpread
  <1>2. QueueInv => SampleIsSpread
    <2> SUFFICES ASSUME QueueInv PROVE SampleIsSpread
      OBVIOUS
    <2>1. GraphRows(Head(nights))
      BY DEF QueueInv, IsHistory
    <2> QED BY <1>1, <2>1, DealsAreShown DEF SampleIsSpread
  <1> QED BY <1>2, QueueInductive, PTL

\* From a case or its last screen, the next screen is the next case round from k.
LEMMA NextIsNextRound ==
    ASSUME NEW before, TotalOrder(DOMAIN table, before),
           \A j, k \in DOMAIN table : j \in before[k] <=> Precedes(j, k),
           NEW k \in DOMAIN table, NEW x \in DOMAIN table, NEW y \in Unlabeled,
           NEW around, around = Around(Unlabeled, before, k),
           \/ x = k /\ around[y] = {}
           \/ x \in Unlabeled /\ around[y] = around[x] \cup {x}
    PROVE  NextCase(x) = y
  <1> DEFINE U == Unlabeled
             D == DOMAIN table
             after == {j \in U : Precedes(x, j)}
             A == IF after # {} THEN after ELSE U
  <1>1. U \subseteq D
    BY DEF Unlabeled
  <1>2. NextCase(x) = First(A)
    BY DEF NextCase
  <1>3. \A q : \A r \in U : q \in around[r] <=>
           q \in U /\ IF k \in before[r] THEN k \in before[q] /\ q \in before[r]
                      ELSE k \in before[q] \/ q \in before[r]
    BY DEF Around
  <1>4. \A r \in D : r \notin before[r]
    BY DEF TotalOrder
  <1>5. \A q, r \in D : q # r => q \in before[r] \/ r \in before[q]
    BY DEF TotalOrder
  <1>6. \A p, q, r \in D : p \in before[q] /\ q \in before[r] => p \in before[r]
    BY DEF TotalOrder
  <1>7. \A j \in U : j \in after <=> x \in before[j]
    BY <1>1
  <1>8. after \subseteq U
    OBVIOUS
  <1> HIDE DEF after, U, D
  <1>9. y \in A /\ \A j \in A \ {y} : y \in before[j]
    <2>1. y \in U /\ x \in D /\ k \in D
      BY DEF U, D
    <2>2. CASE x = k /\ around[y] = {}
      <3>1. CASE k \in before[y]
        <4>1. after # {} /\ y \in after
          BY <1>7, <2>1, <2>2, <3>1
        <4>2. ASSUME NEW j \in after, j # y PROVE y \in before[j]
          BY <1>1, <1>3, <1>5, <1>7, <1>8, <2>1, <2>2, <3>1, <4>2
        <4> QED BY <4>1, <4>2
      <3>2. CASE k \notin before[y]
        <4>1. after = {}
          BY <1>3, <1>7, <1>8, <2>1, <2>2, <3>2
        <4>2. ASSUME NEW j \in U, j # y PROVE y \in before[j]
          BY <1>1, <1>3, <1>5, <2>1, <2>2, <3>2, <4>2
        <4> QED BY <2>1, <4>1, <4>2
      <3> QED BY <3>1, <3>2
    <2>3. CASE x \in U /\ around[y] = around[x] \cup {x}
      <3>1. /\ x \in around[y] /\ x \notin around[x]
            /\ \A j \in U : j \in around[y] => j \in around[x] \/ j = x
        BY <1>1, <1>3, <1>4, <2>3
      <3>2. CASE k \in before[y]
        <4>1. k \in before[x] /\ x \in before[y]
          BY <1>3, <2>1, <3>1, <3>2
        <4>2. after # {} /\ y \in after
          BY <1>7, <2>1, <4>1
        <4>3. ASSUME NEW j \in after, j # y, y \notin before[j] PROVE FALSE
          <5>1. j \in U /\ x \in before[j] /\ j \in before[y]
            BY <1>1, <1>5, <1>7, <1>8, <2>1, <4>3
          <5>2. k \in before[j]
            BY <1>1, <1>6, <2>1, <4>1, <5>1
          <5>3. j \in around[y]
            BY <1>3, <2>1, <3>2, <5>1, <5>2
          <5>4. j \in before[x] \/ j = x
            BY <1>3, <2>3, <3>1, <4>1, <5>1, <5>3
          <5> QED BY <1>1, <1>4, <1>6, <2>1, <5>1, <5>4
        <4> QED BY <4>2, <4>3
      <3>3. CASE k \notin before[y] /\ k \in before[x]
        <4>1. ASSUME NEW j \in after PROVE FALSE
          <5>1. j \in U /\ x \in before[j]
            BY <1>7, <1>8, <4>1
          <5>2. k \in before[j]
            BY <1>1, <1>6, <2>1, <3>3, <5>1
          <5>3. j \in around[y]
            BY <1>3, <2>1, <3>3, <5>1, <5>2
          <5>4. j \in before[x] \/ j = x
            BY <1>3, <2>3, <3>1, <3>3, <5>1, <5>3
          <5> QED BY <1>1, <1>4, <1>6, <2>1, <5>1, <5>4
        <4>2. after = {}
          BY <4>1
        <4>3. ASSUME NEW j \in U, j # y, y \notin before[j] PROVE FALSE
          <5>1. j \in before[y]
            BY <1>1, <1>5, <2>1, <4>3
          <5>2. j \in around[y]
            BY <1>3, <2>1, <3>3, <5>1
          <5>3. k \in before[j]
            BY <1>3, <2>3, <3>1, <3>3, <5>2
          <5> QED BY <1>1, <1>6, <2>1, <3>3, <5>1, <5>3
        <4> QED BY <2>1, <4>2, <4>3
      <3>4. CASE k \notin before[y] /\ k \notin before[x]
        <4>1. x \in before[y]
          BY <1>3, <2>1, <3>1, <3>4
        <4>2. after # {} /\ y \in after
          BY <1>7, <2>1, <4>1
        <4>3. ASSUME NEW j \in after, j # y, y \notin before[j] PROVE FALSE
          <5>1. j \in U /\ x \in before[j] /\ j \in before[y]
            BY <1>1, <1>5, <1>7, <1>8, <2>1, <4>3
          <5>2. j \in around[y]
            BY <1>3, <2>1, <3>4, <5>1
          <5>3. j = x \/ k \in before[j] \/ j \in before[x]
            BY <1>3, <2>3, <3>1, <3>4, <5>2, <5>1
          <5>4. k \notin before[j]
            BY <1>1, <1>6, <2>1, <3>4, <5>1
          <5> QED BY <1>1, <1>4, <1>6, <2>1, <5>1, <5>3, <5>4
        <4> QED BY <4>2, <4>3
      <3> QED BY <3>2, <3>3, <3>4
    <2> QED BY <2>2, <2>3 DEF U
  <1>10. A \subseteq D
    BY <1>1, <1>8
  <1>11. \A j \in A \ {y} : Precedes(y, j)
    BY <1>9, <1>10 DEF D
  <1>12. ASSUME NEW z \in A, \A j \in A \ {z} : Precedes(z, j) PROVE z = y
    <2> SUFFICES ASSUME z # y PROVE FALSE
      OBVIOUS
    <2>1. z \in before[y] /\ y \in before[z] /\ y \in D /\ z \in D
      BY <1>9, <1>10, <1>12 DEF D
    <2> QED BY <1>4, <1>6, <2>1
  <1> HIDE DEF A
  <1>13. First(A) = y
    BY <1>9, <1>11, <1>12 DEF First
  <1> QED BY <1>2, <1>13

\* The order in which cases are shown.
Shown == [k \in DOMAIN table |-> {j \in DOMAIN table : Precedes(j, k)}]

\* Unlabelled cases in the order of the screens from k: the first one follows k, and each next one
\* the one before.
LEMMA RoundsOfScreens ==
    ASSUME QueueInv, NEW k \in DOMAIN table,
           NEW around, around = Around(Unlabeled, Shown, k)
    PROVE  /\ IsFiniteSet(Unlabeled) /\ TotalOrder(Unlabeled, around)
           /\ \A y \in Unlabeled : Rank(around, y) = 0 => NextCase(k) = y
           /\ \A x, y \in Unlabeled : Rank(around, y) = Rank(around, x) + 1 => NextCase(x) = y
  <1>1. TotalOrder(DOMAIN table, Shown)
    <2>1. \A j \in DOMAIN table : TypeRank[j[1]] \in Nat /\ table[j].id \in Int
      BY GoldAssumption DEF QueueInv, TableShape
    <2>2. \A i, j \in DOMAIN table : i # j => table[i].id # table[j].id
      BY DEF QueueInv, TableShape
    <2>3. \A j \in DOMAIN table : ~Precedes(j, j)
      BY <2>1 DEF Precedes
    <2>4. \A i, j \in DOMAIN table : i # j => Precedes(i, j) \/ Precedes(j, i)
      BY <2>1, <2>2 DEF Precedes
    <2>5. \A h, i, j \in DOMAIN table : Precedes(h, i) /\ Precedes(i, j) => Precedes(h, j)
      BY <2>1 DEF Precedes
    <2> QED BY <2>3, <2>4, <2>5 DEF TotalOrder, Shown
  <1>2. Unlabeled \in SUBSET DOMAIN table
    BY DEF Unlabeled
  <1>3. IsFiniteSet(Unlabeled)
    BY <1>2, FS_Subset DEF QueueInv, TableShape
  <1>4. TotalOrder(Unlabeled, around)
    BY <1>1, <1>2, AroundIsOrder
  <1>5. \A i, j \in DOMAIN table : i \in Shown[j] <=> Precedes(i, j)
    BY DEF Shown
  <1>6. \A x \in Unlabeled : around[x] \subseteq Unlabeled
    BY <1>4 DEF TotalOrder
  <1>7. ASSUME NEW y \in Unlabeled, Rank(around, y) = 0 PROVE NextCase(k) = y
    <2>1. IsFiniteSet(around[y]) /\ Cardinality(around[y]) = 0
      BY <1>3, <1>6, <1>7, FS_Subset DEF Rank
    <2>2. around[y] = {}
      BY <2>1, FS_EmptySet
    <2> QED BY <1>1, <1>5, <2>2, NextIsNextRound
  <1>8. ASSUME NEW x \in Unlabeled, NEW y \in Unlabeled, Rank(around, y) = Rank(around, x) + 1
        PROVE  NextCase(x) = y
    <2>1. PICK U : U = Unlabeled
      OBVIOUS
    <2>2. /\ Cardinality(U) \in Nat
          /\ \A r \in U : Rank(around, r) \in 0 .. Cardinality(U) - 1
          /\ \A q, r \in U : q \in around[r] <=> Rank(around, q) < Rank(around, r)
          /\ \A q, r \in U : Rank(around, q) = Rank(around, r) => q = r
      BY <1>3, <1>4, <2>1, Ranked
    <2>3. \A q \in U : q \in around[y] <=> q \in around[x] \/ q = x
      BY <1>8, <2>1, <2>2
    <2>4. around[y] = around[x] \cup {x}
      BY <1>6, <2>1, <2>3
    <2> QED BY <1>1, <1>2, <1>5, <2>4, NextIsNextRound
  <1> QED BY <1>3, <1>4, <1>7, <1>8

\* The first n screens after k, each the next case of the one before.
IsWalk(k, n, walk) == walk = [i \in 0..n |-> IF i = 0 THEN k ELSE NextCase(walk[i - 1])]

\* There are such screens.
LEMMA WalkIsThere ==
    ASSUME QueueInv, NEW k \in DOMAIN table, NEW n, n = Cardinality(Unlabeled)
    PROVE  \E walk : IsWalk(k, n, walk)
  <1>1. PICK around : around = Around(Unlabeled, Shown, k)
    OBVIOUS
  <1>2. PICK U : U = Unlabeled
    OBVIOUS
  <1>3. /\ IsFiniteSet(U) /\ TotalOrder(U, around)
        /\ \A y \in U : Rank(around, y) = 0 => NextCase(k) = y
        /\ \A x, y \in U : Rank(around, y) = Rank(around, x) + 1 => NextCase(x) = y
    BY <1>1, <1>2, RoundsOfScreens
  <1>4. n \in Nat /\ \A i \in 0 .. n - 1 : \E r \in U : Rank(around, r) = i
    BY <1>2, <1>3, Ranked
  <1> DEFINE at(i) == CHOOSE r \in U : Rank(around, r) = i
             walk == [i \in 0..n |-> IF i = 0 THEN k ELSE at(i - 1)]
  <1>5. \A i \in 0 .. n - 1 : at(i) \in U /\ Rank(around, at(i)) = i
    BY <1>4
  <1> HIDE DEF at
  <1>6. ASSUME NEW i \in 0..n, i # 0
        PROVE  walk[i] = NextCase(walk[i - 1])
    <2>1. i - 1 \in 0..n /\ i - 1 \in 0 .. n - 1 /\ walk[i] = at(i - 1)
      BY <1>4, <1>6
    <2>2. CASE i - 1 = 0
      <3>1. walk[i - 1] = k
        BY <2>1, <2>2
      <3> QED BY <1>3, <1>5, <2>1, <2>2, <3>1
    <2>3. CASE i - 1 # 0
      <3>1. /\ walk[i - 1] = at(i - 1 - 1) /\ i - 1 - 1 \in 0 .. n - 1
            /\ (i - 1 - 1) + 1 = i - 1
        BY <1>4, <2>1, <2>3
      <3> QED BY <1>3, <1>5, <2>1, <3>1
    <2> QED BY <2>2, <2>3
  <1>7. walk[0] = k
    BY <1>4
  <1>8. walk = [i \in 0..n |-> walk[i]]
    OBVIOUS
  <1> HIDE DEF walk
  <1>9. walk = [i \in 0..n |-> IF i = 0 THEN k ELSE NextCase(walk[i - 1])]
    BY <1>6, <1>7, <1>8
  <1> QED BY <1>9 DEF IsWalk

\* They show every unlabelled case.
LEMMA WalkVisitsAll ==
    ASSUME QueueInv, NEW k \in DOMAIN table, NEW n, n = Cardinality(Unlabeled), NEW walk,
           IsWalk(k, n, walk)
    PROVE  Unlabeled \subseteq {walk[i] : i \in 1..n}
  <1>1. PICK around : around = Around(Unlabeled, Shown, k)
    OBVIOUS
  <1>2. PICK U : U = Unlabeled
    OBVIOUS
  <1>3. /\ IsFiniteSet(U) /\ TotalOrder(U, around)
        /\ \A y \in U : Rank(around, y) = 0 => NextCase(k) = y
        /\ \A x, y \in U : Rank(around, y) = Rank(around, x) + 1 => NextCase(x) = y
    BY <1>1, <1>2, RoundsOfScreens
  <1>4. /\ n \in Nat /\ \A r \in U : Rank(around, r) \in 0 .. n - 1
        /\ \A q, r \in U : Rank(around, q) = Rank(around, r) => q = r
        /\ \A i \in 0 .. n - 1 : \E r \in U : Rank(around, r) = i
    BY <1>2, <1>3, Ranked
  <1>5. walk[0] = k /\ \A i \in 0..n : i # 0 => walk[i] = NextCase(walk[i - 1])
    BY <1>4 DEF IsWalk
  <1> DEFINE Good == {i \in Nat : i \in 1..n => walk[i] \in U /\ Rank(around, walk[i]) = i - 1}
  <1>6. 0 \in Good
    OBVIOUS
  <1>7. ASSUME NEW i \in Nat, i \in Good PROVE i + 1 \in Good
    <2> SUFFICES ASSUME i + 1 \in 1..n
                 PROVE  walk[i + 1] \in U /\ Rank(around, walk[i + 1]) = i
      OBVIOUS
    <2>1. i \in 0 .. n - 1 /\ walk[i + 1] = NextCase(walk[i])
      BY <1>4, <1>5
    <2>2. PICK y \in U : Rank(around, y) = i
      BY <1>4, <2>1
    <2>3. CASE i = 0
      BY <1>3, <1>5, <2>1, <2>2, <2>3
    <2>4. CASE i # 0
      <3>1. walk[i] \in U /\ Rank(around, walk[i]) = i - 1
        BY <1>4, <1>7, <2>1, <2>4
      <3>2. Rank(around, y) = Rank(around, walk[i]) + 1
        BY <2>2, <3>1
      <3> QED BY <1>3, <2>1, <2>2, <3>1, <3>2
    <2> QED BY <2>3, <2>4
  <1>8. Nat \subseteq Good
    <2> HIDE DEF Good
    <2> QED BY <1>6, <1>7, InductOnNat
  <1>9. ASSUME NEW u \in U PROVE \E i \in 1..n : u = walk[i]
    <2>1. PICK j \in 0 .. n - 1 : Rank(around, u) = j
      BY <1>4
    <2>2. j + 1 \in 1..n /\ j + 1 \in Good /\ (j + 1) - 1 = j
      <3> HIDE DEF Good
      <3> QED BY <1>4, <1>8
    <2>3. walk[j + 1] \in U /\ Rank(around, walk[j + 1]) = j
      BY <2>2
    <2> QED BY <1>4, <2>1, <2>2, <2>3
  <1> QED BY <1>2, <1>9

\* From any case on screen, going on shows every unlabelled case within one round, whatever the
\* strata and ids of the table.
THEOREM SkippingVisitsAllHolds == GoldSpec => []SkippingVisitsAll
  <1>1. QueueInv => SkippingVisitsAll
    <2> SUFFICES ASSUME QueueInv, NEW k \in DOMAIN table
                 PROVE  LET n == Cardinality(Unlabeled)
                            walk[i \in 0..n] == IF i = 0 THEN k ELSE NextCase(walk[i - 1])
                        IN  Unlabeled \subseteq {walk[i] : i \in 1..n}
      BY DEF SkippingVisitsAll
    <2> DEFINE n == Cardinality(Unlabeled)
               walk[i \in 0..n] == IF i = 0 THEN k ELSE NextCase(walk[i - 1])
    <2>1. PICK w : IsWalk(k, n, w)
      <3> HIDE DEF n
      <3> QED BY WalkIsThere DEF n
    <2>2. walk = [i \in 0..n |-> IF i = 0 THEN k ELSE NextCase(walk[i - 1])]
      <3> HIDE DEF n
      <3> QED BY <2>1 DEF IsWalk
    <2>3. IsWalk(k, n, walk)
      <3> HIDE DEF n, walk
      <3> QED BY <2>2 DEF IsWalk
    <2>4. Unlabeled \subseteq {walk[i] : i \in 1..n}
      <3>1. n = Cardinality(Unlabeled)
        OBVIOUS
      <3> HIDE DEF n, walk
      <3> QED BY <2>3, <3>1, WalkVisitsAll
    <2> QED BY <2>4
  <1> QED BY <1>1, QueueInductive, PTL
=============================================================================

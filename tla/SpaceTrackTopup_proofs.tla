----------------------- MODULE SpaceTrackTopup_proofs -----------------------
(***************************************************************************)
(* Theorems about SpaceTrackTopup, for every number of processes and       *)
(* batches, every margin, gate and gap, and any number of nights.          *)
(***************************************************************************)
EXTENDS SpaceTrackTopup, TLAPS

\* A top-up that has begun holds the lock.
BegunHoldsLock == \A w \in Worker : worker[w].pc # "idle" => lockedBy = w

\* The clock has started, and what is old enough is published.
OldIsVisible == Start <= now /\ \A t \in Time : t + Delay <= now => t \in visible

\* The window of a top-up at work: from the cursor to a published past, not within the Gate of
\* one that counted.
WindowInv(w) ==
    /\ worker[w].since \in Time
    /\ cursor # 0 => worker[w].since = cursor
    /\ worker[w].since < worker[w].through
    /\ worker[w].through + Margin <= now
    /\ lastOk = 0 \/ lastOk + Gate < now

\* How far it is: the batches before its present one have landed the whole window.
BatchInv(w) ==
    /\ worker[w].pc = "finish" => worker[w].batch = Batches + 1
    /\ worker[w].pc # "finish" => worker[w].batch \in Batch
    /\ worker[w].query = "broken" => worker[w].rows = {} /\ worker[w].got = {}
    /\ worker[w].query = "sound" =>
          /\ worker[w].pc = "land" => worker[w].got = worker[w].since..worker[w].through
          /\ \A b \in Batch : b < worker[w].batch =>
                \A t \in worker[w].since..worker[w].through : <<b, t>> \in landed \cup dropped

\* The cursor is set once a window has counted.
CursorInv == (cursor = 0 <=> first = 0) /\ first <= cursor

\* The inductive invariant, with TypeOK.
Inv ==
    /\ BegunHoldsLock
    /\ OldIsVisible
    /\ CursorInv
    /\ \A w \in Worker : AtWork(w) => WindowInv(w) /\ BatchInv(w)
    /\ NothingBehindCursorIsMissing

Rec == [pc: {"idle", "locked", "ask", "land", "finish", "unlock"}, since: 0..MaxTime,
        through: 0..MaxTime, batch: 1..(Batches + 1), attempt: 0..Retries,
        query: {"sound", "broken"}, got: SUBSET Time, rows: SUBSET Time]

-----------------------------------------------------------------------------
(* Type correctness.                                                       *)

\* The constants as numbers.
LEMMA Numbers ==
    /\ Batches \in Nat /\ Batches > 0 /\ Margin \in Nat /\ Delay \in Nat /\ Lookback \in Nat
    /\ MaxGap \in Nat /\ Gate \in Nat /\ Retries \in Nat /\ MaxTime \in Nat
    /\ Delay <= Margin /\ Start \in Nat /\ Start > Lookback /\ Start > Margin
    /\ Start <= MaxTime
    /\ NoWorker \notin Worker
  BY ConstantsAssumption DEF Start

\* The record of a process that is at none of the steps of a window.
LEMMA IdleRec ==
    ASSUME NEW p \in {"idle", "locked", "unlock"}
    PROVE  [Idle EXCEPT !.pc = p] \in Rec /\ Idle \in Rec
  <1>1. 0 \in 0..MaxTime /\ 1 \in 1..(Batches + 1) /\ 0 \in 0..Retries
    BY Numbers
  <1> QED BY <1>1 DEF Rec, Idle

\* A window lies within the modelled time.
LEMMA WindowTime ==
    ASSUME TypeOK, Start <= now, ~Refused
    PROVE  /\ Window.since \in Time /\ Window.through \in Time
           /\ Window.since < Window.through /\ Window.through + Margin = now
           /\ cursor # 0 => Window.since = cursor
  <1>1. now \in Nat /\ now <= MaxTime /\ cursor \in Nat /\ cursor <= MaxTime
    BY Numbers DEF TypeOK, Time
  <1>2. Window.through = now - Margin /\ Window.since = IF cursor # 0 THEN cursor ELSE now - Lookback
    BY DEF Window
  <1>3. Window.since < Window.through
    BY <1>1, <1>2, Numbers DEF Refused
  <1> QED BY <1>1, <1>2, <1>3, Numbers DEF Time

\* Every step keeps the types.
LEMMA TypeStep ==
    ASSUME TypeOK, OldIsVisible, \A w \in Worker : AtWork(w) => BatchInv(w), [Next]_vars
    PROVE  TypeOK'
  <1>1. CASE Tick
    BY <1>1, Numbers DEF Tick, TypeOK, Time
  <1>2. ASSUME NEW t \in Time, Publish(t) PROVE TypeOK'
    BY <1>2, Numbers DEF Publish, TypeOK, Time
  <1>3. ASSUME NEW w \in Worker, NEW r \in Rec, worker' = [worker EXCEPT ![w] = r],
               UNCHANGED <<now, visible, landed, dropped, cursor, lastOk, first, opened>>,
               lockedBy' \in Worker \cup {NoWorker}
        PROVE  TypeOK'
    BY <1>3 DEF TypeOK, Rec
  <1>4. ASSUME NEW w \in Worker, Step(w) PROVE TypeOK'
    <2>1. worker[w] \in Rec /\ lockedBy \in Worker \cup {NoWorker}
      BY DEF TypeOK, Rec
    <2>2. CASE TryLock(w) \/ Skip(w) \/ Fail(w) \/ RejectEmpty(w) \/ Unlock(w) \/ Crash(w)
      BY <1>3, <2>1, <2>2, IdleRec DEF TryLock, Skip, Fail, RejectEmpty, Unlock, Crash, Set
    <2>3. CASE Open(w)
      <3>1. PICK query \in {"sound", "broken"} :
              Set(w, [Idle EXCEPT !.pc = "ask", !.since = Window.since,
                                  !.through = Window.through, !.query = query])
        BY <2>3 DEF Open
      <3>2. Window.since \in Time /\ Window.through \in Time
        BY <2>3, WindowTime DEF Open, OldIsVisible
      <3>3. [Idle EXCEPT !.pc = "ask", !.since = Window.since,
                         !.through = Window.through, !.query = query] \in Rec
        <4>1. ASSUME NEW s \in 0..MaxTime, NEW u \in 0..MaxTime
              PROVE  [Idle EXCEPT !.pc = "ask", !.since = s, !.through = u, !.query = query] \in Rec
          <5>1. 1 \in 1..(Batches + 1) /\ 0 \in 0..Retries
            BY Numbers
          <5> QED BY <5>1 DEF Idle, Rec
        <4>2. Window.since \in 0..MaxTime /\ Window.through \in 0..MaxTime
          BY <3>2, Numbers DEF Time
        <4> QED BY <4>1, <4>2
      <3>4. opened' \in 0..MaxTime
        BY <2>3, <3>2, Numbers DEF Open, TypeOK, Time
      <3> QED BY <2>3, <3>1, <3>3, <3>4 DEF Open, Set, TypeOK, Rec
    <2>4. CASE Answer(w)
      <3>1. Asked(w) \in SUBSET Time
        <4>1. visible \subseteq Time
          BY Numbers DEF TypeOK, Time
        <4> QED BY <4>1 DEF Asked
      <3>2. [worker[w] EXCEPT !.pc = "land", !.got = Asked(w)] \in Rec
        BY <2>1, <3>1 DEF Rec
      <3> QED BY <1>3, <2>1, <2>4, <3>2 DEF Answer, Set
    <2>5. CASE Miss(w)
      <3>1. worker[w].attempt < Retries => [worker[w] EXCEPT !.attempt = @ + 1] \in Rec
        BY <2>1, Numbers DEF Rec
      <3> QED BY <1>3, <2>1, <2>5, <3>1, IdleRec DEF Miss, Set
    <2>6. CASE Land(w)
      <3>1. worker[w].batch \in Batch /\ worker[w].got \subseteq Time
        BY <2>1, <2>6 DEF Land, AtWork, BatchInv, Rec
      <3>2. worker[w].batch + 1 \in 1..(Batches + 1) /\ 0 \in 0..Retries
        BY <3>1, Numbers DEF Batch
      <3>3. PICK stubs \in SUBSET worker[w].got :
              /\ landed' = landed \cup {<<worker[w].batch, t>> : t \in worker[w].got \ stubs}
              /\ dropped' = dropped \cup {<<worker[w].batch, t>> : t \in stubs}
              /\ Set(w, [worker[w] EXCEPT !.pc = IF worker[w].batch = Batches THEN "finish" ELSE "ask",
                                          !.batch = @ + 1, !.attempt = 0, !.got = {},
                                          !.rows = @ \cup (worker[w].got \ stubs)])
        BY <2>6 DEF Land
      <3>4. [worker[w] EXCEPT !.pc = IF worker[w].batch = Batches THEN "finish" ELSE "ask",
                              !.batch = @ + 1, !.attempt = 0, !.got = {},
                              !.rows = @ \cup (worker[w].got \ stubs)] \in Rec
        BY <2>1, <3>1, <3>2 DEF Rec
      <3>5. landed' \subseteq Batch \X Time /\ dropped' \subseteq Batch \X Time
        BY <3>1, <3>3 DEF TypeOK
      <3>6. UNCHANGED <<now, visible, cursor, lastOk, lockedBy, first, opened>>
        BY <2>6 DEF Land
      <3> QED BY <3>3, <3>4, <3>5, <3>6 DEF Set, TypeOK, Rec
    <2>7. CASE Count(w)
      <3>1. worker[w].through \in 0..MaxTime /\ worker[w].since \in 0..MaxTime /\ now \in 0..MaxTime
        BY <2>1, Numbers DEF Rec, TypeOK, Time
      <3>2. {cursor', lastOk', first', opened'} \subseteq 0..MaxTime
        BY <2>7, <3>1 DEF Count, TypeOK
      <3> QED BY <2>7, <3>2, IdleRec DEF Count, Set, TypeOK, Rec
    <2> QED BY <1>4, <2>2, <2>3, <2>4, <2>5, <2>6, <2>7 DEF Step
  <1>5. CASE UNCHANGED vars
    BY <1>5 DEF vars, TypeOK
  <1> QED BY <1>1, <1>2, <1>4, <1>5 DEF Next

-----------------------------------------------------------------------------
(* The inductive invariant.                                                *)

\* Who steps is alone: a top-up that has begun holds the lock, and one that takes it finds it free.
LEMMA Alone ==
    ASSUME BegunHoldsLock, NEW w \in Worker, worker[w].pc # "idle" \/ lockedBy = NoWorker
    PROVE  \A v \in Worker \ {w} : worker[v].pc = "idle"
  BY Numbers DEF BegunHoldsLock

\* A step of a top-up after which it is at no batch, over an unchanged database.
LEMMA QuietStep ==
    ASSUME TypeOK, Inv, NEW w \in Worker, NEW p \in {"idle", "locked", "unlock"},
           \A v \in Worker \ {w} : worker[v].pc = "idle",
           worker' = [worker EXCEPT ![w] = [Idle EXCEPT !.pc = p]],
           p # "idle" => lockedBy' = w,
           UNCHANGED <<now, visible, landed, dropped, cursor, lastOk, first>>
    PROVE  Inv'
  <1>1. \A v \in Worker : worker'[v].pc = IF v = w THEN p ELSE "idle"
    BY DEF TypeOK, Idle
  <1>2. BegunHoldsLock'
    BY <1>1 DEF BegunHoldsLock
  <1>3. \A v \in Worker : ~AtWork(v)'
    BY <1>1 DEF AtWork
  <1> QED BY <1>2, <1>3 DEF Inv, OldIsVisible, CursorInv, NothingBehindCursorIsMissing

\* A step of a top-up after which it is at a batch: what has to be shown is its own part.
LEMMA WorkStep ==
    ASSUME TypeOK, Inv, NEW w \in Worker, NEW r,
           \A v \in Worker \ {w} : worker[v].pc = "idle",
           worker' = [worker EXCEPT ![w] = r],
           lockedBy' = w,
           UNCHANGED <<now, visible, cursor, lastOk, first>>,
           landed \subseteq landed', dropped \subseteq dropped',
           WindowInv(w)', BatchInv(w)'
    PROVE  Inv'
  <1>1. \A v \in Worker \ {w} : worker'[v].pc = "idle"
    BY DEF TypeOK
  <1>2. BegunHoldsLock'
    BY <1>1 DEF BegunHoldsLock
  <1>3. \A v \in Worker : AtWork(v)' => v = w
    BY <1>1 DEF AtWork
  <1>4. NothingBehindCursorIsMissing'
    BY DEF Inv, NothingBehindCursorIsMissing
  <1> QED BY <1>2, <1>3, <1>4 DEF Inv, OldIsVisible, CursorInv

\* The time passing keeps it: windows end in the past.
LEMMA TickStep ==
    ASSUME TypeOK, Inv, Tick
    PROVE  Inv'
  <1>1. now \in Nat /\ now' = now + 1
    BY Numbers DEF Tick, TypeOK, Time
  <1>2. UNCHANGED <<visible, landed, dropped, cursor, lastOk, lockedBy, worker, first>>
    BY DEF Tick
  <1>3. OldIsVisible'
    BY <1>1, Numbers DEF Tick, Inv, OldIsVisible
  <1>4. ASSUME NEW w \in Worker, AtWork(w)' PROVE WindowInv(w)' /\ BatchInv(w)'
    <2>1. WindowInv(w) /\ BatchInv(w)
      BY <1>2, <1>4 DEF Inv, AtWork
    <2>2. worker[w].through \in Nat /\ lastOk \in Nat
      BY Numbers DEF TypeOK
    <2>3. WindowInv(w)'
      BY <1>1, <1>2, <2>1, <2>2, Numbers DEF WindowInv
    <2> QED BY <1>2, <2>1, <2>3 DEF BatchInv
  <1> QED BY <1>2, <1>3, <1>4 DEF Inv, BegunHoldsLock, CursorInv, NothingBehindCursorIsMissing

\* Every step keeps it.
LEMMA InvStep ==
    ASSUME TypeOK, Inv, [Next]_vars
    PROVE  Inv'
  <1>1. ASSUME NEW t \in Time, Publish(t) PROVE Inv'
    <2>1. visible \subseteq visible' /\ UNCHANGED <<now, landed, dropped, cursor, lastOk, lockedBy, worker, first>>
      BY <1>1 DEF Publish
    <2>2. OldIsVisible'
      BY <2>1 DEF Inv, OldIsVisible
    <2> QED BY <2>1, <2>2 DEF Inv, BegunHoldsLock, CursorInv, NothingBehindCursorIsMissing,
                              AtWork, WindowInv, BatchInv
  <1>2. ASSUME NEW w \in Worker, Step(w) PROVE Inv'
    <2>1. worker[w].pc # "idle" \/ lockedBy = NoWorker
      BY <1>2 DEF Step, TryLock, Skip, Open, Answer, Miss, Fail, Land, Count, RejectEmpty, Unlock, Crash
    <2>2. \A v \in Worker \ {w} : worker[v].pc = "idle"
      BY <2>1, Alone DEF Inv
    <2>3. worker[w].pc # "idle" => lockedBy = w
      BY DEF Inv, BegunHoldsLock
    <2>4. worker[w] \in Rec /\ now \in Nat /\ cursor \in 0..MaxTime /\ lastOk \in 0..MaxTime
      BY Numbers DEF TypeOK, Rec, Time
    <2>5. Idle = [Idle EXCEPT !.pc = "idle"]
      BY DEF Idle
    <2>6. AtWork(w) => WindowInv(w) /\ BatchInv(w)
      BY DEF Inv
    <2>7. CASE TryLock(w)
      BY <2>2, <2>7, QuietStep DEF TryLock, Set
    <2>8. CASE Skip(w) \/ Fail(w) \/ RejectEmpty(w)
      <3>1. worker[w].pc # "idle"
        BY <2>8 DEF Skip, Fail, RejectEmpty
      <3> QED BY <2>2, <2>3, <2>8, <3>1, QuietStep DEF Skip, Fail, RejectEmpty, Set
    <2>9. CASE Unlock(w) \/ Crash(w)
      <3>1. worker' = [worker EXCEPT ![w] = [Idle EXCEPT !.pc = "idle"]]
        BY <2>5, <2>9 DEF Unlock, Crash, Set
      <3> QED BY <2>2, <2>9, <3>1, QuietStep DEF Unlock, Crash
    <2>10. CASE Open(w)
      <3>1. PICK query \in {"sound", "broken"} :
              worker' = [worker EXCEPT ![w] =
                  [Idle EXCEPT !.pc = "ask", !.since = Window.since,
                               !.through = Window.through, !.query = query]]
        BY <2>10 DEF Open, Set
      <3>2. /\ worker'[w].pc = "ask" /\ worker'[w].since = Window.since
            /\ worker'[w].through = Window.through /\ worker'[w].query = query
            /\ worker'[w].batch = 1 /\ worker'[w].rows = {} /\ worker'[w].got = {}
        BY <3>1 DEF TypeOK, Idle
      <3>3. /\ Window.since \in Time /\ Window.through \in Time
            /\ Window.since < Window.through /\ Window.through + Margin = now
            /\ cursor # 0 => Window.since = cursor
        BY <2>10, WindowTime DEF Open, Inv, OldIsVisible
      <3>4. lastOk = 0 \/ lastOk + Gate < now
        BY <2>4, <2>10, Numbers DEF Open, Fresh
      <3>5. UNCHANGED <<now, visible, landed, dropped, cursor, lastOk, lockedBy, first>>
        BY <2>10 DEF Open
      <3>6. WindowInv(w)'
        BY <2>4, <3>2, <3>3, <3>4, <3>5, Numbers DEF WindowInv, Time
      <3>7. BatchInv(w)'
        <4>1. 1 \in Batch /\ \A b \in Batch : ~(b < 1)
          BY Numbers DEF Batch
        <4>2. worker'[w].query = "sound" => \A b \in Batch : ~(b < worker'[w].batch)
          BY <3>2, <4>1
        <4>3. /\ worker'[w].pc # "finish" /\ worker'[w].pc # "land"
              /\ worker'[w].batch \in Batch /\ worker'[w].rows = {} /\ worker'[w].got = {}
          BY <3>2, <4>1
        <4> QED BY <4>2, <4>3 DEF BatchInv
      <3>8. lockedBy' = w
        BY <2>3, <2>10, <3>5 DEF Open
      <3> QED BY <2>2, <3>1, <3>5, <3>6, <3>7, <3>8, WorkStep
    <2>11. CASE Answer(w)
      <3>1. UNCHANGED <<now, visible, landed, dropped, cursor, lastOk, lockedBy, first>>
        BY <2>11 DEF Answer
      <3>2. worker' = [worker EXCEPT ![w] = [worker[w] EXCEPT !.pc = "land", !.got = Asked(w)]]
        BY <2>11 DEF Answer, Set
      <3>3. /\ worker'[w].pc = "land" /\ worker'[w].got = Asked(w)
            /\ worker'[w].since = worker[w].since /\ worker'[w].through = worker[w].through
            /\ worker'[w].query = worker[w].query /\ worker'[w].batch = worker[w].batch
            /\ worker'[w].rows = worker[w].rows
        BY <2>4, <3>2 DEF TypeOK, Rec
      <3>4. WindowInv(w) /\ BatchInv(w) /\ lockedBy' = w
        BY <2>3, <2>6, <2>11, <3>1 DEF Answer, AtWork
      <3>5. worker[w].query = "sound" => Asked(w) = worker[w].since..worker[w].through
        <4>1. worker[w].since \in Time /\ worker[w].through \in 0..MaxTime
          BY <2>4, <3>4 DEF WindowInv, Rec
        <4>2. \A t \in worker[w].since..worker[w].through : t \in Time /\ t \in visible
          <5>1. worker[w].through + Margin <= now /\ now <= MaxTime
            BY <3>4 DEF WindowInv, TypeOK, Time
          <5>2. ASSUME NEW t \in worker[w].since..worker[w].through
                PROVE  t \in Time /\ t + Delay <= now
            BY <2>4, <4>1, <5>1, <5>2, Numbers DEF Time
          <5> QED BY <5>2 DEF Inv, OldIsVisible
        <4>3. visible \subseteq Time
          BY Numbers DEF TypeOK, Time
        <4>4. \A t \in Time : t \in worker[w].since..worker[w].through <=>
                             worker[w].since <= t /\ t <= worker[w].through
          BY <4>1, Numbers DEF Time
        <4>5. ASSUME worker[w].query = "sound", NEW t
              PROVE  t \in Asked(w) <=> t \in worker[w].since..worker[w].through
          BY <4>2, <4>3, <4>4, <4>5 DEF Asked
        <4> QED BY <4>5
      <3>6. worker[w].query = "broken" => Asked(w) = {}
        BY DEF Asked
      <3>7. WindowInv(w)'
        BY <3>1, <3>3, <3>4 DEF WindowInv
      <3>8. BatchInv(w)'
        BY <2>11, <3>1, <3>3, <3>4, <3>5, <3>6 DEF BatchInv, Answer
      <3> QED BY <2>2, <3>1, <3>2, <3>4, <3>7, <3>8, WorkStep
    <2>12. CASE Miss(w)
      <3>1. CASE worker[w].attempt < Retries
        <4>1. UNCHANGED <<now, visible, landed, dropped, cursor, lastOk, lockedBy, first>>
          BY <2>12 DEF Miss
        <4>2. worker' = [worker EXCEPT ![w] = [worker[w] EXCEPT !.attempt = @ + 1]]
          BY <2>12, <3>1 DEF Miss, Set
        <4>3. /\ worker'[w].pc = worker[w].pc /\ worker'[w].got = worker[w].got
              /\ worker'[w].since = worker[w].since /\ worker'[w].through = worker[w].through
              /\ worker'[w].query = worker[w].query /\ worker'[w].batch = worker[w].batch
              /\ worker'[w].rows = worker[w].rows
          BY <2>4, <4>2 DEF TypeOK, Rec
        <4>4. WindowInv(w) /\ BatchInv(w) /\ lockedBy' = w
          BY <2>3, <2>6, <2>12, <4>1 DEF Miss, AtWork
        <4>5. WindowInv(w)' /\ BatchInv(w)'
          BY <4>1, <4>3, <4>4 DEF WindowInv, BatchInv
        <4> QED BY <2>2, <4>1, <4>2, <4>4, <4>5, WorkStep
      <3>2. CASE ~(worker[w].attempt < Retries)
        <4>1. worker[w].pc # "idle"
          BY <2>12 DEF Miss
        <4> QED BY <2>2, <2>3, <2>12, <3>2, <4>1, QuietStep DEF Miss, Set
      <3> QED BY <3>1, <3>2
    <2>13. CASE Land(w)
      <3>1. PICK stubs \in SUBSET worker[w].got :
              /\ landed' = landed \cup {<<worker[w].batch, t>> : t \in worker[w].got \ stubs}
              /\ dropped' = dropped \cup {<<worker[w].batch, t>> : t \in stubs}
              /\ worker' = [worker EXCEPT ![w] =
                    [worker[w] EXCEPT !.pc = IF worker[w].batch = Batches THEN "finish" ELSE "ask",
                                      !.batch = @ + 1, !.attempt = 0, !.got = {},
                                      !.rows = @ \cup (worker[w].got \ stubs)]]
        BY <2>13 DEF Land, Set
      <3>2. UNCHANGED <<now, visible, cursor, lastOk, lockedBy, first>>
        BY <2>13 DEF Land
      <3>3. /\ worker'[w].pc = IF worker[w].batch = Batches THEN "finish" ELSE "ask"
            /\ worker'[w].since = worker[w].since /\ worker'[w].through = worker[w].through
            /\ worker'[w].query = worker[w].query /\ worker'[w].batch = worker[w].batch + 1
            /\ worker'[w].rows = worker[w].rows \cup (worker[w].got \ stubs) /\ worker'[w].got = {}
        BY <2>4, <3>1 DEF TypeOK, Rec
      <3>4. /\ WindowInv(w) /\ BatchInv(w) /\ lockedBy' = w
            /\ worker[w].pc = "land" /\ worker[w].batch \in Batch
        BY <2>3, <2>6, <2>13, <3>2 DEF Land, AtWork, BatchInv
      <3>5. WindowInv(w)'
        BY <3>2, <3>3, <3>4 DEF WindowInv
      <3>6. worker'[w].pc = "finish" => worker'[w].batch = Batches + 1
        BY <3>3
      <3>7. worker'[w].pc # "finish" => worker'[w].batch \in Batch
        BY <3>3, <3>4, Numbers DEF Batch
      <3>8. worker'[w].query = "broken" => worker'[w].rows = {} /\ worker'[w].got = {}
        BY <3>3, <3>4 DEF BatchInv
      <3>9. ASSUME worker[w].query = "sound", NEW b \in Batch, b < worker[w].batch + 1,
                   NEW t \in worker[w].since..worker[w].through
            PROVE  <<b, t>> \in landed' \cup dropped'
        <4>1. CASE b < worker[w].batch
          BY <3>1, <3>4, <3>9, <4>1 DEF BatchInv
        <4>2. CASE b = worker[w].batch
          BY <3>1, <3>4, <3>9, <4>2 DEF BatchInv
        <4>3. b < worker[w].batch \/ b = worker[w].batch
          BY <3>4, <3>9 DEF Batch
        <4> QED BY <4>1, <4>2, <4>3
      <3>10. BatchInv(w)'
        BY <3>3, <3>6, <3>7, <3>8, <3>9 DEF BatchInv
      <3>11. landed \subseteq landed' /\ dropped \subseteq dropped'
        BY <3>1
      <3> QED BY <2>2, <3>1, <3>2, <3>4, <3>5, <3>10, <3>11, WorkStep
    <2>14. CASE Count(w)
      <3>1. /\ UNCHANGED <<now, visible, landed, dropped, lockedBy>>
            /\ worker[w].pc = "finish"
            /\ worker[w].rows # {} \/ ~Large
            /\ cursor' = worker[w].through
            /\ first' = IF first = 0 THEN worker[w].since ELSE first
        BY <2>14 DEF Count
      <3>2. \A v \in Worker : worker'[v].pc = IF v = w THEN "unlock" ELSE "idle"
        BY <2>2, <2>14 DEF Count, Set, TypeOK, Idle
      <3>3. BegunHoldsLock' /\ \A v \in Worker : ~AtWork(v)'
        BY <2>3, <2>14, <3>2 DEF Count, BegunHoldsLock, AtWork
      <3>4. WindowInv(w) /\ BatchInv(w) /\ worker[w].pc = "finish"
        BY <2>6, <2>14 DEF Count, AtWork
      <3>5. /\ worker[w].since \in Nat /\ worker[w].since > 0
            /\ worker[w].through \in Nat /\ worker[w].since < worker[w].through
        BY <2>4, <3>4, Numbers DEF WindowInv, Rec, Time
      <3>6. /\ first \in Nat /\ cursor \in Nat /\ (cursor = 0 <=> first = 0) /\ first <= cursor
            /\ cursor # 0 => worker[w].since = cursor
        BY <2>4, <3>4, Numbers DEF TypeOK, Inv, CursorInv, WindowInv
      <3>7. CursorInv'
        BY <3>1, <3>5, <3>6 DEF CursorInv
      <3>8. ASSUME Large, NEW t \in first'..cursor', NEW b \in Batch
            PROVE  <<b, t>> \in landed \cup dropped
        <4>1. worker[w].query = "sound" /\ b < worker[w].batch
          BY <2>4, <2>14, <3>4, <3>8, Numbers DEF Count, BatchInv, Batch, Rec
        <4>2. CASE t \in worker[w].since..worker[w].through
          BY <3>4, <4>1, <4>2 DEF BatchInv
        <4>3. CASE cursor # 0 /\ t \in first..cursor
          BY <3>8, <4>3 DEF Inv, NothingBehindCursorIsMissing
        <4>4. t \in worker[w].since..worker[w].through \/ (cursor # 0 /\ t \in first..cursor)
          BY <3>1, <3>5, <3>6, <3>8
        <4> QED BY <4>2, <4>3, <4>4
      <3>9. NothingBehindCursorIsMissing'
        BY <3>1, <3>8 DEF NothingBehindCursorIsMissing
      <3> QED BY <3>1, <3>3, <3>7, <3>9 DEF Inv, OldIsVisible
    <2> QED BY <1>2, <2>7, <2>8, <2>9, <2>10, <2>11, <2>12, <2>13, <2>14 DEF Step
  <1>3. CASE UNCHANGED vars
    BY <1>3 DEF vars, Inv, BegunHoldsLock, OldIsVisible, CursorInv, NothingBehindCursorIsMissing,
                AtWork, WindowInv, BatchInv
  <1> QED BY <1>1, <1>2, <1>3, TickStep DEF Next

\* Every reachable state satisfies both.
LEMMA Invariance == Spec => [](TypeOK /\ Inv)
  <1>1. Init => TypeOK /\ Inv
    <2> SUFFICES ASSUME Init PROVE TypeOK /\ Inv
      OBVIOUS
    <2>1. \A w \in Worker : worker[w] = Idle /\ worker[w].pc = "idle"
      BY DEF Init, Idle
    <2>2. TypeOK
      <3>1. Idle \in Rec
        BY IdleRec
      <3>2. worker \in [Worker -> Rec]
        BY <3>1 DEF Init
      <3>3. Start \in Time /\ 1..(Start - Delay) \subseteq 1..Start
        BY Numbers DEF Time
      <3> QED BY <3>2, <3>3, Numbers DEF Init, TypeOK, Rec
    <2>3. OldIsVisible
      BY Numbers DEF Init, OldIsVisible, Time
    <2> QED BY <2>1, <2>2, <2>3 DEF Init, Inv, BegunHoldsLock, CursorInv, AtWork,
                                    NothingBehindCursorIsMissing
  <1>2. TypeOK /\ Inv /\ [Next]_vars => (TypeOK /\ Inv)'
    BY TypeStep, InvStep DEF Inv
  <1> QED BY <1>1, <1>2, PTL DEF Spec

-----------------------------------------------------------------------------
(* The theorems.                                                           *)

\* The variables of the top-up keep their types, whatever fails or dies.
THEOREM TypeCorrect == Spec => []TypeOK
  BY Invariance, PTL

\* For a large fleet the cursor never passes an element set that was not landed: failed and
\* crashed nights, retries, late publications and top-ups run by hand included.
THEOREM NothingIsSkipped == Spec => []NothingBehindCursorIsMissing
  <1>1. Inv => NothingBehindCursorIsMissing
    BY DEF Inv
  <1> QED BY <1>1, Invariance, PTL

\* A window at work never begins before the cursor: what counted is not downloaded twice.
THEOREM NothingIsAskedTwice == Spec => []WindowStartsAtCursor
  <1>1. Inv => WindowStartsAtCursor
    BY DEF Inv, WindowInv, WindowStartsAtCursor
  <1> QED BY <1>1, Invariance, PTL

\* The cursor moves only forward, and at most once within the Gate.
THEOREM WindowsAreSpaced == Spec => OneWindowADay
  <1>1. TypeOK /\ Inv /\ [Next]_vars =>
          [/\ cursor' # cursor => cursor' > cursor /\ lastOk' # lastOk
           /\ lastOk' # lastOk /\ lastOk # 0 => lastOk' > lastOk + Gate]_vars
    <2> SUFFICES ASSUME TypeOK, Inv, Next
                 PROVE  /\ cursor' # cursor => cursor' > cursor /\ lastOk' # lastOk
                        /\ lastOk' # lastOk /\ lastOk # 0 => lastOk' > lastOk + Gate
      BY DEF vars
    <2>1. ASSUME NEW w \in Worker, Count(w)
          PROVE  /\ cursor' > cursor /\ lastOk' # lastOk
                 /\ lastOk # 0 => lastOk' > lastOk + Gate
      <3>1. WindowInv(w)
        BY <2>1 DEF Count, Inv, AtWork
      <3>2. /\ cursor' = worker[w].through /\ lastOk' = now
            /\ worker[w].through \in Nat /\ worker[w].since \in Nat /\ worker[w].since > 0
            /\ now \in Nat /\ now > 0 /\ lastOk \in Nat /\ cursor \in Nat
        BY <2>1, <3>1, Numbers DEF Count, TypeOK, WindowInv, Time
      <3> QED BY <3>1, <3>2, Numbers DEF WindowInv
    <2>2. (\E w \in Worker : Count(w)) \/ UNCHANGED <<cursor, lastOk>>
      BY DEF Next, Step, Tick, Publish, TryLock, Skip, Open, Answer, Miss, Fail, Land, RejectEmpty,
             Unlock, Crash
    <2> QED BY <2>1, <2>2
  <1> QED BY <1>1, Invariance, PTL DEF Spec, OneWindowADay
=============================================================================

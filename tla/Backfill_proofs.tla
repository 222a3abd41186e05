--------------------------- MODULE Backfill_proofs ---------------------------
(***************************************************************************)
(* Theorems about the pacer (RequestPacer) and the checkpointed grid       *)
(* (GpBackfill) of scripts/backfill_gp_history.py, for every budget,       *)
(* window, fleet, batch size and number of overlapping runs.               *)
(***************************************************************************)
EXTENDS GpBackfill, RequestPacer, NatFacts, TLAPS

\* The queries sent, with the one whose slot has just been taken.
Begun == IF attempt.pc = "send" THEN Append(sent, clock) ELSE sent

\* They were begun one after the other.
InOrder ==
    /\ \A i \in 1..Len(sent) : sent[i] <= clock
    /\ \A i, j \in 1..Len(sent) : i <= j => sent[i] <= sent[j]

\* The pacer's queue is the end of that history, and what precedes it is an hour old.
QueueIsRecent ==
    /\ Len(times) <= Len(Begun)
    /\ \A i \in 1..Len(times) : times[i] = Begun[Len(Begun) - Len(times) + i]
    /\ \A i \in 1..(Len(Begun) - Len(times)) : Begun[i] + Hour <= clock

\* A request that found the queue full sleeps until its oldest entry expires.
SleepsForOldest ==
    attempt.pc = "waiting" => times # <<>> /\ attempt.wake = Head(times) + Hour

\* The inductive invariant.
PacerInv ==
    /\ PacerTypeOK
    /\ InOrder
    /\ QueueIsRecent
    /\ attempt.pc = "send" => times # <<>>
    /\ SleepsForOldest
    /\ PacedPerHour

-----------------------------------------------------------------------------
\* What the types say of numbers.
LEMMA PacerTypes ==
    ASSUME PacerTypeOK
    PROVE  /\ clock \in Nat /\ Hour \in Nat /\ Horizon \in Nat /\ MaxPerHour \in Nat \ {0}
           /\ times \in Seq(0..Horizon) /\ sent \in Seq(0..Horizon)
           /\ Len(times) \in 0..MaxPerHour /\ Len(sent) \in 0..(MaxPerHour + 1)
           /\ \A i \in 1..Len(times) : times[i] \in Nat
           /\ \A i \in 1..Len(sent) : sent[i] \in Nat
           /\ times # <<>> => 1 <= Len(times) /\ Head(times) = times[1]
  <1>1. times \in Seq(0..Horizon) /\ sent \in Seq(0..Horizon)
    BY DEF PacerTypeOK
  <1>2. /\ \A i \in 1..Len(times) : times[i] \in 0..Horizon
        /\ \A i \in 1..Len(sent) : sent[i] \in 0..Horizon
    BY <1>1, ElementOfSeq
  <1>3. times # <<>> => 1 <= Len(times) /\ Head(times) = times[1]
    BY <1>1
  <1> QED BY <1>1, <1>2, <1>3, PacerAssumption DEF PacerTypeOK

\* Pruning drops a prefix of requests that are an hour old, and stops at the first that is not.
LEMMA PrunedIsSuffix ==
    ASSUME PacerTypeOK
    PROVE  \E e \in 0..Len(times) :
              /\ \A i \in 1..e : times[i] + Hour <= clock
              /\ e < Len(times) => times[e + 1] + Hour > clock
              /\ Pruned \in Seq(0..Horizon)
              /\ Len(Pruned) = Len(times) - e
              /\ \A i \in 1..Len(Pruned) : Pruned[i] = times[e + i]
  <1> DEFINE T == {n \in 0..Len(times) : n = Len(times) \/ InTrailingHour(times[n + 1])}
             Stops(n) == /\ \A i \in 1..n : ~InTrailingHour(times[i])
                         /\ n < Len(times) => InTrailingHour(times[n + 1])
             e == CHOOSE n \in 0..Len(times) : Stops(n)
  <1>0. /\ times \in Seq(0..Horizon) /\ Len(times) \in Nat /\ clock \in Nat /\ Hour \in Nat
        /\ \A i \in 1..Len(times) : times[i] \in Nat
    BY PacerTypes
  <1>1. T \subseteq Nat /\ Len(times) \in T
    BY <1>0
  <1>2. PICK n \in T : \A m \in T : n <= m
    <2> HIDE DEF T
    <2> QED BY <1>1, LeastNat
  <1>3. ASSUME NEW i \in 1..n PROVE ~InTrailingHour(times[i])
    <2>1. i - 1 \in 0..Len(times) /\ i - 1 < n /\ (i - 1) + 1 = i
      BY <1>0, <1>2
    <2>2. i - 1 \notin T
      <3> HIDE DEF T
      <3> QED BY <2>1, <1>2, <1>1, <1>0
    <2> QED BY <2>1, <2>2, <1>0, <1>2
  <1>4. n \in 0..Len(times) /\ Stops(n)
    BY <1>0, <1>2, <1>3
  <1>5. e \in 0..Len(times) /\ Stops(e)
    <2> HIDE DEF Stops
    <2> QED BY <1>4
  <1>6. Pruned = SubSeq(times, e + 1, Len(times))
    BY DEF Pruned
  <1> HIDE DEF e
  <1>7. /\ Pruned \in Seq(0..Horizon)
        /\ Len(Pruned) = Len(times) - e
        /\ \A i \in 1..Len(Pruned) : Pruned[i] = times[e + i]
    <2>1. e \in Nat /\ e + 1 \in Nat /\ e <= Len(times)
      BY <1>0, <1>5
    <2>2. ASSUME NEW i \in (e + 1)..Len(times) PROVE times[i] \in 0..Horizon
      <3>1. i \in 1..Len(times)
        BY <1>0, <2>1
      <3> QED BY <3>1, <1>0, ElementOfSeq
    <2>3. e + 1 \in Int /\ Len(times) \in Int
      BY <1>0, <2>1
    <2>4. /\ Pruned \in Seq(0..Horizon)
          /\ Len(Pruned) = IF e + 1 <= Len(times) THEN Len(times) - (e + 1) + 1 ELSE 0
          /\ \A i \in 1..(Len(times) - (e + 1) + 1) : Pruned[i] = times[e + 1 + i - 1]
      BY ONLY <2>2, <2>3, <1>6, SubSeqProperties
    <2>5. Len(Pruned) = Len(times) - e
      BY <1>0, <2>1, <2>4
    <2> QED BY <1>0, <2>1, <2>4, <2>5
  <1>8. \A i \in 1..e : times[i] + Hour <= clock
    BY <1>0, <1>5 DEF InTrailingHour
  <1>9. e < Len(times) => times[e + 1] + Hour > clock
    BY <1>0, <1>5 DEF InTrailingHour
  <1> QED BY <1>5, <1>7, <1>8, <1>9

\* What a free slot or an awakened request does to the queue: the history grows by now, and the
\* pruned queue is still its end.
LEMMA TakeSlot ==
    ASSUME PacerInv, attempt.pc \in {"pace", "waiting"}, Len(Pruned) < MaxPerHour,
           times' = Append(Pruned, clock), attempt'.pc = "send",
           UNCHANGED <<clock, sent>>
    PROVE  /\ times' \in Seq(0..Horizon) /\ Len(times') <= MaxPerHour
           /\ times' # <<>>
           /\ QueueIsRecent'
  <1>1. PICK e \in 0..Len(times) :
              /\ \A i \in 1..e : times[i] + Hour <= clock
              /\ Pruned \in Seq(0..Horizon)
              /\ Len(Pruned) = Len(times) - e
              /\ \A i \in 1..Len(Pruned) : Pruned[i] = times[e + i]
    BY PrunedIsSuffix DEF PacerInv
  <1>2. /\ clock \in 0..Horizon /\ sent \in Seq(0..Horizon) /\ times \in Seq(0..Horizon)
        /\ Horizon \in Nat /\ Hour \in Nat /\ MaxPerHour \in Nat /\ Len(sent) \in Nat /\ Len(times) \in Nat
    BY PacerAssumption DEF PacerInv, PacerTypeOK
  <1>3. /\ times' \in Seq(0..Horizon) /\ Len(times') = Len(times) - e + 1
        /\ \A i \in 1..(Len(times) - e) : times'[i] = times[e + i]
        /\ times'[Len(times) - e + 1] = clock
    BY <1>1, <1>2
  <1>4. /\ Begun' = Append(sent, clock) /\ Begun = sent
        /\ Len(Begun') = Len(sent) + 1
        /\ \A i \in 1..Len(sent) : Begun'[i] = sent[i]
        /\ Begun'[Len(sent) + 1] = clock
    BY <1>2 DEF Begun
  <1>5. /\ Len(times) <= Len(sent)
        /\ \A i \in 1..Len(times) : times[i] = sent[Len(sent) - Len(times) + i]
        /\ \A i \in 1..(Len(sent) - Len(times)) : sent[i] + Hour <= clock
    BY <1>4 DEF PacerInv, QueueIsRecent
  <1>6. ASSUME NEW i \in 1..Len(times') PROVE times'[i] = Begun'[Len(Begun') - Len(times') + i]
    <2>1. CASE i = Len(times) - e + 1
      BY <2>1, <1>2, <1>3, <1>4
    <2>2. CASE i # Len(times) - e + 1
      <3>1. e \in Nat /\ i \in Nat /\ 1 <= i /\ i <= Len(times) - e
        BY <2>2, <1>1, <1>2, <1>3
      <3>5. i \in 1..(Len(times) - e) /\ e + i \in 1..Len(times)
        BY <3>1, <1>2
      <3>2. times'[i] = sent[Len(sent) - Len(times) + (e + i)]
        BY <3>5, <1>3, <1>5
      <3>3. Len(sent) - Len(times) + (e + i) \in 1..Len(sent)
        BY <3>5, <1>2, <1>5
      <3>4. Len(Begun') - Len(times') + i = Len(sent) - Len(times) + (e + i)
        BY <1>2, <1>3, <1>4, <3>1
      <3> QED BY <3>2, <3>3, <3>4, <1>4
    <2> QED BY <2>1, <2>2
  <1>7. ASSUME NEW i \in 1..(Len(Begun') - Len(times')) PROVE Begun'[i] + Hour <= clock'
    <2>1. i \in 1..(Len(sent) - Len(times) + e)
      BY <1>2, <1>3, <1>4
    <2>2. i \in 1..Len(sent) /\ Begun'[i] = sent[i]
      BY <2>1, <1>2, <1>4, <1>5
    <2>3. CASE i <= Len(sent) - Len(times)
      BY <2>2, <2>3, <1>2, <1>5
    <2>4. CASE i > Len(sent) - Len(times)
      <3>1. i - (Len(sent) - Len(times)) \in 1..e
        BY <2>1, <2>4, <1>2
      <3>2. times[i - (Len(sent) - Len(times))] = sent[i]
        <4>1. i - (Len(sent) - Len(times)) \in 1..Len(times)
          BY <3>1, <1>1, <1>2
        <4>2. Len(sent) - Len(times) + (i - (Len(sent) - Len(times))) = i
          BY <2>2, <1>2
        <4> QED BY <4>1, <4>2, <1>5
      <3> QED BY <3>1, <3>2, <2>2, <1>1
    <2> QED BY <2>3, <2>4, <1>2
  <1>8. Len(times') <= Len(Begun')
    BY <1>2, <1>3, <1>4, <1>5
  <1>9. QueueIsRecent'
    BY <1>6, <1>7, <1>8 DEF QueueIsRecent
  <1>10. Len(times') <= MaxPerHour /\ times' # <<>>
    <2>1. Len(times') <= MaxPerHour
      BY <1>1, <1>2, <1>3
    <2>2. Len(times') # 0
      BY <1>1, <1>2, <1>3
    <2> QED BY <2>1, <2>2
  <1> QED BY <1>3, <1>9, <1>10

\* The clock, the spacing, the login, the back-off and an answer leave the queue and the history
\* of queries alone.
LEMMA OtherPacerStep ==
    ASSUME PacerInv, PacerTypeOK',
           UNCHANGED <<times, sent>>, clock <= clock', attempt.pc # "send", attempt'.pc # "send",
           SleepsForOldest'
    PROVE  PacerInv'
  <1>1. /\ clock \in Nat /\ clock' \in Nat /\ Hour \in Nat
        /\ Len(times) \in Nat /\ Len(sent) \in Nat
        /\ \A i \in 1..Len(sent) : sent[i] \in Nat
    <2>1. clock' \in Nat
      BY PacerAssumption DEF PacerTypeOK
    <2> QED BY <2>1, PacerTypes DEF PacerInv
  <1>2. Begun = sent /\ Begun' = sent
    BY DEF Begun
  <1>3. InOrder'
    BY <1>1 DEF PacerInv, InOrder
  <1>4. QueueIsRecent'
    <2>1. ASSUME NEW i \in 1..(Len(sent) - Len(times)) PROVE sent[i] + Hour <= clock'
      <3>1. sent[i] + Hour <= clock /\ i \in 1..Len(sent)
        BY <1>1, <1>2 DEF PacerInv, QueueIsRecent
      <3> QED BY <3>1, <1>1
    <2> QED BY <1>2, <2>1 DEF PacerInv, QueueIsRecent
  <1> QED BY <1>3, <1>4 DEF PacerInv, PacedPerHour

\* The query goes out: one that is MaxPerHour before it is no longer in the queue.
LEMMA SendStep ==
    ASSUME PacerInv, Send
    PROVE  PacerInv'
  <1> DEFINE n == Len(sent)
             k == Len(times)
  <1>1. /\ clock \in Nat /\ Horizon \in Nat /\ Hour \in Nat /\ MaxPerHour \in Nat \ {0}
        /\ sent \in Seq(0..Horizon) /\ times \in Seq(0..Horizon)
        /\ n \in 0..(MaxPerHour + 1) /\ k \in 1..MaxPerHour
        /\ \A i \in 1..n : sent[i] \in Nat
    BY PacerTypes DEF PacerInv, Send
  <1>2. /\ UNCHANGED <<clock, times, last, login>>
        /\ attempt.pc = "send" /\ attempt' = [attempt EXCEPT !.pc = "answer"]
        /\ sent' = IF n > MaxPerHour THEN Append(Tail(sent), clock) ELSE Append(sent, clock)
    BY DEF Send
  <1>3. clock \in 0..Horizon
    BY DEF PacerInv, PacerTypeOK
  <1>4. /\ Begun = Append(sent, clock) /\ Begun' = sent'
        /\ Len(Begun) = n + 1
        /\ \A i \in 1..n : Begun[i] = sent[i]
        /\ Begun[n + 1] = clock
    BY <1>1, <1>2, <1>3 DEF PacerInv, PacerTypeOK, Begun
  <1>5. PICK cut \in {0, 1} :
             /\ sent' \in Seq(0..Horizon) /\ Len(sent') = n + 1 - cut
             /\ n + 1 - cut <= MaxPerHour + 1
             /\ cut = 1 => n = MaxPerHour + 1
             /\ \A i \in 1..(n + 1 - cut) : sent'[i] = Begun[i + cut]
    <2>1. CASE n > MaxPerHour
      <3>1. sent # <<>>
        BY <1>1, <2>1
      <3>2. /\ Tail(sent) \in Seq(0..Horizon) /\ Len(Tail(sent)) = n - 1
            /\ \A i \in 1..(n - 1) : Tail(sent)[i] = sent[i + 1]
        BY <1>1, <3>1, HeadTailProperties
      <3>3. /\ sent' \in Seq(0..Horizon) /\ Len(sent') = n
            /\ \A i \in 1..(n - 1) : sent'[i] = Tail(sent)[i]
            /\ sent'[n] = clock
        <4>1. sent' = Append(Tail(sent), clock) /\ (n - 1) + 1 = n
          BY <1>1, <1>2, <2>1
        <4> QED BY <4>1, <3>2, <1>3, AppendProperties
      <3>4. ASSUME NEW i \in 1..n PROVE sent'[i] = Begun[i + 1]
        <4>1. CASE i = n
          BY <4>1, <1>4, <3>3
        <4>2. CASE i # n
          <5>1. i \in 1..(n - 1) /\ i + 1 \in 1..n
            BY <4>2, <1>1
          <5> QED BY <5>1, <1>4, <3>2, <3>3
        <4> QED BY <4>1, <4>2
      <3>5. n + 1 - 1 = n /\ n = MaxPerHour + 1
        BY <1>1, <2>1
      <3> QED BY <3>3, <3>4, <3>5, <1>1
    <2>2. CASE ~(n > MaxPerHour)
      <3>1. sent' = Begun /\ n + 1 - 0 <= MaxPerHour + 1 /\ n + 1 - 0 = n + 1
        BY <1>1, <1>2, <1>4, <2>2
      <3>2. Begun \in Seq(0..Horizon)
        BY <1>1, <1>3, <1>4
      <3>3. \A i \in 1..(n + 1) : i + 0 = i
        BY <1>1
      <3> QED BY <3>1, <3>2, <3>3, <1>4
    <2> QED BY <2>1, <2>2
  <1>6. PacerTypeOK'
    BY <1>1, <1>2, <1>3, <1>5 DEF PacerInv, PacerTypeOK
  <1>7. /\ k <= n + 1
        /\ \A i \in 1..k : times[i] = Begun[n + 1 - k + i]
        /\ \A i \in 1..(n + 1 - k) : Begun[i] + Hour <= clock
    <2>1. Len(Begun) = n + 1 /\ QueueIsRecent
      BY <1>4 DEF PacerInv
    <2> QED BY ONLY <2>1 DEF QueueIsRecent
  <1>8. /\ \A i \in 1..(n + 1) : Begun[i] \in Nat /\ Begun[i] <= clock
        /\ \A i, j \in 1..(n + 1) : i <= j => Begun[i] <= Begun[j]
    BY <1>1, <1>4 DEF PacerInv, InOrder
  <1> HIDE DEF n, k
  <1>9. InOrder'
    <2>1. ASSUME NEW i \in 1..Len(sent')
          PROVE  i + cut \in 1..(n + 1) /\ sent'[i] = Begun[i + cut] /\ i \in Nat
      BY <1>1, <1>5
    <2>2. ASSUME NEW i \in 1..Len(sent') PROVE sent'[i] <= clock
      BY <2>1, <1>8
    <2>3. ASSUME NEW i \in 1..Len(sent'), NEW j \in 1..Len(sent'), i <= j
          PROVE  sent'[i] <= sent'[j]
      <3>1. i + cut <= j + cut
        BY <2>1, <2>3
      <3> QED BY <3>1, <2>1, <1>8
    <2> QED BY <2>2, <2>3, <1>2 DEF InOrder
  <1>10. QueueIsRecent'
    <2>1. k <= Len(sent')
      BY <1>1, <1>5, <1>7
    <2>2. ASSUME NEW i \in 1..k PROVE times[i] = sent'[Len(sent') - k + i]
      <3>1. Len(sent') - k + i \in 1..(n + 1 - cut) /\ Len(sent') - k + i + cut = n + 1 - k + i
        BY <1>1, <1>5, <2>1
      <3> QED BY <3>1, <1>5, <1>7
    <2>3. ASSUME NEW i \in 1..(Len(sent') - k) PROVE sent'[i] + Hour <= clock
      <3>1. i \in 1..(n + 1 - cut) /\ i + cut \in 1..(n + 1 - k)
        BY <1>1, <1>5, <2>1
      <3> QED BY <3>1, <1>5, <1>7
    <2> QED BY <1>2, <1>4, <2>1, <2>2, <2>3 DEF QueueIsRecent, k
  <1>11. PacedPerHour'
    <2> SUFFICES ASSUME Len(sent') > MaxPerHour
                 PROVE  sent'[Len(sent')] - sent'[Len(sent') - MaxPerHour] >= Hour
      BY DEF PacedPerHour
    <2>1. Len(sent') = MaxPerHour + 1 /\ n + 1 - cut = MaxPerHour + 1
      <3>1. /\ Len(sent') = n + 1 - cut /\ Len(sent') <= MaxPerHour + 1 /\ Len(sent') \in Nat
            /\ MaxPerHour \in Nat
        BY <1>1, <1>5, LenProperties
      <3>2. Len(sent') > MaxPerHour
        OBVIOUS
      <3> QED BY ONLY <3>1, <3>2
    <2>2. sent'[MaxPerHour + 1] = clock
      BY <1>1, <1>4, <1>5, <2>1 DEF n
    <2>3. 1 + cut \in 1..(n + 1 - k) /\ sent'[1] = Begun[1 + cut]
      BY <1>1, <1>5, <2>1
    <2>4. sent'[1] + Hour <= clock /\ sent'[1] \in Nat
      BY <2>3, <1>1, <1>7, <1>8
    <2>5. Len(sent') - MaxPerHour = 1
      BY <2>1, <1>1
    <2> QED BY <1>1, <2>1, <2>2, <2>4, <2>5
  <1>12. SleepsForOldest' /\ attempt'.pc # "send"
    BY <1>2 DEF PacerInv, PacerTypeOK, SleepsForOldest
  <1> QED BY <1>6, <1>9, <1>10, <1>11, <1>12 DEF PacerInv

Phases == {"idle", "login", "throttle", "pace", "waiting", "send", "answer", "backoff"}

\* Every step keeps the types of where the call is.
LEMMA AttemptType ==
    ASSUME PacerTypeOK, [PacerNext]_pacerVars
    PROVE  attempt' \in [pc: Phases, retries: 0..MaxRetries, wake: Nat]
  <1>1. attempt \in [pc: Phases, retries: 0..MaxRetries, wake: Nat]
    BY DEF PacerTypeOK, Phases
  <1>2. MaxRetries \in Nat /\ NotAsking \in [pc: Phases, retries: 0..MaxRetries, wake: Nat]
    BY PacerAssumption DEF NotAsking, Phases
  <1>3. \A pc \in Phases : [attempt EXCEPT !.pc = pc] \in [pc: Phases, retries: 0..MaxRetries, wake: Nat]
    BY <1>1
  <1>4. \A pc \in Phases, w \in Nat :
            [attempt EXCEPT !.pc = pc, !.wake = w] \in [pc: Phases, retries: 0..MaxRetries, wake: Nat]
    BY <1>1
  <1>5. /\ \A pc : Following(pc) \in Phases
        /\ {"login", "waiting", "answer", "backoff"} \subseteq Phases
    BY DEF Following, Phases
  <1>6. CASE Ask
    <2>1. \A pc \in Phases : [NotAsking EXCEPT !.pc = pc] \in [pc: Phases, retries: 0..MaxRetries, wake: Nat]
      BY <1>2
    <2>2. (IF login = "yes" THEN Following("login") ELSE "login") \in Phases
      BY <1>5
    <2> QED BY <1>6, <2>1, <2>2 DEF Ask
  <1>7. CASE Login
    BY <1>7, <1>2, <1>3, <1>5 DEF Login
  <1>8. CASE Throttle
    BY <1>8, <1>3, <1>5 DEF Throttle
  <1>9. CASE Acquire
    <2>1. CASE Len(Pruned) < MaxPerHour
      <3>1. attempt' = [attempt EXCEPT !.pc = Following("pace")]
        BY <1>9, <2>1 DEF Acquire
      <3> QED BY <3>1, <1>3, <1>5
    <2>2. CASE ~(Len(Pruned) < MaxPerHour)
      <3>1. Head(Pruned) + Hour \in Nat
        <4>1. Pruned \in Seq(0..Horizon) /\ Len(Pruned) \in Nat
          BY PrunedIsSuffix, PacerTypes
        <4>2. Pruned # <<>>
          BY <4>1, <2>2, PacerTypes
        <4>3. Head(Pruned) \in 0..Horizon
          BY <4>1, <4>2, HeadTailProperties
        <4> QED BY <4>3, PacerTypes
      <3>2. attempt' = [attempt EXCEPT !.pc = "waiting", !.wake = Head(Pruned) + Hour]
        BY <1>9, <2>2 DEF Acquire
      <3> QED BY <3>1, <3>2, <1>4, <1>5
    <2> QED BY <2>1, <2>2
  <1>10. CASE Awake
    <2>1. attempt' = [attempt EXCEPT !.pc = Following("pace"), !.wake = 0]
      BY <1>10 DEF Awake
    <2> QED BY <2>1, <1>4, <1>5
  <1>11. CASE Send
    BY <1>11, <1>3, <1>5 DEF Send
  <1>12. CASE Answered
    BY <1>12, <1>2 DEF Answered
  <1>13. CASE Retry
    <2>1. attempt.retries \in 0..MaxRetries /\ Backoff \in Nat /\ clock \in Nat
      BY <1>1, PacerAssumption, PacerTypes
    <2>2. 2 ^ attempt.retries \in Nat
      BY <2>1, PowerOfTwo
    <2>3. Backoff * 2 ^ attempt.retries \in Nat
      BY <2>1, <2>2
    <2>4. clock + Backoff * 2 ^ attempt.retries \in Nat
      BY <2>1, <2>3
    <2>5. attempt.retries < MaxRetries => attempt.retries + 1 \in 0..MaxRetries
      BY <2>1, <1>2
    <2> QED BY <1>13, <1>2, <1>5, <2>1, <2>4, <2>5 DEF Retry
  <1>14. CASE BackedOff
    BY <1>14, <1>4, <1>5 DEF BackedOff
  <1>15. CASE Tick \/ UNCHANGED pacerVars
    BY <1>15, <1>1 DEF Tick, pacerVars
  <1> QED
    BY <1>6, <1>7, <1>8, <1>9, <1>10, <1>11, <1>12, <1>13, <1>14, <1>15 DEF PacerNext

\* The inductive invariant holds at first and is kept by every step.
THEOREM PacerInductive ==
    ASSUME PacerInv, [PacerNext]_pacerVars
    PROVE  PacerInv'
  <1>1. attempt' \in [pc: Phases, retries: 0..MaxRetries, wake: Nat] /\ PacerTypeOK
    BY AttemptType DEF PacerInv
  <1>2. CASE Tick \/ Ask \/ Login \/ Throttle \/ Answered \/ Retry \/ BackedOff \/ UNCHANGED pacerVars
    <2>1. UNCHANGED <<times, sent>> /\ clock <= clock'
      BY <1>2, PacerTypes, <1>1 DEF Tick, Ask, Login, Throttle, Answered, Retry, BackedOff, pacerVars
    <2>2. PacerTypeOK'
      <3>1. clock' \in 0..Horizon
        BY <1>1, <1>2, PacerAssumption
           DEF PacerTypeOK, Tick, Ask, Login, Throttle, Answered, Retry, BackedOff, pacerVars
      <3>2. last' \in -1..Horizon
        <4>1. last \in -1..Horizon /\ clock \in -1..Horizon
          BY <1>1, PacerAssumption DEF PacerTypeOK
        <4>2. last' = last \/ last' = clock
          BY <1>2 DEF Tick, Ask, Login, Throttle, Answered, Retry, BackedOff, pacerVars
        <4> QED BY <4>1, <4>2
      <3>3. login' \in {"no", "yes", "refused"}
        <4>1. CASE Ask \/ Login
          BY <4>1, <1>1 DEF PacerTypeOK, Ask, Login
        <4>2. CASE Tick \/ Throttle \/ Answered \/ Retry \/ BackedOff \/ UNCHANGED pacerVars
          <5>1. login' = login
            BY <4>2 DEF Tick, Throttle, Answered, Retry, BackedOff, pacerVars
          <5> QED BY <5>1, <1>1 DEF PacerTypeOK
        <4> QED BY <1>2, <4>1, <4>2
      <3> QED BY <1>1, <2>1, <3>1, <3>2, <3>3 DEF PacerTypeOK, Phases
    <2>3. attempt' = attempt \/ attempt'.pc \notin {"waiting", "send"}
      <3>1. CASE Ask
        BY <3>1 DEF Ask, NotAsking, Following
      <3>2. CASE Login
        BY <3>2, <1>1 DEF Login, NotAsking, Following, PacerTypeOK
      <3>3. CASE Throttle
        BY <3>3 DEF Throttle, Following, PacerTypeOK
      <3>4. CASE Answered \/ Retry
        BY <3>4 DEF Answered, Retry, NotAsking
      <3>5. CASE BackedOff
        BY <3>5 DEF BackedOff, Following, PacerTypeOK
      <3> QED BY <1>2, <3>1, <3>2, <3>3, <3>4, <3>5 DEF Tick, pacerVars
    <2>4. attempt'.pc = "send" => UNCHANGED pacerVars
      BY <1>2, <2>3 DEF Tick, Ask, Login, Throttle, Answered, Retry, BackedOff
    <2>5. CASE UNCHANGED pacerVars
      BY <2>5 DEF pacerVars, PacerInv, PacerTypeOK, InOrder, QueueIsRecent, Begun,
                  SleepsForOldest, PacedPerHour
    <2>6. CASE attempt'.pc # "send" /\ attempt.pc # "send"
      BY <2>1, <2>2, <2>3, <2>6, OtherPacerStep DEF PacerInv, SleepsForOldest
    <2>7. attempt.pc = "send" => UNCHANGED pacerVars
      BY <1>2 DEF Tick, Ask, Login, Throttle, Answered, Retry, BackedOff
    <2> QED BY <2>4, <2>5, <2>6, <2>7
  <1>3. CASE Send
    BY <1>3, SendStep
  <1>4. ASSUME Acquire \/ Awake, Len(Pruned) < MaxPerHour
        PROVE  PacerInv'
    <2>1. /\ times' = Append(Pruned, clock) /\ attempt'.pc = "send"
          /\ attempt.pc \in {"pace", "waiting"}
          /\ UNCHANGED <<clock, last, login, sent>>
      BY <1>1, <1>4 DEF Acquire, Awake, Following
    <2>2. /\ times' \in Seq(0..Horizon) /\ Len(times') <= MaxPerHour
          /\ times' # <<>> /\ QueueIsRecent'
      BY <1>4, <2>1, TakeSlot
    <2> QED
      BY <1>1, <2>1, <2>2 DEF PacerInv, PacerTypeOK, Phases, InOrder, SleepsForOldest, PacedPerHour
  <1>5. CASE Awake
    <2>1. times # <<>> /\ attempt.wake = Head(times) + Hour /\ clock >= attempt.wake
      BY <1>5 DEF PacerInv, SleepsForOldest, Awake
    <2>2. PICK e \in 0..Len(times) : /\ e < Len(times) => times[e + 1] + Hour > clock
                                     /\ Len(Pruned) = Len(times) - e
      BY <1>1, PrunedIsSuffix
    <2>3. 1 <= Len(times) /\ times[1] + Hour <= clock
      BY <2>1, <1>1, PacerTypes
    <2>4. e # 0
      BY <2>2, <2>3, <1>1, PacerTypes
    <2>5. Len(Pruned) < MaxPerHour
      BY <2>2, <2>4, <1>1, PacerTypes
    <2> QED BY <1>4, <1>5, <2>5
  <1>6. CASE Acquire /\ ~(Len(Pruned) < MaxPerHour)
    <2>1. PICK e \in 0..Len(times) : /\ Pruned \in Seq(0..Horizon)
                                     /\ Len(Pruned) = Len(times) - e
                                     /\ \A i \in 1..Len(Pruned) : Pruned[i] = times[e + i]
      BY <1>1, PrunedIsSuffix
    <2>2. e = 0 /\ Len(Pruned) = Len(times) /\ times # <<>>
      BY <2>1, <1>1, <1>6, PacerTypes
    <2>3. Pruned = times
      BY <2>1, <2>2, <1>1, PacerTypes, SeqEqual
    <2>4. /\ times' = times /\ attempt'.pc = "waiting" /\ attempt'.wake = Head(times) + Hour
          /\ UNCHANGED <<clock, last, login, sent>> /\ attempt.pc = "pace"
      BY <1>6, <1>1, <2>3 DEF Acquire
    <2>5. PacerTypeOK'
      BY <1>1, <2>4 DEF PacerTypeOK, Phases
    <2> QED
      BY <2>2, <2>4, <2>5 DEF PacerInv, InOrder, QueueIsRecent, Begun, SleepsForOldest, PacedPerHour
  <1> QED BY <1>2, <1>3, <1>4, <1>5, <1>6 DEF PacerNext

\* Whatever the budget, the window, the spacing and the back-off: no more than MaxPerHour queries
\* are ever sent within an hour, retries included.
THEOREM PacedPerHourHolds == PacerSpec => []PacedPerHour
  <1>1. PacerInit => PacerInv
    BY PacerAssumption DEF PacerInit, PacerInv, PacerTypeOK, InOrder, QueueIsRecent, Begun,
       SleepsForOldest, PacedPerHour, NotAsking
  <1>2. PacerInv => PacedPerHour
    BY DEF PacerInv
  <1> QED BY <1>1, <1>2, PacerInductive, PTL DEF PacerSpec

\* The pacer's state has its types, for every value of the constants.
THEOREM PacerTypeCorrect == PacerSpec => []PacerTypeOK
  <1>1. PacerInit => PacerInv
    BY PacerAssumption DEF PacerInit, PacerInv, PacerTypeOK, InOrder, QueueIsRecent, Begun,
       SleepsForOldest, PacedPerHour, NotAsking
  <1>2. PacerInv => PacerTypeOK
    BY DEF PacerInv
  <1> QED BY <1>1, <1>2, PacerInductive, PTL DEF PacerSpec

-----------------------------------------------------------------------------
(* The checkpointed grid.                                                  *)

\* Of a window, the element sets of these ids and days are in hand.
LandedFor(window, ids, days, landed) == Sets(window, ids, days) \subseteq landed

\* The ids of the first n batches.
FirstBatches(ids, n) ==
    {i \in ids : Cardinality({j \in ids : j < i}) < BatchSize * n}

\* What holds of a run: its units are noted ones, its fleets are known, and in the middle of a unit
\* the batches before the current one have landed, or were left out by the service.
RunOK(q, landed, days, known) ==
    /\ q.units \subseteq known
    /\ q.seen \subseteq days
    /\ q.pc # "idle" => /\ q.plan \in [DOMAIN Operators -> SUBSET Nat]
                         /\ \A k \in DOMAIN Operators : IsFiniteSet(q.plan[k])
    /\ q.pc \in {"batch", "done"} => q.todo # {}
    /\ q.pc = "batch" =>
          /\ q.batch >= 1
          /\ LandedFor(Unit(q).window, FirstBatches(Ids(q), q.batch - 1), q.seen, landed)
    /\ q.pc = "done" => LandedFor(Unit(q).window, Ids(q), q.seen, landed)

\* Landed, or left out of an answer that asked for it.
InHand == elements \cup withheld

\* Whatever was ever noted as done is in hand, in the file or not.
OwedInHand == \A u \in DOMAIN owed : owed[u] \subseteq InHand

\* The inductive invariant.
BackfillInv ==
    /\ BackfillTypeOK
    /\ OwedInHand
    /\ \A p \in Backfills : RunOK(run[p], InHand, visible, DOMAIN owed)

\* The next unit of a run is one it still has to do.
LEMMA UpcomingIsTodo ==
    ASSUME NEW q, q.todo \subseteq (DOMAIN Operators) \X (Nat \X Nat), q.todo # {},
           DOMAIN Operators \subseteq Nat
    PROVE  Upcoming(q) \in q.todo
  <1> DEFINE Firsts == {n \in Nat : \E t \in q.todo : t[1] = n}
  <1>1. PICK n \in Firsts : \A m \in Firsts : n <= m
    <2>1. Firsts \subseteq Nat /\ Firsts # {}
      OBVIOUS
    <2> HIDE DEF Firsts
    <2> QED BY <2>1, LeastNat
  <1> DEFINE Days == {d \in Nat : \E t \in q.todo : t[1] = n /\ t[2][1] = d}
  <1>2. PICK d \in Days : \A e \in Days : d <= e
    <2>1. Days \subseteq Nat /\ Days # {}
      BY <1>1
    <2> HIDE DEF Days
    <2> QED BY <2>1, LeastNat
  <1>3. PICK t \in q.todo : t[1] = n /\ t[2][1] = d
    BY <1>2
  <1>4. ASSUME NEW o \in q.todo PROVE t[1] < o[1] \/ (t[1] = o[1] /\ t[2][1] <= o[2][1])
    <2>1. o[1] \in Nat /\ o[2][1] \in Nat /\ t[1] \in Nat
      OBVIOUS
    <2>2. n <= o[1]
      BY <2>1, <1>1
    <2>3. o[1] = n => d <= o[2][1]
      BY <2>1, <1>2
    <2> QED BY <2>1, <2>2, <2>3, <1>3
  <1> QED BY <1>3, <1>4 DEF Upcoming

\* The windows of a plan are of days.
LEMMA WindowsAreOfDays ==
    ASSUME NEW day \in Nat, NEW w \in Windows(day)
    PROVE  w \in Nat \X Nat
  <1> DEFINE After(d) == {m \in MonthStarts : m > d} \cup {day}
  <1>1. PICK d \in MonthStarts \cup {Since} : w = <<d, Min(After(d))>>
    BY DEF Windows
  <1>2. After(d) \subseteq Nat /\ day \in After(d) /\ d \in Nat
    BY BackfillAssumption
  <1> HIDE DEF After
  <1>3. \E x \in After(d) : \A y \in After(d) : x <= y
    BY <1>2, LeastNat
  <1>4. Min(After(d)) \in After(d) /\ \A y \in After(d) : Min(After(d)) <= y
    BY <1>3 DEF Min
  <1> QED BY <1>1, <1>2, <1>4

\* A fleet is finitely many payloads.
LEMMA FleetIsFinite ==
    ASSUME owned \subseteq Owned \cup Joining, NEW operator
    PROVE  Fleet(operator) \subseteq Nat /\ IsFiniteSet(Fleet(operator))
  <1> DEFINE S == {x \in owned : x[1] = operator \/ <<operator, x[1]>> \in Children}
             f == [o \in S |-> o[2]]
  <1>1. S \subseteq Owned \cup Joining
    OBVIOUS
  <1>2. IsFiniteSet(S)
    <2> HIDE DEF S
    <2> QED BY <1>1, BackfillAssumption, FS_Subset
  <1>3. Fleet(operator) = {f[o] : o \in S}
    BY DEF Fleet
  <1>4. DOMAIN f = S
    OBVIOUS
  <1>5. Fleet(operator) \subseteq Nat
    BY <1>1, BackfillAssumption DEF Fleet
  <1> HIDE DEF f, S
  <1> QED BY <1>2, <1>3, <1>4, <1>5, FiniteImage

\* Batch by batch, and all of the ids in the end.
LEMMA BatchesCover ==
    ASSUME NEW ids, ids \subseteq Nat, IsFiniteSet(ids), NEW n \in Nat
    PROVE  /\ FirstBatches(ids, 0) = {}
           /\ FirstBatches(ids, n + 1) = FirstBatches(ids, n) \cup Batch(ids, n + 1)
           /\ LET all == (Cardinality(ids) + BatchSize - 1) \div BatchSize
              IN  all \in Nat /\ FirstBatches(ids, all) = ids /\ (all = 0 => ids = {})
  <1> DEFINE all == (Cardinality(ids) + BatchSize - 1) \div BatchSize
             rank(i) == Cardinality({j \in ids : j < i})
  <1>1. BatchSize \in Nat \ {0}
    BY BackfillAssumption
  <1>2. Cardinality(ids) \in Nat
    BY FS_CardinalityType
  <1>3. \A i \in ids : rank(i) \in Nat /\ rank(i) < Cardinality(ids)
    BY RankBelow
  <1>4. all \in Nat /\ Cardinality(ids) <= BatchSize * all
    BY <1>1, <1>2, EnoughBatches
  <1> HIDE DEF rank
  <1>5. FirstBatches(ids, 0) = {}
    <2>1. BatchSize * 0 = 0
      BY <1>1
    <2>2. \A i \in ids : ~(rank(i) < BatchSize * 0)
      BY <2>1, <1>3
    <2> QED BY <2>2 DEF FirstBatches, rank
  <1>6. FirstBatches(ids, n + 1) = FirstBatches(ids, n) \cup Batch(ids, n + 1)
    <2>1. BatchSize * n \in Nat /\ BatchSize * (n + 1) = BatchSize * n + BatchSize /\ n + 1 - 1 = n
      BY <1>1, SMT
    <2>2. /\ FirstBatches(ids, n + 1) = {i \in ids : rank(i) < BatchSize * (n + 1)}
          /\ FirstBatches(ids, n) = {i \in ids : rank(i) < BatchSize * n}
          /\ Batch(ids, n + 1) =
                {i \in ids : rank(i) >= BatchSize * (n + 1 - 1) /\ rank(i) < BatchSize * (n + 1)}
      BY DEF FirstBatches, Batch, rank
    <2>3. ASSUME NEW i \in ids
          PROVE  rank(i) < BatchSize * (n + 1) <=>
                    \/ rank(i) < BatchSize * n
                    \/ rank(i) >= BatchSize * (n + 1 - 1) /\ rank(i) < BatchSize * (n + 1)
      <3>1. rank(i) \in Nat
        BY <1>3
      <3> DEFINE low == BatchSize * n
                 high == BatchSize * (n + 1)
      <3>2. low \in Nat /\ high = low + BatchSize /\ BatchSize * (n + 1 - 1) = low
        BY <2>1
      <3> HIDE DEF low, high
      <3>3. rank(i) < high <=> rank(i) < low \/ (rank(i) >= low /\ rank(i) < high)
        BY <1>1, <3>1, <3>2
      <3> QED BY <3>2, <3>3 DEF low, high
    <2> QED BY <2>2, <2>3
  <1>7. FirstBatches(ids, all) = ids
    <2>1. ASSUME NEW i \in ids PROVE rank(i) < BatchSize * all
      <3>1. BatchSize * all \in Int
        BY <1>1, <1>4
      <3> HIDE DEF all
      <3> QED BY <1>2, <1>3, <1>4, <3>1
    <2> QED BY <2>1 DEF FirstBatches, rank
  <1>8. all = 0 => ids = {}
    <2>1. BatchSize * 0 = 0
      BY <1>1
    <2>2. all = 0 => Cardinality(ids) = 0
      BY <1>2, <1>4, <2>1
    <2> QED BY <2>2, FS_EmptySet
  <1> QED BY <1>4, <1>5, <1>6, <1>7, <1>8

Keys == (DOMAIN Operators) \X (Nat \X Nat)

RunRecord(known, days) ==
    [pc: {"idle", "unit", "batch", "done"}, plan: {<<>>} \cup [DOMAIN Operators -> SUBSET Nat],
     units: SUBSET known, todo: SUBSET Keys, batch: Nat, seen: SUBSET days, stop: BOOLEAN]

\* More rows, more days published and more noted units do no harm to a run.
LEMMA RunStaysOK ==
    ASSUME NEW known, NEW days, NEW q \in RunRecord(known, days), NEW landed, RunOK(q, landed, days, known),
           NEW landed2, landed \subseteq landed2, NEW days2, days \subseteq days2,
           NEW known2, known \subseteq known2
    PROVE  RunOK(q, landed2, days2, known2)
  <1>1. \A w, ids, seen : LandedFor(w, ids, seen, landed) => LandedFor(w, ids, seen, landed2)
    BY DEF LandedFor
  <1> QED BY <1>1 DEF RunOK

\* A step of one run.
LEMMA OneRunStep ==
    ASSUME BackfillInv, NEW p \in Backfills, NEW r \in RunRecord(DOMAIN owed', visible),
           run' = [run EXCEPT ![p] = r], UNCHANGED <<today, visible, owned>>,
           InHand \subseteq InHand', DOMAIN owed \subseteq DOMAIN owed',
           OwedInHand', checkpoint' \subseteq DOMAIN owed',
           RunOK(r, InHand', visible, DOMAIN owed')
    PROVE  BackfillInv'
  <1>1. run \in [Backfills -> RunRecord(DOMAIN owed, visible)]
    BY DEF BackfillInv, BackfillTypeOK, RunRecord, Keys
  <1>2. RunRecord(DOMAIN owed, visible) \subseteq RunRecord(DOMAIN owed', visible)
    BY DEF RunRecord
  <1>3. run' \in [Backfills -> RunRecord(DOMAIN owed', visible)]
    BY <1>1, <1>2
  <1>4. ASSUME NEW o \in Backfills PROVE RunOK(run'[o], InHand', visible, DOMAIN owed')
    <2>1. CASE o = p
      BY <2>1, <1>1
    <2>2. CASE o # p
      <3>1. run'[o] = run[o] /\ run[o] \in RunRecord(DOMAIN owed, visible)
        BY <2>2, <1>1
      <3>2. RunOK(run[o], InHand, visible, DOMAIN owed)
        BY DEF BackfillInv
      <3>3. RunOK(run[o], InHand', visible, DOMAIN owed')
        BY ONLY <3>1, <3>2, RunStaysOK, InHand \subseteq InHand', DOMAIN owed \subseteq DOMAIN owed'
      <3> QED BY <3>1, <3>3
    <2> QED BY <2>1, <2>2
  <1>5. BackfillTypeOK'
    BY <1>3 DEF BackfillInv, BackfillTypeOK, RunRecord, Keys
  <1>6. \A o \in Backfills : RunOK(run'[o], InHand', visible', DOMAIN owed')
    BY <1>4
  <1> QED BY <1>5, <1>6 DEF BackfillInv

\* What the invariant says of a run that is in the middle of a unit.
LEMMA InUnit ==
    ASSUME BackfillInv, NEW p \in Backfills, run[p].pc \in {"batch", "done"}
    PROVE  /\ Upcoming(run[p]) \in run[p].todo
           /\ Unit(run[p]).window \in Nat \X Nat
           /\ Ids(run[p]) \subseteq Nat /\ IsFiniteSet(Ids(run[p]))
  <1>1. /\ run[p].todo \subseteq Keys /\ run[p].todo # {}
        /\ run[p].plan \in [DOMAIN Operators -> SUBSET Nat]
        /\ \A k \in DOMAIN Operators : IsFiniteSet(run[p].plan[k])
    BY DEF BackfillInv, BackfillTypeOK, RunOK, Keys
  <1>2. Upcoming(run[p]) \in run[p].todo
    BY <1>1, UpcomingIsTodo, BackfillAssumption DEF Keys
  <1>3. Unit(run[p]).window = Upcoming(run[p])[2] /\ Upcoming(run[p])[1] \in DOMAIN Operators
    BY <1>1, <1>2 DEF Unit, Keys
  <1> QED BY <1>1, <1>2, <1>3 DEF Ids, Keys

\* A run that stops, whatever it was doing.
LEMMA StoppedOK ==
    ASSUME NEW known, NEW landed, NEW days
    PROVE  Stopped \in RunRecord(known, days) /\ RunOK(Stopped, landed, days, known)
  BY DEF Stopped, RunRecord, RunOK

\* A run begins.
LEMMA BeginStep ==
    ASSUME BackfillInv, NEW p \in Backfills, NEW reset \in BOOLEAN, NEW until \in Nat, Begin(p, reset, until)
    PROVE  BackfillInv'
  <1> DEFINE units == IF reset THEN {} ELSE checkpoint
             plan == [i \in DOMAIN Operators |-> Fleet(Operators[i])]
             r == [Stopped EXCEPT !.pc = "unit", !.todo = Grid(until), !.units = units, !.plan = plan]
             known == DOMAIN owed
  <1>1. /\ run' = [run EXCEPT ![p] = r] /\ UNCHANGED <<today, visible, owned, elements, withheld, owed>>
        /\ checkpoint' = IF reset THEN {} ELSE checkpoint
    BY DEF Begin
  <1>2. /\ checkpoint \subseteq known /\ owned \subseteq Owned \cup Joining
    BY DEF BackfillInv, BackfillTypeOK
  <1>3. Grid(until) \subseteq Keys
    BY WindowsAreOfDays DEF Grid, Keys
  <1>4. /\ plan \in [DOMAIN Operators -> SUBSET Nat]
        /\ \A k \in DOMAIN Operators : IsFiniteSet(plan[k])
    BY <1>2, FleetIsFinite
  <1>5. units \subseteq known
    BY <1>2
  <1> HIDE DEF units, plan
  <1>6. Stopped \in RunRecord(known, visible) /\ Stopped.seen = {}
    BY StoppedOK DEF Stopped
  <1>9. r \in RunRecord(known, visible)
    BY <1>3, <1>4, <1>5, <1>6 DEF RunRecord
  <1>10. r.pc = "unit" /\ r.plan = plan /\ r.units = units /\ r.seen = {}
    BY <1>6 DEF RunRecord
  <1> HIDE DEF r
  <1>7. RunOK(r, InHand, visible, known)
    BY <1>4, <1>5, <1>10 DEF RunOK
  <1>8. OwedInHand' /\ checkpoint' \subseteq DOMAIN owed' /\ InHand' = InHand
    BY <1>1, <1>2 DEF BackfillInv, OwedInHand, InHand
  <1> QED BY <1>1, <1>7, <1>8, <1>9, OneRunStep

\* A unit is skipped, begun or done at once because its fleet is empty; or the run ends.
LEMMA NextUnitStep ==
    ASSUME BackfillInv, NEW p \in Backfills, NextUnit(p)
    PROVE  BackfillInv'
  <1> DEFINE q == run[p]
             known == DOMAIN owed
  <1>1. /\ q \in RunRecord(known, visible) /\ q.pc = "unit" /\ RunOK(q, InHand, visible, known)
        /\ checkpoint \subseteq known
    BY DEF BackfillInv, BackfillTypeOK, RunRecord, Keys, NextUnit
  <1>2. UNCHANGED <<today, visible, owned, elements, checkpoint, withheld, owed>>
    BY DEF NextUnit
  <1>3. OwedInHand' /\ checkpoint' \subseteq DOMAIN owed' /\ InHand' = InHand
    BY <1>1, <1>2 DEF BackfillInv, OwedInHand, InHand
  <1>4. SUFFICES ASSUME NEW r, run' = [run EXCEPT ![p] = r],
                        \/ r = Stopped
                        \/ r = [q EXCEPT !.todo = Beyond(q)]
                        \/ /\ q.todo # {}
                           /\ r = [q EXCEPT !.pc = IF Batches(q) = 0 THEN "done" ELSE "batch", !.batch = 1,
                                            !.seen = visible]
                 PROVE  r \in RunRecord(known, visible) /\ RunOK(r, InHand, visible, known)
    BY <1>2, <1>3, OneRunStep, Zenon DEF NextUnit
  <1>5. CASE r = Stopped
    BY <1>5, StoppedOK
  <1>6. CASE r = [q EXCEPT !.todo = Beyond(q)]
    <2>1. Beyond(q) \subseteq q.todo
      BY DEF Beyond
    <2> HIDE DEF q
    <2> QED BY <1>1, <1>6, <2>1 DEF RunRecord, RunOK
  <1>7. CASE /\ q.todo # {}
             /\ r = [q EXCEPT !.pc = IF Batches(q) = 0 THEN "done" ELSE "batch", !.batch = 1,
                              !.seen = visible]
    <2>1. /\ r.units = q.units /\ r.todo = q.todo /\ r.plan = q.plan /\ r.seen = visible /\ r.batch = 1
          /\ r.pc = IF Batches(q) = 0 THEN "done" ELSE "batch"
          /\ r \in RunRecord(known, visible)
      <3> HIDE DEF q
      <3> QED BY <1>1, <1>7 DEF RunRecord
    <2>2. Upcoming(r) = Upcoming(q) /\ Ids(r) = Ids(q) /\ Unit(r) = Unit(q)
      BY <2>1 DEF Upcoming, Ids, Unit
    <2>3. Upcoming(q) \in q.todo
      BY <1>1, <1>7, UpcomingIsTodo, BackfillAssumption DEF RunRecord, Keys
    <2>4. Ids(q) \subseteq Nat /\ IsFiniteSet(Ids(q))
      BY <1>1, <2>3 DEF Ids, RunRecord, RunOK, Keys
    <2>5. FirstBatches(Ids(q), 0) = {} /\ (Batches(q) = 0 => Ids(q) = {})
      BY <2>4, BatchesCover DEF Batches
    <2>6. \A w, seen : LandedFor(w, {}, seen, InHand)
      BY DEF LandedFor, Sets
    <2>7. /\ r.units \subseteq known /\ r.seen \subseteq visible
          /\ r.plan \in [DOMAIN Operators -> SUBSET Nat]
          /\ \A k \in DOMAIN Operators : IsFiniteSet(r.plan[k])
          /\ r.todo # {}
      <3> HIDE DEF q
      <3> QED BY <1>1, <1>7, <2>1 DEF RunOK
    <2> HIDE DEF q
    <2>8. CASE Batches(q) = 0
      BY <2>1, <2>2, <2>5, <2>6, <2>7, <2>8 DEF RunOK
    <2>9. CASE Batches(q) # 0
      <3>1. r.pc = "batch" /\ r.batch >= 1 /\ r.batch - 1 = 0
        BY <2>1, <2>9
      <3> QED BY <3>1, <2>1, <2>2, <2>5, <2>6, <2>7 DEF RunOK
    <2> QED BY <2>1, <2>8, <2>9
  <1> QED BY <1>4, <1>5, <1>6, <1>7

\* SIGINT, a failure or the death of a run.
LEMMA StopStep ==
    ASSUME BackfillInv, NEW p \in Backfills, Interrupt(p) \/ Fails(p) \/ Dies(p)
    PROVE  BackfillInv'
  <1> DEFINE q == run[p]
             known == DOMAIN owed
  <1>1. /\ q \in RunRecord(known, visible) /\ RunOK(q, InHand, visible, known)
        /\ q.units \subseteq known /\ checkpoint \subseteq known
    BY DEF BackfillInv, BackfillTypeOK, RunRecord, Keys
  <1>2. UNCHANGED <<today, visible, owned, elements, withheld, owed>> /\ checkpoint' \in {checkpoint, q.units}
    BY DEF Interrupt, Fails, Dies
  <1>3. OwedInHand' /\ checkpoint' \subseteq DOMAIN owed' /\ InHand' = InHand
    BY <1>1, <1>2 DEF BackfillInv, OwedInHand, InHand
  <1>4. CASE Interrupt(p)
    <2> DEFINE r == [q EXCEPT !.stop = TRUE]
    <2>1. run' = [run EXCEPT ![p] = r]
      BY <1>4 DEF Interrupt
    <2>2. r \in RunRecord(known, visible)
      BY <1>1 DEF RunRecord
    <2>3. /\ r.pc = q.pc /\ r.units = q.units /\ r.todo = q.todo /\ r.plan = q.plan /\ r.seen = q.seen
          /\ r.batch = q.batch
      BY <1>1 DEF RunRecord
    <2>4. Upcoming(r) = Upcoming(q) /\ Ids(r) = Ids(q) /\ Unit(r) = Unit(q)
      BY <2>3 DEF Upcoming, Ids, Unit
    <2> HIDE DEF r, q
    <2>5. RunOK(r, InHand, visible, known)
      BY <1>1, <2>3, <2>4 DEF RunOK
    <2> QED BY <1>2, <1>3, <2>1, <2>2, <2>5, OneRunStep DEF q
  <1>5. CASE Fails(p) \/ Dies(p)
    <2>1. run' = [run EXCEPT ![p] = Stopped]
      BY <1>5 DEF Fails, Dies
    <2> QED BY <1>2, <1>3, <2>1, StoppedOK, OneRunStep
  <1> QED BY <1>4, <1>5

\* A batch lands: with the ones before it, the ids so far; with the last one, all of them.
LEMMA LandBatchStep ==
    ASSUME BackfillInv, NEW p \in Backfills, LandBatch(p)
    PROVE  BackfillInv'
  <1> DEFINE q == run[p]
             known == DOMAIN owed
             window == Unit(q).window
             ends == (q.batch = Batches(q))
             r == [q EXCEPT !.batch = IF ends THEN 0 ELSE @ + 1,
                            !.pc = IF ends THEN "done" ELSE "batch"]
  <1>1. /\ q \in RunRecord(known, visible) /\ RunOK(q, InHand, visible, known) /\ q.pc = "batch"
        /\ checkpoint \subseteq known
    BY DEF BackfillInv, BackfillTypeOK, RunRecord, Keys, LandBatch
  <1>2. /\ UNCHANGED <<today, visible, owned, checkpoint, owed>>
        /\ run' = [run EXCEPT ![p] = IF q.stop THEN Stopped ELSE r]
        /\ Land(q)
    BY DEF LandBatch
  <1>3. InHand' = InHand \cup Queried(q)
    BY <1>2 DEF Land, InHand
  <1>4. OwedInHand' /\ checkpoint' \subseteq DOMAIN owed'
    BY <1>1, <1>2, <1>3 DEF BackfillInv, OwedInHand
  <1>5. CASE q.stop
    <2>1. run' = [run EXCEPT ![p] = Stopped] /\ InHand \subseteq InHand'
      BY <1>2, <1>3, <1>5
    <2>2. DOMAIN owed \subseteq DOMAIN owed'
      BY <1>2
    <2> HIDE DEF q, r
    <2> QED BY <1>2, <1>4, <2>1, <2>2, StoppedOK, OneRunStep
  <1>6. CASE ~q.stop
    <2>1. Ids(q) \subseteq Nat /\ IsFiniteSet(Ids(q)) /\ q.batch \in Nat /\ q.batch >= 1
      BY <1>1, InUnit DEF RunRecord, RunOK
    <2>2. /\ FirstBatches(Ids(q), q.batch) = FirstBatches(Ids(q), q.batch - 1) \cup Batch(Ids(q), q.batch)
          /\ FirstBatches(Ids(q), Batches(q)) = Ids(q)
      <3> DEFINE n == q.batch - 1
      <3>1. n \in Nat /\ n + 1 = q.batch
        BY <2>1
      <3> HIDE DEF n, q
      <3>2. FirstBatches(Ids(q), n + 1) = FirstBatches(Ids(q), n) \cup Batch(Ids(q), n + 1)
        BY <2>1, <3>1, BatchesCover
      <3>3. FirstBatches(Ids(q), Batches(q)) = Ids(q)
        BY <2>1, <3>1, BatchesCover DEF Batches
      <3> QED BY <3>1, <3>2, <3>3 DEF n
    <2>3. LandedFor(window, FirstBatches(Ids(q), q.batch), q.seen, InHand')
      <3>1. LandedFor(window, FirstBatches(Ids(q), q.batch - 1), q.seen, InHand) /\ q.seen \subseteq visible
        BY <1>1 DEF RunOK
      <3>2. Queried(q) = Sets(window, Batch(Ids(q), q.batch), visible)
        BY DEF Queried
      <3> HIDE DEF q, r, window
      <3> QED BY <3>1, <3>2, <1>3, <2>2 DEF LandedFor, Sets
    <2>4. /\ r.units = q.units /\ r.todo = q.todo /\ r.plan = q.plan /\ r.seen = q.seen
          /\ r.batch = (IF ends THEN 0 ELSE q.batch + 1)
          /\ r.pc = (IF ends THEN "done" ELSE "batch")
          /\ r \in RunRecord(known, visible)
      <3> DEFINE batch == IF ends THEN 0 ELSE q.batch + 1
                 pc == IF ends THEN "done" ELSE "batch"
      <3>1. batch \in Nat /\ pc \in {"idle", "unit", "batch", "done"}
        BY <2>1
      <3>2. r = [q EXCEPT !.batch = batch, !.pc = pc]
        OBVIOUS
      <3> HIDE DEF q, r, batch, pc
      <3>3. /\ r.units = q.units /\ r.todo = q.todo /\ r.plan = q.plan /\ r.seen = q.seen
            /\ r.batch = batch /\ r.pc = pc /\ r \in RunRecord(known, visible)
        BY <1>1, <3>1, <3>2 DEF RunRecord
      <3> QED BY <3>3 DEF batch, pc
    <2>5. Upcoming(r) = Upcoming(q) /\ Ids(r) = Ids(q) /\ Unit(r) = Unit(q)
      BY <2>4 DEF Upcoming, Ids, Unit
    <2>6. /\ r.units \subseteq known /\ r.seen \subseteq visible
          /\ r.plan \in [DOMAIN Operators -> SUBSET Nat]
          /\ \A k \in DOMAIN Operators : IsFiniteSet(r.plan[k])
          /\ r.todo # {}
      <3> HIDE DEF q, r
      <3> QED BY <1>1, <2>4 DEF RunOK
    <2> HIDE DEF q, r
    <2>7. ASSUME ends PROVE RunOK(r, InHand', visible, known)
      BY <2>2, <2>3, <2>4, <2>5, <2>6, <2>7 DEF RunOK
    <2>8. ASSUME ~ends PROVE RunOK(r, InHand', visible, known)
      <3>1. r.pc = "batch" /\ r.batch >= 1 /\ r.batch - 1 = q.batch
        BY <2>1, <2>4, <2>8
      <3> QED BY <2>3, <2>4, <2>5, <2>6, <3>1 DEF RunOK
    <2> HIDE DEF ends
    <2>9. RunOK(r, InHand', visible, DOMAIN owed')
      <3>1. UNCHANGED <<visible, owed>> /\ RunOK(r, InHand', visible, known)
        BY <1>2, <2>7, <2>8
      <3> QED BY <3>1
    <2>10. run' = [run EXCEPT ![p] = r] /\ InHand \subseteq InHand' /\ r \in RunRecord(DOMAIN owed', visible)
      BY <1>2, <1>3, <1>6, <2>4
    <2>11. DOMAIN owed \subseteq DOMAIN owed'
      BY <1>2
    <2> QED BY <1>2, <1>4, <2>9, <2>10, <2>11, OneRunStep
  <1> QED BY <1>5, <1>6

\* A complete unit is noted: what it was asked for is in hand.
LEMMA MarkDoneStep ==
    ASSUME BackfillInv, NEW p \in Backfills, MarkDone(p)
    PROVE  BackfillInv'
  <1> DEFINE q == run[p]
             u == Unit(q)
             known == DOMAIN owed
             due == Sets(u.window, Ids(q), q.seen)
             r == [q EXCEPT !.pc = "unit", !.units = @ \cup {u}, !.todo = Beyond(q), !.seen = {}]
  <1>1. /\ q \in RunRecord(known, visible) /\ RunOK(q, InHand, visible, known) /\ q.pc = "done"
        /\ checkpoint \subseteq known
    BY DEF BackfillInv, BackfillTypeOK, RunRecord, Keys, MarkDone
  <1>2. /\ UNCHANGED <<today, visible, owned, elements, withheld>> /\ run' = [run EXCEPT ![p] = r]
        /\ checkpoint' = q.units \cup {u}
        /\ owed' = [v \in known \cup {u} |->
                        IF v = u THEN due \cup IF u \in known THEN owed[u] ELSE {} ELSE owed[v]]
    BY DEF MarkDone
  <1>3. due \subseteq InHand
    BY <1>1 DEF RunOK, LandedFor
  <1>4. DOMAIN owed' = known \cup {u} /\ InHand' = InHand
    BY <1>2 DEF InHand
  <1>5. OwedInHand'
    <2>1. \A v \in known : owed[v] \subseteq InHand
      BY DEF BackfillInv, OwedInHand
    <2>2. ASSUME NEW v \in known \cup {u} PROVE owed'[v] \subseteq InHand
      <3> HIDE DEF u, q, known, due
      <3>1. CASE v = u
        <4>1. owed'[v] = due \cup IF u \in known THEN owed[u] ELSE {}
          BY <1>2, <3>1
        <4> QED BY <1>3, <2>1, <4>1
      <3>2. CASE v # u
        <4>1. owed'[v] = owed[v] /\ v \in known
          BY <1>2, <3>2
        <4> QED BY <2>1, <4>1
      <3> QED BY <3>1, <3>2
    <2> QED BY <1>4, <2>2 DEF OwedInHand
  <1>6. checkpoint' \subseteq DOMAIN owed'
    BY <1>1, <1>2, <1>4 DEF RunOK
  <1>7. Beyond(q) \subseteq q.todo
    BY DEF Beyond
  <1>8. /\ r.pc = "unit" /\ r.units = q.units \cup {u} /\ r.plan = q.plan /\ r.seen = {}
        /\ r \in RunRecord(DOMAIN owed', visible)
    <2> HIDE DEF q, u, known
    <2> QED BY <1>1, <1>4, <1>7 DEF RunRecord
  <1>9. RunOK(r, InHand', visible, DOMAIN owed')
    <2> HIDE DEF q, u, r, known
    <2> QED BY <1>1, <1>4, <1>8 DEF RunOK
  <1>10. run' = [run EXCEPT ![p] = r] /\ known \subseteq DOMAIN owed' /\ InHand \subseteq InHand'
    BY <1>2, <1>4
  <1> HIDE DEF r
  <1> QED BY <1>2, <1>5, <1>6, <1>8, <1>9, <1>10, OneRunStep

\* Days pass, element sets appear and satellites join: what the runs did stays done.
LEMMA WorldStep ==
    ASSUME BackfillInv,
           \/ DayPasses \/ (\E d \in Since..LastDay : Appear(d)) \/ (\E o \in Joining : Joins(o))
           \/ UNCHANGED backfillVars
    PROVE  BackfillInv'
  <1>1. /\ UNCHANGED <<run, elements, checkpoint, withheld, owed>>
        /\ today' \in Since..LastDay /\ owned' \subseteq Owned \cup Joining
        /\ visible \subseteq visible' /\ visible' \subseteq Since..today'
    <2>1. today \in Since..LastDay /\ owned \subseteq Owned \cup Joining /\ visible \subseteq Since..today
          /\ Since \in Nat /\ LastDay \in Nat
      BY BackfillAssumption DEF BackfillInv, BackfillTypeOK
    <2>2. CASE DayPasses
      <3>1. /\ UNCHANGED <<visible, owned, run, elements, checkpoint, withheld, owed>>
            /\ today' \in Since..LastDay /\ Since..today \subseteq Since..today'
        BY <2>1, <2>2 DEF DayPasses
      <3> QED BY <2>1, <3>1
    <2>3. CASE \E d \in Since..LastDay : Appear(d)
      <3>1. PICK d \in Since..LastDay : Appear(d)
        BY <2>3
      <3>2. /\ UNCHANGED <<today, owned, run, elements, checkpoint, withheld, owed>>
            /\ visible' = visible \cup {d} /\ d \in Since..today
        BY <2>1, <3>1 DEF Appear
      <3> QED BY <2>1, <3>2
    <2>4. CASE \E o \in Joining : Joins(o)
      BY <2>1, <2>4 DEF Joins
    <2>5. CASE UNCHANGED backfillVars
      BY <2>1, <2>5 DEF backfillVars
    <2> QED BY <2>2, <2>3, <2>4, <2>5
  <1>2. OwedInHand' /\ InHand' = InHand
    BY <1>1 DEF BackfillInv, OwedInHand, InHand
  <1>3. run \in [Backfills -> RunRecord(DOMAIN owed, visible)]
    BY DEF BackfillInv, BackfillTypeOK, RunRecord, Keys
  <1>4. RunRecord(DOMAIN owed, visible) \subseteq RunRecord(DOMAIN owed, visible')
    BY <1>1 DEF RunRecord
  <1>5. BackfillTypeOK'
    <2>1. run' \in [Backfills -> RunRecord(DOMAIN owed', visible')]
      BY <1>1, <1>3, <1>4
    <2> QED BY <1>1, <2>1 DEF BackfillInv, BackfillTypeOK, RunRecord, Keys
  <1>6. ASSUME NEW p \in Backfills PROVE RunOK(run[p], InHand, visible', DOMAIN owed)
    <2>1. run[p] \in RunRecord(DOMAIN owed, visible) /\ RunOK(run[p], InHand, visible, DOMAIN owed)
      BY <1>3 DEF BackfillInv
    <2> QED BY ONLY <1>1, <2>1, RunStaysOK
  <1> QED BY <1>1, <1>2, <1>5, <1>6 DEF BackfillInv

\* The inductive invariant holds at first and is kept by every step.
THEOREM BackfillInductive ==
    /\ BackfillInit => BackfillInv
    /\ BackfillInv /\ [BackfillNext]_backfillVars => BackfillInv'
  <1>1. ASSUME BackfillInit PROVE BackfillInv
    <2>1. run = [p \in Backfills |-> Stopped] /\ owed = <<>> /\ checkpoint = {}
          /\ owned = Owned /\ today = Since /\ visible = {Since}
      BY <1>1 DEF BackfillInit
    <2>2. \A p \in Backfills : Stopped \in RunRecord(DOMAIN owed, visible)
                              /\ RunOK(Stopped, InHand, visible, DOMAIN owed)
      BY StoppedOK
    <2>3. run \in [Backfills -> RunRecord(DOMAIN owed, visible)]
      BY <2>1, <2>2
    <2>4. BackfillTypeOK
      BY <2>1, <2>3, BackfillAssumption DEF BackfillTypeOK, RunRecord, Keys
    <2>5. OwedInHand
      BY <2>1 DEF OwedInHand
    <2> QED BY <2>1, <2>2, <2>4, <2>5 DEF BackfillInv
  <1>2. ASSUME BackfillInv, [BackfillNext]_backfillVars PROVE BackfillInv'
    <2>1. today \in Nat /\ {today} \cup Untils \subseteq Nat
      BY <1>2, BackfillAssumption DEF BackfillInv, BackfillTypeOK
    <2> QED BY <1>2, <2>1, BeginStep, NextUnitStep, StopStep, LandBatchStep, MarkDoneStep, WorldStep
            DEF BackfillNext
  <1> QED BY <1>1, <1>2

\* Whatever the fleets, the months, the windows' ends, the batch size and the number of runs, and
\* however they are stopped, fail, die or overlap: what the checkpoint file says is done was in
\* reach and has landed, or was left out by the service.
THEOREM SkippedIsLandedHolds == BackfillSpec => []SkippedIsLanded
  <1>1. BackfillInv => SkippedIsLanded
    BY DEF BackfillInv, BackfillTypeOK, OwedInHand, InHand, SkippedIsLanded
  <1> QED BY <1>1, BackfillInductive, PTL DEF BackfillSpec

\* The backfill's state has its types.
THEOREM BackfillTypeCorrect == BackfillSpec => []BackfillTypeOK
  <1>1. BackfillInv => BackfillTypeOK
    BY DEF BackfillInv
  <1> QED BY <1>1, BackfillInductive, PTL DEF BackfillSpec
=============================================================================

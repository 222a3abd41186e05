---------------------------- MODULE RequestPacer ----------------------------
(***************************************************************************)
(* The pacing of one Space-Track client: SpaceTrackClient._request of      *)
(* ingest/spacetrack_client.py with HourlyPacer.acquire of                 *)
(* scripts/backfill_gp_history.py as its pre_request hook.  Every attempt, *)
(* retries included, waits for the 3 s spacing, then for a slot of the     *)
(* trailing hour, and is sent.  Time is counted in ticks; a sleep lasts at *)
(* least as long as asked for.                                             *)
(***************************************************************************)
EXTENDS Integers, Sequences

CONSTANTS
    Hour,           \* WINDOW_S
    MinInterval,    \* MIN_REQUEST_INTERVAL_S
    MaxPerHour,     \* max_requests_per_hour
    Backoff,        \* BACKOFF_BASE_S
    MaxRetries,     \* MAX_RETRIES
    Horizon         \* bound: ticks

ASSUME PacerAssumption ==
    /\ Hour \in Nat /\ MinInterval \in Nat /\ Backoff \in Nat
    /\ MaxPerHour \in Nat \ {0} /\ MaxRetries \in Nat /\ Horizon \in Nat

VARIABLES
    clock,      \* time.monotonic()
    times,      \* HourlyPacer._times
    last,       \* _last_request_at, or -1
    login,      \* "no", "yes" or "refused": _logged_in, _login_error
    attempt,    \* where the call is: [pc, retries so far, wake: when its sleep ends]
    sent        \* history: when the last MaxPerHour + 1 queries were sent

pacerVars == <<clock, times, last, login, attempt, sent>>

NotAsking == [pc |-> "idle", retries |-> 0, wake |-> 0]

PacerInit ==
    /\ clock = 0
    /\ times = <<>>
    /\ last = -1
    /\ login = "no"
    /\ attempt = NotAsking
    /\ sent = <<>>

\* Nothing lies between a slot and the request that takes it.
Tick ==
    /\ clock < Horizon
    /\ attempt.pc # "send"
    /\ clock' = clock + 1
    /\ UNCHANGED <<times, last, login, attempt, sent>>

\* "Throttle first, then the external pacer".
Following(pc) == IF pc = "login" THEN "throttle" ELSE IF pc = "throttle" THEN "pace" ELSE "send"

\* gp_history, decay or query_ledgered asks for one batch; a refused login is not tried again.
Ask ==
    /\ attempt.pc = "idle"
    /\ login # "refused"
    /\ attempt' = [NotAsking EXCEPT !.pc = IF login = "yes" THEN Following("login") ELSE "login"]
    /\ UNCHANGED <<clock, times, last, login, sent>>

Spaced == last = -1 \/ clock - last >= MinInterval

\* The login is spaced like a query but takes no slot; it fails, is refused or is accepted.
Login ==
    /\ attempt.pc = "login"
    /\ Spaced
    /\ last' = clock
    /\ login' \in {"no", "yes", "refused"}
    /\ attempt' = IF login' = "yes" THEN [attempt EXCEPT !.pc = Following("login")] ELSE NotAsking
    /\ UNCHANGED <<clock, times, sent>>

Throttle ==
    /\ attempt.pc = "throttle"
    /\ Spaced
    /\ last' = clock
    /\ attempt' = [attempt EXCEPT !.pc = Following("throttle")]
    /\ UNCHANGED <<clock, times, login, sent>>

InTrailingHour(t) == t > clock - Hour

\* The queue without the requests at its head that have left the window.
Pruned ==
    LET expired == CHOOSE n \in 0..Len(times) :
                      /\ \A i \in 1..n : ~InTrailingHour(times[i])
                      /\ n < Len(times) => InTrailingHour(times[n + 1])
    IN  SubSeq(times, expired + 1, Len(times))

\* acquire: a slot is free, or it sleeps until the oldest request is an hour old.
Acquire ==
    /\ attempt.pc = "pace"
    /\ IF Len(Pruned) < MaxPerHour
       THEN /\ times' = Append(Pruned, clock)
            /\ attempt' = [attempt EXCEPT !.pc = Following("pace")]
       ELSE /\ times' = Pruned
            /\ attempt' = [attempt EXCEPT !.pc = "waiting", !.wake = Head(Pruned) + Hour]
    /\ UNCHANGED <<clock, last, login, sent>>

\* Awake, it prunes and takes the slot without counting again.
Awake ==
    /\ attempt.pc = "waiting"
    /\ clock >= attempt.wake
    /\ times' = Append(Pruned, clock)
    /\ attempt' = [attempt EXCEPT !.pc = Following("pace"), !.wake = 0]
    /\ UNCHANGED <<clock, last, login, sent>>

Send ==
    /\ attempt.pc = "send"
    /\ sent' = IF Len(sent) > MaxPerHour THEN Append(Tail(sent), clock) ELSE Append(sent, clock)
    /\ attempt' = [attempt EXCEPT !.pc = "answer"]
    /\ UNCHANGED <<clock, times, last, login>>

\* An answer, or an error that is not retried.
Answered ==
    /\ attempt.pc = "answer"
    /\ attempt' = NotAsking
    /\ UNCHANGED <<clock, times, last, login, sent>>

\* Faulty form: a slot per call, in which the request is sent again at once.
RetryInSlot ==
    /\ attempt.pc = "answer"
    /\ attempt' = IF attempt.retries >= MaxRetries THEN NotAsking
                  ELSE [attempt EXCEPT !.pc = "send", !.retries = @ + 1]
    /\ UNCHANGED <<clock, times, last, login, sent>>

\* A timeout, a lost connection, a 429, a 5xx or a 200 with a throttle stub: back off and try
\* again, or raise after MAX_RETRIES.
Retry ==
    /\ attempt.pc = "answer"
    /\ attempt' = IF attempt.retries >= MaxRetries THEN NotAsking
                  ELSE [pc |-> "backoff", retries |-> attempt.retries + 1,
                        wake |-> clock + Backoff * 2 ^ attempt.retries]
    /\ UNCHANGED <<clock, times, last, login, sent>>

BackedOff ==
    /\ attempt.pc = "backoff"
    /\ clock >= attempt.wake
    /\ attempt' = [attempt EXCEPT !.pc = Following("login"), !.wake = 0]
    /\ UNCHANGED <<clock, times, last, login, sent>>

PacerNext ==
    \/ Tick \/ Ask \/ Login \/ Throttle \/ Acquire \/ Awake
    \/ Send \/ Answered \/ Retry \/ BackedOff

PacerSpec == PacerInit /\ [][PacerNext]_pacerVars

-----------------------------------------------------------------------------
PacerTypeOK ==
    /\ clock \in 0..Horizon
    /\ times \in Seq(0..Horizon) /\ Len(times) <= MaxPerHour
    /\ last \in -1..Horizon
    /\ login \in {"no", "yes", "refused"}
    /\ attempt \in [pc: {"idle", "login", "throttle", "pace", "waiting", "send", "answer", "backoff"},
                    retries: 0..MaxRetries, wake: Nat]
    /\ sent \in Seq(0..Horizon) /\ Len(sent) <= MaxPerHour + 1

\* "never lets more than max_per_hour requests start within any trailing 3600s window": counted at
\* the service, over every query sent, retries included, however long the sleeps, the spacing and
\* the back-off between them are.
PacedPerHour ==
    Len(sent) > MaxPerHour => sent[Len(sent)] - sent[Len(sent) - MaxPerHour] >= Hour
=============================================================================

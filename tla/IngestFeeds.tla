---------------------------- MODULE IngestFeeds -----------------------------
(***************************************************************************)
(* The loaders of ingest/ as scripts/ingest_all.py runs them one after the *)
(* other on one connection, and as they are run by hand on another: each   *)
(* passes the freshness gate, opens a row of ingest_run, downloads, parses,*)
(* lands its rows and closes the row, and they differ in what they do with *)
(* a bad payload and in which of these steps a try block guards.           *)
(*                                                                         *)
(* What a payload holds is its kind; a loader's profile says what may      *)
(* become of each kind.  Copies of the payload saved on disk after the run *)
(* is closed are best effort and left out.                                 *)
(***************************************************************************)
EXTENDS Integers, Sequences

CONSTANTS
    Plans,      \* the sources ingest_all runs, in order: a few tried
    ByHand,     \* sources run by hand
    MaxRuns     \* bound: rows of ingest_run

Sources == {"satcat", "gcat", "gcat_orgs", "gp", "supgp", "ucs", "satnogs", "fcc_ssal", "ibfs",
            "backfill_ibfs", "sw", "decay"}

ASSUME FeedAssumption ==
    /\ MaxRuns \in Nat
    /\ Plans \subseteq Seq(Sources) \ {<<>>}
    /\ ByHand \subseteq Sources

VARIABLES
    runs,       \* ingest_run and its landed rows: sequence of [endpoint, status, rows]
    recent,     \* endpoints with an ok run within their interval
    loader,     \* [process -> where it is]
    tx          \* [process -> the transaction of its connection]

feedVars == <<runs, recent, loader, tx>>

FeedProcesses == {"ingest_all", "by_hand"}

\* One good; one well-formed but without rows; one that is not of the format; one whose columns
\* were renamed; and good ones with a malformed cell, a row longer than the header, a text the
\* driver refuses to send, a row without its key or another required value, a row twice.
Kinds == {"good", "empty", "broken", "renamed", "odd_cell", "ragged", "refused", "keyless", "blank",
          "twice"}

Clean == [state |-> "clean", run |-> 0]
Halted == [pc |-> "halted", plan |-> <<>>, parts |-> <<>>, run |-> 0, got |-> "none"]

\* A loader's part, one endpoint.  The kinds that raise while parsing (raise), that raise in the
\* middle of the inserts and leave the transaction open (midway), that a constraint refuses, which
\* aborts it (abort), that leave no rows (nothing), and leave none but look wrong (suspect); the
\* steps inside its try block; whether it asks the freshness gate and can be refused a download,
\* and whether its rows carry the id of the run.
Part(endpoint) ==
    [endpoint |-> endpoint, gated |-> TRUE, keyed |-> TRUE, guarded |-> {"fetch", "land"},
     raise |-> {}, midway |-> {"refused"}, abort |-> {}, nothing |-> {"empty"}, suspect |-> {}]

\* Cells that do not parse become NULL, but norad_cat_id is part of the primary key; the parser
\* runs outside the try block and does not survive a row longer than the header.
SatcatPart == [Part("satcat_bulk") EXCEPT !.raise = {"ragged", "broken"},
                                          !.abort = {"broken", "renamed", "keyless", "twice"}]

GcatSatcatPart == [Part("gcat_satcat") EXCEPT !.abort = {"broken", "renamed", "keyless", "twice"}]
GcatPsatcatPart == [GcatSatcatPart EXCEPT !.endpoint = "gcat_psatcat"]

\* Rows without a code are dropped and a code given twice is kept once.
GcatOrgsPart == [Part("gcat_orgs") EXCEPT !.nothing = {"empty", "broken", "renamed"}]

\* gp_elements knows no run.  Stub rows are skipped; a number that is none raises between two
\* inserts, and a missing mean motion or eccentricity is refused.
GpPart == [Part("gp_active") EXCEPT !.keyed = FALSE, !.guarded = {"fetch"}, !.raise = {"broken"},
               !.midway = {"odd_cell", "refused"}, !.abort = {"blank", "renamed"},
               !.nothing = {"empty", "renamed"}]

\* A page without a single badge has changed its structure; one without matches may be right.
SupgpPart == [Part("supgp_index") EXCEPT !.guarded = {"fetch"}, !.suspect = {"broken", "renamed"}]

\* A local file, keyed by a hash of name and COSPAR number.
UcsPart == [Part("local") EXCEPT !.gated = FALSE, !.guarded = {},
                                 !.abort = {"broken", "renamed", "twice"}]

\* A cell of the wrong type is refused by the driver or by the column.
SatnogsPart == [Part("transmitters") EXCEPT !.guarded = {"fetch", "parse", "land"},
                    !.raise = {"broken"}, !.midway = {"odd_cell", "refused"},
                    !.abort = {"renamed", "keyless", "odd_cell"}]

\* Without a header row that says 'call sign' nothing is read.
SsalPart == [Part("ssal") EXCEPT !.guarded = {"fetch", "parse", "land"},
                                 !.raise = {"broken", "renamed"}]

IbfsPart == [SsalPart EXCEPT !.endpoint = "ibfs"]

\* The newest saved dump is landed again under a run of its own, without asking the gate.
BackfillIbfsPart == [IbfsPart EXCEPT !.gated = FALSE]

\* An unknown header raises, outside the try block.
SwPart == [Part("space_weather") EXCEPT !.raise = {"broken", "renamed", "ragged"}]

\* Messages without a NORAD id are skipped.
DecayPart == [Part("decay") EXCEPT !.guarded = {"fetch", "parse", "land"},
                                   !.raise = {"broken", "odd_cell"}, !.nothing = {"empty", "renamed"}]

\* The parts a source runs, one after the other.
PartsOf(source) ==
    CASE source = "satcat" -> <<SatcatPart>>
      [] source = "gcat" -> <<GcatSatcatPart, GcatPsatcatPart>>
      [] source = "gcat_orgs" -> <<GcatOrgsPart>>
      [] source = "gp" -> <<GpPart>>
      [] source = "supgp" -> <<SupgpPart>>
      [] source = "ucs" -> <<UcsPart>>
      [] source = "satnogs" -> <<SatnogsPart>>
      [] source = "fcc_ssal" -> <<SsalPart>>
      [] source = "ibfs" -> <<IbfsPart>>
      [] source = "backfill_ibfs" -> <<BackfillIbfsPart>>
      [] source = "sw" -> <<SwPart>>
      [] source = "decay" -> <<DecayPart>>

\* What may become of a payload.
Outcomes(part, kind) ==
    LET said == {o \in {"raise", "midway", "abort", "nothing", "suspect"} : kind \in part[o]}
    IN  IF said = {} THEN {"all"} ELSE said

FeedInit ==
    /\ runs = <<>>
    /\ recent = {}
    /\ loader = [p \in FeedProcesses |-> Halted]
    /\ tx = [p \in FeedProcesses |-> Clean]

\* A commit on this connection makes what its open transaction has inserted permanent.
Committed(p) ==
    IF tx[p].state = "open" /\ runs[tx[p].run].rows # "elsewhere"
    THEN [runs EXCEPT ![tx[p].run].rows = "part"]
    ELSE runs

At(p, pc) == loader[p].pc = pc /\ loader[p].parts # <<>>
CurrentPart(p) == Head(loader[p].parts)
NextPart(q) == [q EXCEPT !.pc = "gate", !.parts = Tail(q.parts), !.run = 0, !.got = "none"]

\* The interval of an endpoint is over.
Ages(endpoint) ==
    /\ endpoint \in recent
    /\ recent' = recent \ {endpoint}
    /\ UNCHANGED <<runs, loader, tx>>

StartIngest(p, plan) ==
    /\ loader[p] = Halted
    /\ Len(runs) < MaxRuns
    /\ loader' = [loader EXCEPT ![p] = [Halted EXCEPT !.pc = "gate", !.plan = Tail(plan),
                                                      !.parts = PartsOf(Head(plan))]]
    /\ UNCHANGED <<runs, recent, tx>>

\* The source has run its parts: the next one, or the end of the process.
NextSource(p) ==
    LET q == loader[p] IN
    /\ q.pc = "gate" /\ q.parts = <<>>
    /\ loader' = [loader EXCEPT ![p] =
                     IF q.plan = <<>> THEN Halted
                     ELSE [q EXCEPT !.plan = Tail(q.plan), !.parts = PartsOf(Head(q.plan))]]
    /\ tx' = [tx EXCEPT ![p] = IF q.plan = <<>> THEN Clean ELSE @]
    /\ UNCHANGED <<runs, recent>>

\* fresh_within and start_run; its first query fails in an aborted transaction.
Gate(p) ==
    /\ At(p, "gate")
    /\ Len(runs) < MaxRuns
    /\ IF tx[p].state = "aborted"
       THEN /\ loader' = [loader EXCEPT ![p].pc = "raised"]
            /\ UNCHANGED <<runs, tx>>
       ELSE LET part == CurrentPart(p)
                skip == part.gated /\ part.endpoint \in recent
            IN  /\ runs' = Append(Committed(p),
                              [endpoint |-> part.endpoint, status |-> IF skip THEN "skipped_fresh" ELSE "open",
                               rows |-> IF part.keyed THEN "none" ELSE "elsewhere"])
                /\ tx' = [tx EXCEPT ![p] = Clean]
                /\ loader' = [loader EXCEPT ![p] =
                      IF skip THEN NextPart(@) ELSE [@ EXCEPT !.pc = "fetch", !.run = Len(runs) + 1]]
    /\ UNCHANGED recent

\* An exception in a step: a guarded one rolls back and closes the run as 'error' before it goes
\* up, another leaves the row open and the transaction as it is.
Raised(p, step, state) ==
    /\ loader' = [loader EXCEPT ![p].pc = "raised"]
    /\ IF step \in CurrentPart(p).guarded
       THEN /\ runs' = [runs EXCEPT ![loader[p].run].status = "error"]
            /\ tx' = [tx EXCEPT ![p] = Clean]
       ELSE /\ tx' = [tx EXCEPT ![p] = [state |-> state, run |-> loader[p].run]]
            /\ UNCHANGED runs

Download(p) ==
    /\ At(p, "fetch")
    /\ UNCHANGED recent
    /\ \/ CurrentPart(p).gated /\ Raised(p, "fetch", "clean")
       \/ \E kind \in Kinds : \E o \in Outcomes(CurrentPart(p), kind) :
             /\ loader' = [loader EXCEPT ![p].pc = "parse", ![p].got = o]
             /\ UNCHANGED <<runs, tx>>

Parse(p) ==
    /\ At(p, "parse")
    /\ UNCHANGED recent
    /\ IF loader[p].got = "raise" THEN Raised(p, "parse", "clean")
       ELSE loader' = [loader EXCEPT ![p].pc = "land"] /\ UNCHANGED <<runs, tx>>

\* All inserts, then the commit; or an exception before the commit.
LandRows(p) ==
    /\ At(p, "land")
    /\ UNCHANGED recent
    /\ CASE loader[p].got = "abort" -> Raised(p, "land", "aborted")
         [] loader[p].got = "midway" -> Raised(p, "land", "open")
         [] OTHER -> /\ runs' = [runs EXCEPT ![loader[p].run].rows =
                                    IF @ = "elsewhere" THEN @
                                    ELSE IF loader[p].got = "all" THEN "all" ELSE "nothing"]
                     /\ loader' = [loader EXCEPT ![p].pc = "finish"]
                     /\ UNCHANGED tx

FinishRun(p) ==
    LET part == CurrentPart(p)
        status == IF loader[p].got = "suspect" THEN "error" ELSE "ok"
    IN  /\ At(p, "finish")
        /\ runs' = [runs EXCEPT ![loader[p].run].status = status]
        /\ recent' = IF status = "ok" THEN recent \cup {part.endpoint} ELSE recent
        /\ loader' = [loader EXCEPT ![p] = NextPart(@)]
        /\ UNCHANGED tx

\* Faulty form: the next source goes on with the connection as it is.
GoOn(p) ==
    /\ loader[p].pc = "raised"
    /\ loader' = [loader EXCEPT ![p] = [Halted EXCEPT !.pc = "gate", !.plan = loader[p].plan]]
    /\ UNCHANGED <<runs, recent, tx>>

\* One source's failure does not stop the rest: ingest_all rolls back and goes on.
SurviveFailure(p) ==
    /\ loader[p].pc = "raised"
    /\ loader' = [loader EXCEPT ![p] = [Halted EXCEPT !.pc = "gate", !.plan = loader[p].plan]]
    /\ tx' = [tx EXCEPT ![p] = Clean]
    /\ UNCHANGED <<runs, recent>>

\* The process dies; the server rolls its transaction back.
Die(p) ==
    /\ loader[p] # Halted
    /\ loader' = [loader EXCEPT ![p] = Halted]
    /\ tx' = [tx EXCEPT ![p] = Clean]
    /\ UNCHANGED <<runs, recent>>

FeedNext ==
    \/ \E e \in recent : Ages(e)
    \/ \E plan \in Plans : StartIngest("ingest_all", plan)
    \/ \E s \in ByHand : StartIngest("by_hand", <<s>>)
    \/ \E p \in FeedProcesses :
          \/ NextSource(p) \/ Gate(p) \/ Download(p) \/ Parse(p) \/ LandRows(p)
          \/ FinishRun(p) \/ SurviveFailure(p) \/ Die(p)

FeedSpec == FeedInit /\ [][FeedNext]_feedVars

-----------------------------------------------------------------------------
\* Readers take the newest ok run for a whole snapshot: no run ever shows a part of its rows, an ok
\* run has landed, and a run closed as error or skipped shows none.  What threatens it is a commit
\* on a connection whose transaction an exception left open between two inserts: the start of the
\* next source's run after an unguarded loader (ucs, supgp), which only ingest_all's rollback
\* ("without a rollback every subsequent loader's first query would cascade-fail too") keeps from
\* publishing the rows that went before.  The rows of gp carry no run id and are nobody's snapshot.
RunsAreWhole ==
    \A i \in DOMAIN runs :
        /\ runs[i].rows # "part"
        /\ runs[i].status = "ok" => runs[i].rows \in {"all", "nothing", "elsewhere"}
        /\ runs[i].status \in {"error", "skipped_fresh"} => runs[i].rows # "all"
=============================================================================

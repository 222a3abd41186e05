---------------------------- MODULE FilingSpecs -----------------------------
(***************************************************************************)
(* From a pending FCC filing to the specifications served for it:          *)
(* scripts/fetch_filing_documents.py harvests which documents the portal   *)
(* lists for a filing, scripts/extract_filing_specs.py downloads those     *)
(* named like a Schedule S, records their hash (fcc_filing_blob), and      *)
(* stores what ScheduleS reads off their pages; api/routers/filings.py     *)
(* serves it.  Both jobs run weekly in the nightly refresh (--if-stale)    *)
(* and by hand.                                                            *)
(*                                                                         *)
(* An issue is the bytes of a document and so their sha256; a stored row   *)
(* is the index of a plane in an issue, for the row's values are those of  *)
(* the parse.  The pending set, the curated notes and the counts printed   *)
(* are left out.  Pacing and the single retry are inside one download.     *)
(***************************************************************************)
EXTENDS ScheduleS
LOCAL INSTANCE SequencesExt

CONSTANTS
    Doc,            \* attachments: <<filing, number>>, filings in file_number order
    SchedNamed,     \* documents whose name matches '%sched%' and '%.pdf'
    Linked,         \* filings whose applicant is linked to a cohort
    Issues,         \* [issue -> what was filed]: scalars, planes, bands, page length, kind,
                    \* and whether the database refuses what is read of it
    FirstServed,    \* what the gateway serves at first: functions from Doc, a few tried
    Later,          \* what it may serve later
    Runs,           \* processes: the nightly's run and a run by hand
    MaxReissues,    \* bound: changes at the gateway
    MaxByHand       \* bound: runs by hand, and runs that die

\* What the gateway may serve instead of an issue.
Failures == {"unposted", "http_error"}
Partial == {"truncated", "unreadable"}
Contents == Failures \cup Partial \cup DOMAIN Issues

ASSUME FilingAssumption ==
    /\ Doc \subseteq Nat \X Nat /\ SchedNamed \subseteq Doc
    /\ MaxReissues \in Nat /\ MaxByHand \in Nat
    /\ "nightly" \in Runs
    /\ FirstServed \subseteq [Doc -> Contents] /\ Later \subseteq Contents

\* A form has a number of satellites, four numbers per plane and some bands; pages have lines.
ASSUME IssuesAssumption ==
    \A issue \in DOMAIN Issues :
        LET filed == Issues[issue]
        IN  /\ filed.report \in BOOLEAN /\ filed.raises \in BOOLEAN /\ filed.satellites \in Nat
            /\ filed.planes \in Seq(Nat \X Nat \X Nat \X Nat)
            /\ filed.bands \in Seq([service : Seq(Nat) \ {<<>>}, freq_low_mhz : Nat,
                                    freq_high_mhz : Nat, direction : Nat])
            /\ filed.length \in Nat \ {0}

Home(d) == d[1]
Filing == {Home(d) : d \in Doc}

VARIABLES
    served,      \* [Doc -> a member of Failures or Partial, or an issue]
    inventory,   \* fcc_filing_document: the documents on record
    blob,        \* fcc_filing_blob: [Doc -> [status, sha]]
    spec,        \* fcc_spec_filing: [Filing -> [doc, sha]]
    rows,        \* fcc_spec_orbital, fcc_spec_band: [Doc -> [planes, bands: sequences of shas]]
    fresh,       \* [endpoint -> its newest ok run is within STALE_AFTER]
    extract,     \* [Runs -> the state of an extraction]
    reissues, byHand,
    overlapped,  \* history: two extractions have run at once
    missed       \* history: what the run that last conferred freshness left of the to-do list

filingVars == <<served, inventory, blob, spec, rows, fresh, extract, reissues, byHand,
                overlapped, missed>>

None == [doc |-> <<>>, sha |-> "none"]
Resting == [pc |-> "idle", scoped |-> FALSE, todo |-> {}, due |-> {}, doc |-> <<>>, got |-> "none"]

FilingInit ==
    /\ served \in FirstServed
    /\ inventory = {}
    /\ blob = [d \in Doc |-> [status |-> "none", sha |-> "none"]]
    /\ spec = [f \in Filing |-> None]
    /\ rows = [d \in Doc |-> [planes |-> <<>>, bands |-> <<>>]]
    /\ fresh = [e \in {"icfs_documents", "schedule_s_specs"} |-> FALSE]
    /\ extract = [r \in Runs |-> Resting]
    /\ reissues = 0 /\ byHand = 0
    /\ overlapped = FALSE
    /\ missed = {}

-----------------------------------------------------------------------------
(* The FCC's side: its filing tool lays a report out in pages of a fixed   *)
(* length, a plane's four values in order; the gateway serves a document   *)
(* or not, whole or not, and an applicant may file it anew.                *)

Of(k, v) == [label |-> k, value |-> v]

PlaneLines(p) == <<Of("inclination_deg", p[1]), Of("arg_perigee_deg", p[2]),
                   Of("apogee_km", p[3]), Of("perigee_km", p[4])>>

BandLines(b) ==
    [i \in DOMAIN b.service |-> Of("service", b.service[i])]
    \o <<Of("low", b.freq_low_mhz), Of("high", b.freq_high_mhz), Of("direction", b.direction)>>

BandTable(bands) ==
    <<Of("mode", 0)>> \o FlattenSeq([i \in DOMAIN bands |-> BandLines(bands[i])])

\* Only a report carries two of the anchors.
FormLines(filed) ==
    <<Of("omb", 0), Of(IF filed.report THEN "select orbit type" ELSE "prose", 0),
      Of("total_satellites", filed.satellites)>>
    \o FlattenSeq([i \in DOMAIN filed.planes |-> PlaneLines(filed.planes[i])])
    \o BandTable(filed.bands)

Paginate(lines, length) ==
    [n \in 1..((Len(lines) + length - 1) \div length) |->
        SubSeq(lines, length * (n - 1) + 1, Min({length * n, Len(lines)}))]

Pages == [issue \in DOMAIN Issues |-> Paginate(FormLines(Issues[issue]), Issues[issue].length)]

\* What process_one reads off the pages of an issue.
Parsed == [issue \in DOMAIN Issues |->
    [report |-> IsScheduleS(Pages[issue]), scalars |-> ParseScalars(Pages[issue]),
     planes |-> ParsePlanes(Pages[issue]), bands |-> ParseBands(Pages[issue])]]

\* And which of it is_validated.
ScalarsValid(issue) == ValidateFieldwise(Pages[issue], Parsed[issue].scalars)
PlaneValid(issue, i) == ValidateFieldwise(Pages[issue], Parsed[issue].planes[i])
BandValid(issue, i) == ValidateBand(Pages[issue], Parsed[issue].bands[i])

Change(d, content) ==
    /\ reissues < MaxReissues
    /\ served[d] # content
    /\ served' = [served EXCEPT ![d] = content]
    /\ reissues' = reissues + 1
    /\ UNCHANGED <<inventory, blob, spec, rows, fresh, extract, byHand, overlapped, missed>>

\* The newest ok run of an endpoint turns older than STALE_AFTER.
WeekPasses(e) ==
    /\ fresh[e]
    /\ fresh' = [fresh EXCEPT ![e] = FALSE]
    /\ UNCHANGED <<served, inventory, blob, spec, rows, extract, reissues, byHand, overlapped, missed>>

-----------------------------------------------------------------------------
(* The harvest. *)

\* Of the filings asked for some answer, the failures are skipped; the inventory commits at once
\* and nothing is deleted from it.  Any harvest is a run of the one endpoint.
Harvest(answered) ==
    /\ inventory' = inventory \cup {d \in Doc : Home(d) \in answered /\ served[d] # "unposted"}
    /\ fresh' = [fresh EXCEPT !["icfs_documents"] = TRUE]
    /\ UNCHANGED <<served, blob, spec, rows, extract, reissues, overlapped, missed>>

\* --if-stale, the linked filings.
HarvestNightly(answered) ==
    /\ ~fresh["icfs_documents"]
    /\ answered \subseteq Linked
    /\ Harvest(answered)
    /\ UNCHANGED byHand

\* --all or --file-number, whatever the ledger says.
HarvestByHand(asked, answered) ==
    /\ byHand < MaxByHand
    /\ asked \in {Filing} \cup {{f} : f \in Filing}
    /\ answered \subseteq asked
    /\ Harvest(answered)
    /\ byHand' = byHand + 1

-----------------------------------------------------------------------------
(* The extraction. *)

\* Faulty form: every document on record that is named like a Schedule S.
AllNamed == inventory \cap SchedNamed

\* Faulty form: documents that were never downloaded.
NeverTried == {d \in inventory \cap SchedNamed : blob[d].status = "none"}

\* Those of filings that have no specification yet.
Todo == {d \in inventory \cap SchedNamed : spec[Home(d)] = None}

\* The lists --file-number and --limit cut from the to-do list, in file_number order.
Cuts(todo) ==
    LET parts == {todo} \cup {{d \in todo : Home(d) = f} : f \in Filing}
    IN  UNION {{T \in SUBSET p : \A d \in T, e \in p \ T : Home(d) <= Home(e)} : p \in parts}

Start(r, todo, scoped) ==
    /\ extract[r] = Resting
    /\ extract' = [extract EXCEPT ![r] =
                      [Resting EXCEPT !.pc = "next", !.scoped = scoped, !.todo = todo, !.due = Todo]]
    /\ overlapped' = (overlapped \/ \E o \in Runs : extract[o] # Resting)
    /\ UNCHANGED <<served, inventory, blob, spec, rows, fresh, reissues, missed>>

ExtractNightly ==
    /\ ~fresh["schedule_s_specs"]
    /\ Start("nightly", Todo, FALSE)
    /\ UNCHANGED byHand

ExtractByHand(r) ==
    /\ r # "nightly"
    /\ byHand < MaxByHand
    /\ \/ Start(r, Todo, FALSE)
       \/ \E T \in Cuts(Todo) : Start(r, T, TRUE)
    /\ byHand' = byHand + 1

\* The next document of the list is downloaded.
Fetch(r) ==
    LET e == extract[r] IN
    /\ e.pc = "next"
    /\ \E d \in e.todo :
          /\ \A o \in e.todo : Home(d) <= Home(o)
          /\ extract' = [extract EXCEPT ![r] = [e EXCEPT !.pc = "fetched", !.doc = d,
                                                         !.todo = @ \ {d}, !.due = @ \ {d},
                                                         !.got = served[d]]]
    /\ UNCHANGED <<served, inventory, blob, spec, rows, fresh, reissues, byHand, overlapped, missed>>

\* The blob row commits.  A failure leaves the hash of an earlier download in it.
RecordBlob(r) ==
    LET e == extract[r]
        old == blob[e.doc]
        whole == e.got \in DOMAIN Issues
        status == IF whole THEN "ok"
                  ELSE IF e.got \in Failures THEN "http_error"
                  ELSE IF e.got = "truncated" THEN "truncated" ELSE "parse_error"
        sha == IF whole \/ (old.status = "none" /\ e.got \in Partial) THEN e.got ELSE old.sha
    IN  /\ e.pc = "fetched"
        /\ blob' = [blob EXCEPT ![e.doc] = [status |-> status, sha |-> sha]]
        /\ extract' = [extract EXCEPT ![r] =
              IF whole /\ Parsed[e.got].report THEN [e EXCEPT !.pc = "parsed"]
              ELSE [e EXCEPT !.pc = "next", !.doc = <<>>, !.got = "none"]]
        /\ UNCHANGED <<served, inventory, spec, rows, fresh, reissues, byHand, overlapped, missed>>

\* ON CONFLICT (file_number, sys_id, idx) DO NOTHING: only indexes not yet stored are added.
Inserted(old, parsed, sha) ==
    [i \in DOMAIN old \cup DOMAIN parsed |-> IF i \in DOMAIN old THEN old[i] ELSE sha]

\* The filing's row, its planes and its bands commit together.
SaveSpecs(r) ==
    LET e == extract[r]
        f == Home(e.doc)
    IN  /\ e.pc = "parsed" /\ ~Issues[e.got].raises
        /\ spec' = [spec EXCEPT ![f] = IF @ = None THEN [doc |-> e.doc, sha |-> e.got] ELSE @]
        /\ rows' = [rows EXCEPT
              ![e.doc].planes = Inserted(@, Parsed[e.got].planes, e.got),
              ![e.doc].bands = Inserted(@, Parsed[e.got].bands, e.got)]
        /\ extract' = [extract EXCEPT ![r] = [e EXCEPT !.pc = "next", !.doc = <<>>, !.got = "none"]]
        /\ UNCHANGED <<served, inventory, blob, fresh, reissues, byHand, overlapped, missed>>

\* The database refuses a row: the run ends with an error, and the document is on the next list too.
Raise(r) ==
    /\ extract[r].pc = "parsed" /\ Issues[extract[r].got].raises
    /\ extract' = [extract EXCEPT ![r] = Resting]
    /\ UNCHANGED <<served, inventory, blob, spec, rows, fresh, reissues, byHand, overlapped, missed>>

\* Faulty form: a scoped run is booked under the endpoint of the full sweep.
FinishAlways(r) ==
    /\ extract[r].pc = "next" /\ extract[r].todo = {}
    /\ fresh' = [fresh EXCEPT !["schedule_s_specs"] = TRUE]
    /\ missed' = extract[r].due
    /\ extract' = [extract EXCEPT ![r] = Resting]
    /\ UNCHANGED <<served, inventory, blob, spec, rows, reissues, byHand, overlapped>>

\* A scoped run is booked under schedule_s_specs_partial.
Finish(r) ==
    /\ extract[r].pc = "next" /\ extract[r].todo = {}
    /\ fresh' = [fresh EXCEPT !["schedule_s_specs"] = @ \/ ~extract[r].scoped]
    /\ missed' = IF extract[r].scoped THEN missed ELSE extract[r].due
    /\ extract' = [extract EXCEPT ![r] = Resting]
    /\ UNCHANGED <<served, inventory, blob, spec, rows, reissues, byHand, overlapped>>

\* A run dies, or the database fails it: what has committed stays.
Stop(r) ==
    /\ byHand < MaxByHand
    /\ extract[r] # Resting
    /\ extract' = [extract EXCEPT ![r] = Resting]
    /\ byHand' = byHand + 1
    /\ UNCHANGED <<served, inventory, blob, spec, rows, fresh, reissues, overlapped, missed>>

FilingNext ==
    \/ \E d \in Doc, c \in Later : Change(d, c)
    \/ \E e \in DOMAIN fresh : WeekPasses(e)
    \/ \E A \in SUBSET Linked : HarvestNightly(A)
    \/ \E Q, A \in SUBSET Filing : HarvestByHand(Q, A)
    \/ ExtractNightly
    \/ \E r \in Runs : ExtractByHand(r) \/ Fetch(r) \/ RecordBlob(r) \/ SaveSpecs(r)
                       \/ Raise(r) \/ Finish(r) \/ Stop(r)

NightlyStep == \/ Fetch("nightly") \/ RecordBlob("nightly") \/ SaveSpecs("nightly")
               \/ Raise("nightly") \/ Finish("nightly")

\* Weeks pass and the nightly runs; the portal does not refuse a filing for ever.
FilingFairness ==
    /\ \A e \in {"icfs_documents", "schedule_s_specs"} : WF_filingVars(WeekPasses(e))
    /\ \A f \in Linked : SF_filingVars(\E A \in SUBSET Linked : f \in A /\ HarvestNightly(A))
    /\ WF_filingVars(ExtractNightly)
    /\ WF_filingVars(NightlyStep)

FilingSpec == FilingInit /\ [][FilingNext]_filingVars /\ FilingFairness

-----------------------------------------------------------------------------
(* What GET /api/filings/{file_number}/spec answers: the summary, if it    *)
(* passed validation, and the rows of its own document that did.           *)

ServedScalars(f) == IF ScalarsValid(spec[f].sha) THEN Parsed[spec[f].sha].scalars ELSE <<>>

ServedPlanes(f) ==
    LET stored == rows[spec[f].doc].planes
        row == [i \in DOMAIN stored |-> Parsed[stored[i]].planes[i]]
    IN  IF ScalarsValid(spec[f].sha)
        THEN Kept(row, {i \in DOMAIN stored : PlaneValid(stored[i], i)}) ELSE <<>>

ServedBands(f) ==
    LET stored == rows[spec[f].doc].bands
        row == [i \in DOMAIN stored |-> Parsed[stored[i]].bands[i]]
    IN  IF ScalarsValid(spec[f].sha)
        THEN Kept(row, {i \in DOMAIN stored : BandValid(stored[i], i)}) ELSE <<>>

-----------------------------------------------------------------------------
\* The states of an extraction.
Extractions ==
    [pc : {"idle", "next", "fetched", "parsed"}, scoped : BOOLEAN, todo : SUBSET SchedNamed,
     due : SUBSET SchedNamed, doc : SchedNamed \cup {<<>>}, got : {"none"} \cup Contents]

FilingTypeOK ==
    /\ served \in [Doc -> Contents]
    /\ inventory \subseteq Doc
    /\ blob \in [Doc -> [status : {"none", "ok", "http_error", "truncated", "parse_error"},
                         sha : {"none"} \cup Partial \cup DOMAIN Issues]]
    /\ spec \in [Filing -> {None} \cup [doc : SchedNamed, sha : DOMAIN Issues]]
    /\ rows = [d \in Doc |-> [planes |-> rows[d].planes, bands |-> rows[d].bands]]
    /\ fresh \in [{"icfs_documents", "schedule_s_specs"} -> BOOLEAN]
    /\ extract \in [Runs -> Extractions]
    /\ overlapped \in BOOLEAN

Extracted == {f \in Filing : spec[f] # None}

\* "every document is recorded with its sha256 ... and the parser only ever sees text derived from
\* a blob we have hashed" (ingest/filing_blobs.py): the summary served for a filing, every plane
\* and every band come from one issue, and it is the one whose hash the blob row shows, however
\* often the FCC reissues the document, runs die or documents fail.  Only two extractions at once
\* can break it.
OneReceipt ==
    ~overlapped =>
        \A f \in Extracted :
            /\ blob[spec[f].doc] = [status |-> "ok", sha |-> spec[f].sha]
            /\ \A i \in DOMAIN rows[spec[f].doc].planes :
                  rows[spec[f].doc].planes[i] = spec[f].sha
            /\ \A i \in DOMAIN rows[spec[f].doc].bands :
                  rows[spec[f].doc].bands[i] = spec[f].sha

\* The page a line of the form stands on, and the line on which a band ends.
PageOf(filed, i) == (i + filed.length - 1) \div filed.length
BandEnd(filed, k) == 4 + 4 * Len(filed.planes)
                     + Len(FlattenSeq([i \in 1..k |-> BandLines(filed.bands[i])]))

\* The bands with no page break behind the last line of their service label, and of these the ones
\* with a label in two lines and none between them either.
Unbroken(filed) ==
    {k \in DOMAIN filed.bands :
        PageOf(filed, BandEnd(filed, k) - 3) = PageOf(filed, BandEnd(filed, k))}
Wrapped(filed) ==
    {k \in Unbroken(filed) :
        /\ Len(filed.bands[k].service) = 2
        /\ PageOf(filed, BandEnd(filed, k) - 4) = PageOf(filed, BandEnd(filed, k) - 3)}

BandAsFiled(b, filed, k) ==
    LET c == filed.bands[k]
    IN  /\ b.freq_low_mhz = c.freq_low_mhz /\ b.freq_high_mhz = c.freq_high_mhz
        /\ b.direction = c.direction
        /\ b.service[Len(b.service)] = c.service[Len(c.service)]
        /\ k \in Wrapped(filed) => b.service = c.service

\* What is served for a filing is what was filed in the issue it cites: no letter passes for a
\* report, wherever the page breaks fall no plane is lost, split or dropped by the validator and no
\* value moves to another plane; of the bands those are served that no page break splits, in their
\* order, each with its own frequencies and direction and the end of its own service label, the
\* whole of it if it was wrapped once.  A band that a page break splits is lost, or its label cut.
ServedAsFiled ==
    ~overlapped =>
        \A f \in Extracted :
            LET filed == Issues[spec[f].sha]
                planes == ServedPlanes(f)
                bands == ServedBands(f)
                unbroken == Kept([k \in DOMAIN filed.bands |-> k], Unbroken(filed))
                Values(p) == <<p.inclination_deg.value, p.arg_perigee_deg.value,
                               p.apogee_km.value, p.perigee_km.value>>
            IN  /\ filed.report
                /\ ServedScalars(f).total_satellites.value = filed.satellites
                /\ [i \in DOMAIN planes |-> Values(planes[i])] = filed.planes
                /\ DOMAIN bands = DOMAIN unbroken
                /\ \A i \in DOMAIN bands : BandAsFiled(bands[i], filed, unbroken[i])

\* "A targeted or capped run must not satisfy the nightly's weekly freshness gate": while the gate
\* is closed, the run that closed it left nothing of its to-do list untried.
ClosedGateMeansFullSweep == fresh["schedule_s_specs"] => missed = {}

\* A linked filing whose Schedule S the gateway serves whole from some time on gets its
\* specification, unless a document that the database refuses is served for it or for a filing
\* before it on the list: no freshness gate, failed download or dead run starves it.
EventuallyExtracted ==
    \A f \in Linked :
        LET Whole(d) == served[d] \in DOMAIN Issues
        IN  <>[](/\ \E d \in SchedNamed : Home(d) = f /\ Whole(d) /\ Issues[served[d]].report
                 /\ \A d \in SchedNamed : Home(d) <= f /\ Whole(d) => ~Issues[served[d]].raises)
            => <>(spec[f] # None)
=============================================================================

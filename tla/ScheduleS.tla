----------------------------- MODULE ScheduleS ------------------------------
(***************************************************************************)
(* ingest/schedule_s.py and ingest/spec_validate.py: what is read off the  *)
(* pages of a Schedule S Tech Report, and the independent check that every *)
(* cited page carries the value cited to it.  A page is a sequence of      *)
(* lines [label, value]; the regular expressions are abstracted to the     *)
(* label they recognise, a value to the token on the page.                 *)
(***************************************************************************)
EXTENDS Integers, Sequences, FiniteSets
LOCAL INSTANCE SequencesExt

ANCHORS == {"omb", "312 file number", "select orbit type"}
SCALARS == {"orbit_type", "network_name", "lifetime_years", "total_satellites"}
ORBIT_FIELDS == {"inclination_deg", "arg_perigee_deg", "apogee_km", "perigee_km"}
\* The lines of the frequency table, one cell each: its head, and of every band a service label in
\* one line or more, two frequencies and a direction.
BAND_LABELS == {"mode", "service", "low", "high", "direction"}
\* Those without a digit.
LETTERS == {"mode", "service", "direction"}

\* The elements of s at the positions in I, in their order.
Kept(s, I) ==
    [n \in 1..Cardinality(I) |-> s[CHOOSE i \in I : Cardinality({j \in I : j <= i}) = n]]

Lines(pages) ==
    FlattenSeq([n \in DOMAIN pages |->
        [i \in DOMAIN pages[n] |-> [page |-> n, label |-> pages[n][i].label,
                                    value |-> pages[n][i].value]]])

\* Two of the three anchors on the first three pages.
IsScheduleS(pages) ==
    LET head == UNION {{pages[n][i].label : i \in DOMAIN pages[n]} : n \in DOMAIN pages \cap 1..3}
    IN  Cardinality(head \cap ANCHORS) >= 2

\* The first line that carries the label; a scalar that is not found is absent.
ParseScalars(pages) ==
    LET lines == Lines(pages)
        At(k) == {i \in DOMAIN lines : lines[i].label = k}
    IN  [k \in {s \in SCALARS : At(s) # {}} |->
            LET i == CHOOSE j \in At(k) : \A h \in At(k) : j <= h
            IN  [value |-> lines[i].value, page |-> lines[i].page]]

NoPlane == <<>>

\* Faulty form: every value of a plane cites the page the plane begins on.
PlaneWithRowPage(plane, line) ==
    LET page == IF plane = NoPlane THEN line.page
                ELSE plane[CHOOSE k \in DOMAIN plane : TRUE].page
    IN  [k \in DOMAIN plane \cup {line.label} |->
            IF k = line.label THEN [value |-> line.value, page |-> page] ELSE plane[k]]

\* Each value keeps its own page.
PlaneWith(plane, line) ==
    [k \in DOMAIN plane \cup {line.label} |->
        IF k = line.label THEN [value |-> line.value, page |-> line.page] ELSE plane[k]]

\* A plane closes when a field repeats.
ReadLine(acc, line) ==
    IF line.label \notin ORBIT_FIELDS THEN acc
    ELSE IF line.label \in DOMAIN acc.current
         THEN [done |-> Append(acc.done, acc.current), current |-> PlaneWith(NoPlane, line)]
         ELSE [done |-> acc.done, current |-> PlaneWith(acc.current, line)]

\* What has been read after each line; the last plane counts if it has an apogee or an inclination.
ParsePlanes(pages) ==
    LET lines == Lines(pages)
        read[n \in 0..Len(lines)] == IF n = 0 THEN [done |-> <<>>, current |-> NoPlane]
                                     ELSE ReadLine(read[n - 1], lines[n])
        end == read[Len(lines)]
    IN  IF DOMAIN end.current \cap {"apogee_km", "inclination_deg"} = {} THEN end.done
        ELSE Append(end.done, end.current)

\* The expression is matched page by page: the last line of a band's service label, if the rest of
\* the band follows on the same page.
BandMatches(lines) ==
    {i \in DOMAIN lines :
        /\ i + 3 \in DOMAIN lines /\ lines[i].page = lines[i + 3].page
        /\ lines[i].label = "service" /\ lines[i + 1].label = "low"
        /\ lines[i + 2].label = "high" /\ lines[i + 3].label = "direction"}

\* It takes in one more line without a digit before it, unless that ended the match before.
MatchedService(lines, i) ==
    IF /\ i > 1 /\ lines[i - 1].label \in LETTERS /\ lines[i - 1].page = lines[i].page
       /\ i - 4 \notin BandMatches(lines)
    THEN <<lines[i - 1].value, lines[i].value>>
    ELSE <<lines[i].value>>

\* One row per band, in document order, with the page it stands on.
ParseBands(pages) ==
    LET lines == Lines(pages)
        row == [i \in BandMatches(lines) |->
                   [service |-> MatchedService(lines, i), freq_low_mhz |-> lines[i + 1].value,
                    freq_high_mhz |-> lines[i + 2].value, direction |-> lines[i + 3].value,
                    source_page |-> lines[i].page]]
    IN  Kept(row, BandMatches(lines))

PageSupports(pages, cited) ==
    /\ cited.page \in DOMAIN pages
    /\ \E i \in DOMAIN pages[cited.page] : pages[cited.page][i].value = cited.value

\* Every value against its own page, and at least one value.
ValidateFieldwise(pages, row) ==
    DOMAIN row # {} /\ \A k \in DOMAIN row : PageSupports(pages, row[k])

\* The tokens follow each other on the page.
Stand(page, tokens) ==
    \E i \in 0..(Len(page) - Len(tokens)) : \A n \in DOMAIN tokens : page[i + n].value = tokens[n]

\* A band's values against the row's page.
ValidateBand(pages, band) ==
    /\ band.source_page \in DOMAIN pages
    /\ Stand(pages[band.source_page], band.service)
    /\ \A k \in {"freq_low_mhz", "freq_high_mhz", "direction"} :
          Stand(pages[band.source_page], <<band[k]>>)
=============================================================================

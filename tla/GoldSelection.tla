--------------------------- MODULE GoldSelection ----------------------------
(***************************************************************************)
(* Which cases scripts/build_gold_queue.py selects from an identity graph. *)
(* A graph maps satellite ids to records; a case is a stratum, a subject   *)
(* reference that survives re-runs, and the satellite it points at.  The   *)
(* question, the system's answer and the evidence are presentation of the  *)
(* same rows and left out.  0 stands for NULL, claims are those of         *)
(* v_current_claim after its tie-breaker, owners are operator ids.         *)
(***************************************************************************)
EXTENDS Integers, FiniteSets

CONSTANTS
    Similarity,      \* [name -> [name -> percent]]: the ratio of two normalised names
    Threshold,       \* MISSED_JOIN_SIM_THRESHOLD
    LaunchWindow,    \* MISSED_JOIN_LAUNCH_WINDOW_DAYS
    Commercial,      \* operators of class 'commercial'
    Acquisitions,    \* <<child, parent>> of operator_relationship
    Target           \* [stratum -> cases at most] for the sampled strata

NoSat == 0
Strata == {"ambiguous_cospar", "rideshare_orphan", "missed_join_candidate", "owner_dispute",
           "status_conflict", "decay_conflict", "type_conflict", "stale_owner"}

ASSUME SelectionAssumption ==
    Target \in [Strata -> Nat] /\ Acquisitions \subseteq Nat \X Nat /\ IsFiniteSet(Acquisitions)

\* The tables hold finitely many rows; ids, numbers and dates are natural numbers, 0 for NULL.
GraphRows(g) ==
    /\ IsFiniteSet(DOMAIN g) /\ DOMAIN g \subseteq Nat
    /\ \A s \in DOMAIN g : g[s].norad \in Nat /\ g[s].launch \in Nat /\ IsFiniteSet(g[s].cospars)

Distance(a, b) == IF a < b THEN b - a ELSE a - b

\* The first n of rows, given the rows before each.
TopN(rows, before, n) == {r \in rows : Cardinality(before[r]) < n}

\* Faulty form: one group after the other.
GroupByGroup(rows, group, before, n) ==
    TopN(rows, [r \in rows |-> {q \in rows : \/ group[q] < group[r]
                                             \/ group[q] = group[r] /\ q \in before[r]}], n)

\* Round-robin over the groups in ascending order, each group in the order before, until n are
\* picked: a row's round is the number of rows of its group before it.
RoundRobin(rows, group, before, n) ==
    LET round == [r \in rows |-> Cardinality({q \in before[r] : group[q] = group[r]})]
    IN  TopN(rows, [r \in rows |-> {q \in rows : \/ round[q] < round[r]
                                                 \/ round[q] = round[r] /\ group[q] < group[r]}], n)

\* ORDER BY norad NULLS LAST, satellite_id.
ByNorad(g, s, t) ==
    \/ g[s].norad # 0 /\ (g[t].norad = 0 \/ g[s].norad < g[t].norad)
    \/ g[s].norad = g[t].norad /\ s < t

\* Prefer NORAD, then JCAT, then the satellite id.
SubjectRef(norad, jcat, s) ==
    IF norad # 0 THEN <<"norad", norad>> ELSE IF jcat # 0 THEN <<"jcat", jcat>> ELSE <<"sat", s>>

Case(type, ref, s) == [type |-> type, ref |-> ref, sat |-> s]
About(type, g, sats) == {Case(type, SubjectRef(g[s].norad, g[s].jcat, s), s) : s \in sats}
AboutOrphans(type, g, sats) == {Case(type, SubjectRef(0, g[s].jcat, s), s) : s \in sats}

\* Every link counts, retired ones too: the query does not look at valid_to.
AmbiguousCospar(g) ==
    LET shared == {c \in UNION {g[s].cospars : s \in DOMAIN g} :
                      Cardinality({s \in DOMAIN g : c \in g[s].cospars}) > 1}
    IN  {Case("ambiguous_cospar", <<"cospar", c>>, NoSat) : c \in shared}

RideshareOrphan(g) ==
    AboutOrphans("rideshare_orphan", g,
        {s \in DOMAIN g : g[s].norad = 0 /\ g[s].kind = "PAYLOAD" /\ ~g[s].everSatcat})

\* The best name match of each uncatalogued object among catalogued ones launched near it.
MissedJoinCandidate(g) ==
    LET Near(o) == {s \in DOMAIN g :
                       /\ g[s].norad # 0 /\ g[s].launch # 0
                       /\ Distance(g[s].launch, g[o].launch) <= LaunchWindow
                       /\ Similarity[g[o].name][g[s].name] >= Threshold}
        orphans == {o \in DOMAIN g : g[o].norad = 0 /\ g[o].launch # 0 /\ Near(o) # {}}
        Best(o) == CHOOSE r \in {Similarity[g[o].name][g[s].name] : s \in Near(o)} :
                      \A s \in Near(o) : Similarity[g[o].name][g[s].name] <= r
        before == [o \in orphans |->
                      {p \in orphans : Best(p) > Best(o) \/ (Best(p) = Best(o) /\ p < o)}]
    IN  AboutOrphans("missed_join_candidate", g,
            TopN(orphans, before, Target["missed_join_candidate"]))

\* Both owners known, commercial, different and not each other's parent; largest first.
OwnerDispute(g) ==
    LET Disputed(a, b) == /\ a # b /\ {a, b} \subseteq Commercial
                          /\ Acquisitions \cap {<<a, b>>, <<b, a>>} = {}
        disputed == {s \in DOMAIN g : Disputed(g[s].satcat.owner, g[s].gcat.owner)}
        before == [s \in disputed |-> {t \in disputed :
                      g[t].rcs > g[s].rcs \/ (g[t].rcs = g[s].rcs /\ ByNorad(g, t, s))}]
    IN  About("owner_dispute", g, TopN(disputed, before, Target["owner_dispute"]))

StatusConflict(g) ==
    About("status_conflict", g,
        {s \in DOMAIN g : /\ g[s].satcat.status # g[s].gcat.status
                          /\ {g[s].satcat.status, g[s].gcat.status} \cap {"", "UNKNOWN"} = {}})

\* The widest disagreements between two dates that both parse.
DecayConflict(g) ==
    LET Gap(s) == Distance(g[s].satcat.decay, g[s].gcat.decay)
        apart == {s \in DOMAIN g : 0 \notin {g[s].satcat.decay, g[s].gcat.decay} /\ Gap(s) # 0}
        before == [s \in apart |-> {t \in apart : Gap(t) > Gap(s) \/ (Gap(t) = Gap(s) /\ t < s)}]
    IN  About("decay_conflict", g, TopN(apart, before, Target["decay_conflict"]))

Mistyped(g) == {s \in DOMAIN g : g[s].satcat.kind = "DEBRIS" /\ g[s].gcat.kind = "PAYLOAD"}
Decade(g, s) == IF g[s].launch = 0 THEN -1 ELSE g[s].launch \div 10

\* SATCAT debris that GCAT calls a payload, spread over the launch decades.
TypeConflict(g) ==
    LET rows == Mistyped(g)
        group == [s \in rows |-> Decade(g, s)]
        before == [s \in rows |-> {t \in rows : ByNorad(g, t, s)}]
    IN  About("type_conflict", g, RoundRobin(rows, group, before, Target["type_conflict"]))

\* <<deal, satellite>>: the child's ownership is closed and the parent's is open.
Split(g) ==
    {r \in Acquisitions \X DOMAIN g : r[1][1] \in g[r[2]].former /\ r[1][2] = g[r[2]].owner}

\* sorted(by_deal): by child, then parent.
DealsBefore(d) == {e \in Acquisitions : e[1] < d[1] \/ (e[1] = d[1] /\ e[2] < d[2])}

\* Satellites that an acquisition split, spread over the deals.
StaleOwner(g) ==
    LET rows == Split(g)
        deal == [r \in rows |-> Cardinality(DealsBefore(r[1]))]
        before == [r \in rows |-> {q \in rows : ByNorad(g, q[2], r[2])}]
        picked == RoundRobin(rows, deal, before, Target["stale_owner"])
    IN  About("stale_owner", g, {r[2] : r \in picked})

Selected(g) ==
    UNION {AmbiguousCospar(g), RideshareOrphan(g), MissedJoinCandidate(g), OwnerDispute(g),
           StatusConflict(g), DecayConflict(g), TypeConflict(g), StaleOwner(g)}

-----------------------------------------------------------------------------
\* How many of S are of decade d.
OfDecade(g, S, d) == Cardinality({s \in S : Decade(g, s) = d})

\* The type_conflict sample is as large as it can be, and no decade has two cases more than a
\* decade that still has objects to give ("deterministic even spread").
EvenSpread(g) ==
    LET picked == {c.sat : c \in TypeConflict(g)}
        decades == {Decade(g, s) : s \in Mistyped(g)}
        all == Cardinality(Mistyped(g))
    IN  /\ Cardinality(picked) =
              (IF all < Target["type_conflict"] THEN all ELSE Target["type_conflict"])
        /\ \A d, e \in decades :
              OfDecade(g, picked, d) > OfDecade(g, picked, e) + 1 =>
                  OfDecade(g, picked, e) = OfDecade(g, Mistyped(g), e)

\* When there is room for a case of each deal, each has one ("so every M&A is represented").
EveryDealShown(g) ==
    LET split == Split(g)
        deals == {r[1] : r \in split}
        shown == {c.sat : c \in StaleOwner(g)}
    IN  Cardinality(deals) <= Target["stale_owner"] =>
            \A d \in deals : \E s \in shown : <<d, s>> \in split
=============================================================================

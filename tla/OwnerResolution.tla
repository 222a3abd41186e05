--------------------------- MODULE OwnerResolution ---------------------------
(***************************************************************************)
(* identity/enrich_operators.py, the promotion of identity/reconcile.py    *)
(* as far as identity/merge.py moves owner rows, and the owner part of     *)
(* identity/resolve.py, as scripts/build_graph.py runs them in one         *)
(* transaction a night: every owner code of the newest catalogs becomes an *)
(* alias of an operator, provisional records are folded into their         *)
(* anchored twins, then each satellite's current claims are resolved to an *)
(* owner over time.                                                        *)
(*                                                                         *)
(* A record is what the catalogs' keys first made of one object; a claim   *)
(* is the owner that a source's newest snapshot gives under the record's   *)
(* key (ClaimLedger).  Keys change satellites here by promotion only; the  *)
(* matcher and the churn are IdentityGraph's.  Strings are compared up to  *)
(* case and norm_name.  Subsidiary edges, countries and classes, counts    *)
(* and the attributes other than the owner are left out.                   *)
(***************************************************************************)
EXTENDS Integers, Sequences, FiniteSets
LOCAL INSTANCE FiniteSetsExt

CONSTANTS
    Sats,           \* records, numbered in the order of their keys
    Anchored,       \* those with a NORAD number; the others are provisional
    CatalogSources, \* the sources that publish: "gcat", "ucs" and "satcat"
    Snapshots,      \* [source -> set of snapshots, [record -> owner]]
    OrgSnapshots,   \* raw_gcat_orgs: what [code -> sequence of names, display name first] may be
    SatcatCodes,    \* satcat_owner_codes.yml: [code -> name]
    Seeds,          \* operator_seed.yml: [name -> [aliases, gcat_codes, satcat_codes]]
    Acquired,       \* its acquired_by and merged_into: [child -> [parent, day]]
    LaunchDays,     \* what a launch date may be
    Pieces,         \* COSPAR pieces
    MaxChanges      \* bound: changes of the world

NoClaim == "none"
NoPiece == "none"
Unknown == -1
\* No operator.
Nobody == <<>>

ASSUME ResolutionAssumption ==
    /\ Sats \subseteq Nat /\ Anchored \subseteq Sats
    /\ MaxChanges \in Nat /\ LaunchDays \subseteq Nat \cup {Unknown}
    /\ \A c \in DOMAIN Acquired : Acquired[c].day \in Nat /\ Acquired[c].parent \in DOMAIN Seeds

VARIABLES
    snapshot,   \* [source -> [record -> owner]]: the newest
    orgs,       \* the newest raw_gcat_orgs
    launch,     \* satellite.launch_date
    piece,      \* [record -> its COSPAR piece]
    changes,    \* bound's counter
    home,       \* [record -> the satellite its keys identify]: itself, or the twin it was folded into
    operators,  \* operator.canonical_name: <<name>>, or <<name, code>> for "name (code)"
    aliases,    \* operator_alias: set of <<operator, alias, source>>
    owners,     \* satellite_operator, role 'owner', source 'resolve': set of [sat, operator, from, to]
    mixed       \* not in the code: satellites with rows of two records, not resolved since

worldVars == <<snapshot, orgs, launch, piece, changes>>
resolutionVars == <<worldVars, home, operators, aliases, owners, mixed>>

\* No recorded source is called operator_seed yet.
OwnerOrder == <<"operator_seed", "gcat", "ucs", "satcat">>

SeedAliases(name) == Seeds[name].aliases \cup Seeds[name].gcat_codes \cup Seeds[name].satcat_codes

ResolutionInit ==
    /\ snapshot = [s \in CatalogSources |-> [t \in Sats |-> NoClaim]]
    /\ orgs \in OrgSnapshots
    /\ launch \in [Sats -> LaunchDays]
    /\ piece \in [Sats -> Pieces \cup {NoPiece}]
    /\ changes = 0
    /\ home = [t \in Sats |-> t]
    /\ operators = {<<n>> : n \in DOMAIN Seeds}
    /\ aliases = UNION {{<<<<n>>, a, "seed">> : a \in SeedAliases(n)} : n \in DOMAIN Seeds}
    /\ owners = {}
    /\ mixed = {}

-----------------------------------------------------------------------------
(* The world: new snapshots, a launch date that becomes known or moves, a  *)
(* piece that is given or moves (churn expires the former one).            *)

BetweenBuilds ==
    /\ changes < MaxChanges
    /\ changes' = changes + 1
    /\ UNCHANGED <<home, operators, aliases, owners, mixed>>

Publish(source, said) ==
    /\ BetweenBuilds
    /\ said # snapshot[source]
    /\ snapshot' = [snapshot EXCEPT ![source] = said]
    /\ UNCHANGED <<orgs, launch, piece>>

PublishOrgs(said) ==
    /\ BetweenBuilds
    /\ said # orgs
    /\ orgs' = said
    /\ UNCHANGED <<snapshot, launch, piece>>

LaunchDated(t, day) ==
    /\ BetweenBuilds
    /\ home[t] = t /\ launch[t] # day
    /\ launch' = [launch EXCEPT ![t] = day]
    /\ UNCHANGED <<snapshot, orgs, piece>>

Designated(t, p) ==
    /\ BetweenBuilds
    /\ home[t] = t /\ piece[t] # p
    /\ piece' = [piece EXCEPT ![t] = p]
    /\ UNCHANGED <<snapshot, orgs, launch>>

-----------------------------------------------------------------------------
(* Enrichment.                                                             *)

UsedCodes(source) == {snapshot[source][t] : t \in Sats} \ {NoClaim}

\* The seed operator of an organisation, by its code or by one of its names.
SeedTarget(code) ==
    LET byCode == {n \in DOMAIN Seeds : code \in Seeds[n].gcat_codes}
        byName(i) == {n \in DOMAIN Seeds : orgs[code][i] \in Seeds[n].aliases \cup {n}}
        named == {i \in DOMAIN orgs[code] : byName(i) # {}}
    IN  IF byCode # {} THEN byCode ELSE IF named = {} THEN {} ELSE byName(Min(named))

\* The GCAT codes in use that have an organisation and no alias of an earlier build.
NewCodes ==
    {c \in UsedCodes("gcat") \cap DOMAIN orgs : ~\E a \in aliases : a[2] = c /\ a[3] = "gcat_orgs"}

\* _insert_operator: canonical_name is unique; the first code of a new name takes it, another's
\* operator is called "name (code)".
NewOperator(code) ==
    LET name == Head(orgs[code])
        namesakes == {c \in NewCodes : SeedTarget(c) = {} /\ Head(orgs[c]) = name}
    IN  IF <<name>> \in operators \/ code # CHOOSE c \in namesakes : TRUE
        THEN <<name, code>> ELSE <<name>>

GcatTarget(code) ==
    IF SeedTarget(code) = {} THEN NewOperator(code) ELSE <<CHOOSE n \in SeedTarget(code) : TRUE>>

\* Short name, name and English name become aliases unless they are themselves codes.
NameVariants(code) == {orgs[code][i] : i \in DOMAIN orgs[code]} \ DOMAIN orgs

\* <<operator, code>> for every code that enrichment links.
GcatLinks == {<<GcatTarget(c), c>> : c \in NewCodes}

\* The operator of that canonical name, else those that have it as an alias.
Bearers(op, al, name) == IF <<name>> \in op THEN {<<name>>} ELSE {a[1] : a \in {x \in al : x[2] = name}}

SatcatTarget(op, al, code) ==
    LET seed == {<<n>> : n \in {m \in DOMAIN Seeds : code \in Seeds[m].satcat_codes}}
        bearers == Bearers(op, al, SatcatCodes[code])
    IN  IF seed # {} THEN CHOOSE o \in seed : TRUE
        ELSE IF bearers # {} THEN CHOOSE o \in bearers : TRUE
        ELSE <<SatcatCodes[code]>>

SatcatLinks(op, al) ==
    {<<SatcatTarget(op, al, c), c>> : c \in UsedCodes("satcat") \cap DOMAIN SatcatCodes}

\* GCAT's codes, then SATCAT's.
Enriched ==
    LET gcat == GcatLinks
        op == operators \cup {l[1] : l \in gcat}
        al == aliases \cup UNION {{<<l[1], a, "gcat_orgs">> : a \in {l[2]} \cup NameVariants(l[2])}
                                 : l \in gcat}
        satcat == SatcatLinks(op, al)
    IN  [op |-> op \cup {l[1] : l \in satcat},
         al |-> al \cup {<<l[1], l[2], "satcat_sources">> : l \in satcat}]

-----------------------------------------------------------------------------
(* Promotion. *)

\* The anchored satellites with a record's piece and launch date.
Twins(p) == {n \in Anchored : piece[p] # NoPiece /\ piece[n] = piece[p] /\ launch[n] = launch[p]}

\* A record that could belong to more than one anchored satellite is left alone.
Promotable == {p \in Sats \ Anchored : home[p] = p /\ Cardinality(Twins(p)) = 1}

\* Where the rows and keys of a satellite go.
Survivor(promoted, t) == IF t \in promoted THEN CHOOSE n \in Twins(t) : TRUE ELSE t

\* One merge after the other: rows of one operator from one day on collide, the first one stays.
Merged(promoted) ==
    LET Collides(r, o) ==
            /\ o.operator = r.operator /\ o.from = r.from
            /\ Survivor(promoted, o.sat) = Survivor(promoted, r.sat)
            /\ r.sat \in promoted /\ (o.sat \in promoted => o.sat < r.sat)
        kept == {r \in owners : ~\E o \in owners : Collides(r, o)}
    IN  {[r EXCEPT !.sat = Survivor(promoted, r.sat)] : r \in kept}

\* The survivors that have rows of two.
Mixing(promoted) ==
    {t \in Sats : \E r, o \in owners : /\ r.sat # o.sat /\ Survivor(promoted, r.sat) = t
                                      /\ Survivor(promoted, o.sat) = t}

-----------------------------------------------------------------------------
(* Resolution. *)

\* What a code may resolve to once the codes are enriched: a canonical name before an alias; of two
\* operators with the same alias, the one the table happens to give first.
OperatorsOf(code) == Bearers(operators', aliases', code)

\* A source's current claim about a satellite: of two keys' the greater one's.
Claimed(source, t) ==
    LET keys == IF source \in CatalogSources
                THEN {k \in Sats : home'[k] = t /\ snapshot[source][k] # NoClaim} ELSE {}
    IN  IF keys = {} THEN NoClaim ELSE snapshot[source][Max(keys)]

\* The first source whose claimed owner matches an alias; without one, nobody.
OwnerChoices(t) ==
    LET codes == [i \in DOMAIN OwnerOrder |-> Claimed(OwnerOrder[i], t)]
        matching == {i \in DOMAIN codes : codes[i] # NoClaim /\ OperatorsOf(codes[i]) # {}}
    IN  IF matching = {} THEN {Nobody} ELSE OperatorsOf(codes[Min(matching)])

AcquiredAfter(operator, day) ==
    \E c \in DOMAIN Acquired : operator = <<c>> /\ day < Acquired[c].day

\* Owned from its launch, and by the parent from the day its operator was acquired.
Timeline(t, operator) ==
    LET Row(o, from, to) == [sat |-> t, operator |-> o, from |-> from, to |-> to]
    IN  IF launch[t] = Unknown THEN {}
        ELSE IF AcquiredAfter(operator, launch[t])
             THEN LET acquired == Acquired[operator[1]]
                  IN  {Row(operator, launch[t], acquired.day),
                       Row(<<acquired.parent>>, acquired.day, Unknown)}
             ELSE {Row(operator, launch[t], Unknown)}

\* Faulty form: only rows of the operator that is written anew are deleted.
WriteSameOwner(rows, t, operator) ==
    {r \in rows : r.sat = t /\ r.operator # operator} \cup Timeline(t, operator)

\* The satellite's rows are deleted, then written anew.
WriteOwner(rows, t, operator) == Timeline(t, operator)

\* A satellite without an owner claim, or whose owner matches no alias, is skipped: its rows stay.
OwnersOf(rows, t, picked) ==
    IF picked = Nobody THEN {r \in rows : r.sat = t} ELSE WriteOwner(rows, t, picked)

\* Whether two names clear the gate of a promotion is left open.
Build ==
    /\ operators' = Enriched.op
    /\ aliases' = Enriched.al
    /\ \E promoted \in SUBSET Promotable :
          /\ home' = [t \in Sats |-> IF t \in promoted THEN Survivor(promoted, t) ELSE home[t]]
          /\ \E picked \in [Sats -> UNION {OwnerChoices(t) : t \in Sats}] :
                /\ \A t \in Sats : picked[t] \in OwnerChoices(t)
                /\ owners' = UNION {OwnersOf(Merged(promoted), t, picked[t]) : t \in Sats}
                /\ mixed' = {t \in mixed \cup Mixing(promoted) : picked[t] = Nobody}
    /\ UNCHANGED worldVars

ResolutionNext ==
    \/ \E s \in CatalogSources : \E said \in Snapshots[s] : Publish(s, said)
    \/ \E said \in OrgSnapshots : PublishOrgs(said)
    \/ \E t \in Sats, day \in LaunchDays : LaunchDated(t, day)
    \/ \E t \in Sats, p \in Pieces : Designated(t, p)
    \/ Build

ResolutionSpec == ResolutionInit /\ [][ResolutionNext]_resolutionVars

-----------------------------------------------------------------------------
ResolutionTypeOK ==
    /\ home \in [Sats -> Sats] /\ mixed \subseteq Anchored
    /\ \A a \in aliases : a[1] \in operators
    /\ \A r \in owners : home[r.sat] = r.sat /\ r.operator \in operators

\* "SCD2 temporal ownership (the OneWeb->Eutelsat split)": whatever catalogs, codes, organisations,
\* pieces and launch dates change between builds, and whichever records are folded together, a
\* satellite never has two owners on a day, and its periods follow each other without a gap from
\* one beginning to the present.  Excepted, because the resolver skips a satellite whose owner
\* matches no alias and merge() keeps the rows of both: one into which a record was folded when
\* both had rows, until its owner is resolved again.
OwnershipIsOneTimeline ==
    \A t \in Sats \ mixed :
        LET rows == {r \in owners : r.sat = t}
            open == {r \in rows : r.to = Unknown}
        IN  rows # {} =>
            /\ home[t] = t
            /\ Cardinality(open) = 1
            /\ \A r, o \in rows : r # o => r.to = o.from \/ o.to = r.from
=============================================================================

---------------------------- MODULE IdentityGraph ----------------------------
(***************************************************************************)
(* The nightly identity pass over SATCAT and GCAT: identity/match.py,      *)
(* identity/reconcile.py, identity/merge.py and identity/churn.py, in the  *)
(* order scripts/build_graph.py runs them, over the snapshots the loaders  *)
(* publish meanwhile.                                                      *)
(*                                                                         *)
(* The build is one transaction at READ COMMITTED and the only writer of   *)
(* these tables: its own steps see its uncommitted work and, at each read, *)
(* the newest published snapshot, so a load that finishes in mid-build is  *)
(* seen by the later passes only.  A build that fails rolls back to where  *)
(* it began, which is the same as not having run: only builds that commit  *)
(* are modelled.                                                           *)
(*                                                                         *)
(* Abstractions: every object is a payload of one launch, so launch dates  *)
(* agree and every piece is in standard form; norad and name links, which  *)
(* no pass here looks up, are left out; a SATCAT row is its COSPAR piece;  *)
(* a GCAT row carries, with its columns, the NORAD of the SATCAT object    *)
(* whose name scores best against it (0 if none reaches auto_link).  UCS,  *)
(* a fixed seed, is left out.  0 is a NULL NORAD.                          *)
(***************************************************************************)
EXTENDS Naturals, FiniteSets

CONSTANTS
    Norad,        \* catalog numbers
    Key,          \* GCAT keys (jcat)
    Number,       \* key -> its own catalog number, for a key of the S<n> form
    Piece, NoPiece,
    SatcatFeeds,  \* the SATCAT snapshots that may be published
    GcatFeeds,    \* the GCAT snapshots that may be published
    MaxPublish,   \* bound: snapshots published
    MaxSat        \* bound: satellites ever created

\* What the parsers land: a SATCAT row has a catalog number of its own, a GCAT row a key of its
\* own; the piece may be missing, and the number of a GCAT row too.
SatcatRows(f) ==
    /\ DOMAIN f \subseteq Norad /\ IsFiniteSet(DOMAIN f)
    /\ \A n \in DOMAIN f : f[n] \in Piece \cup {NoPiece}

GcatRows(f) ==
    /\ DOMAIN f \subseteq Key /\ IsFiniteSet(DOMAIN f)
    /\ \A k \in DOMAIN f : f[k].norad \in Norad \cup {0} /\ f[k].piece \in Piece \cup {NoPiece}

ASSUME ConstantsAssumption ==
    /\ Norad \subseteq Nat \ {0}
    /\ Number \in [Key -> Norad \cup {0}]
    /\ NoPiece \notin Piece \cup Key
    /\ \A f \in SatcatFeeds : SatcatRows(f)
    /\ \A f \in GcatFeeds : GcatRows(f)
    /\ MaxPublish \in Nat /\ MaxSat \in Nat

SatId == 1..MaxSat
Link == [sat: SatId, type: {"cospar", "gcat_id"}, value: Key \cup Piece, source: {"satcat", "gcat"}]

VARIABLES
    satcat,     \* newest ok SATCAT snapshot: norad -> piece
    gcat,       \* newest ok GCAT snapshot: key -> row
    before,     \* the GCAT snapshot before it
    published,  \* snapshots published so far
    phase,      \* where the build is
    todo,       \* what the running loop has left
    norad,      \* satellite_id -> norad_id, for the rows of table satellite
    created,    \* satellite_id's sequence
    anchored,   \* satellites whose anchor_state is 'anchored'
    links,      \* the rows of satellite_identifier
    current,    \* those with valid_to NULL
    churned,    \* (id_type, id_value) of the rows of catalog_key_churn
    began,      \* history: snapshots published when the build began
    base,       \* history: the satellites the build began from
    settled     \* history: snapshots published through the last build, if none arrived during it

feeds == <<satcat, gcat, before, published>>
graph == <<norad, created, anchored, links, current>>
hist == <<began, base, settled>>
vars == <<feeds, phase, todo, graph, churned, hist>>

Satellites == DOMAIN norad

Init ==
    /\ satcat = <<>> /\ gcat = <<>> /\ before = <<>>
    /\ published = 0
    /\ phase = "idle"
    /\ todo = {}
    /\ norad = <<>>
    /\ created = 0
    /\ anchored = {}
    /\ links = {} /\ current = {}
    /\ churned = {}
    /\ began = 0 /\ base = {} /\ settled = 0

-----------------------------------------------------------------------------
(* The loaders.                                                            *)

PublishSatcat ==
    /\ published < MaxPublish
    /\ satcat' \in SatcatFeeds
    /\ published' = published + 1
    /\ UNCHANGED <<gcat, before, phase, todo, graph, churned, hist>>

PublishGcat ==
    /\ published < MaxPublish
    /\ gcat' \in GcatFeeds
    /\ before' = gcat
    /\ published' = published + 1
    /\ UNCHANGED <<satcat, phase, todo, graph, churned, hist>>

-----------------------------------------------------------------------------
(* match.deterministic.                                                    *)

Rows(type, source, pairs) ==
    {[sat |-> x[1], type |-> type, value |-> x[2], source |-> source] : x \in pairs}

HasNorad(n) == n # 0 /\ \E s \in Satellites : norad[s] = n
WithNorad(n) == CHOOSE s \in Satellites : norad[s] = n

\* _bulk_upsert_satellites_by_norad: a satellite for every NORAD that has none, in NORAD order.
Upserted(ns) ==
    LET new == {n \in ns : ~HasNorad(n)}
        id(n) == created + Cardinality({m \in new : m <= n})
        born == {id(n) : n \in new}
    IN  [s \in Satellites \cup born |->
            IF s \in Satellites THEN norad[s] ELSE CHOOSE n \in new : id(n) = s]

Home(sats, n) == CHOOSE s \in DOMAIN sats : sats[s] = n

\* link and _bulk_link_by_norad: insert what is missing, revive what was retired.
Attach(new) ==
    /\ links' = links \cup new
    /\ current' = current \cup new

Begin ==
    /\ phase = "idle"
    /\ phase' = "satcat"
    /\ began' = published
    /\ base' = Satellites
    /\ UNCHANGED <<feeds, todo, graph, churned, settled>>

\* _deterministic_satcat.
LinkSatcat ==
    LET sats == Upserted(DOMAIN satcat)
    IN  /\ phase = "satcat"
        /\ DOMAIN sats \subseteq SatId
        /\ norad' = sats
        /\ created' = created + Cardinality(DOMAIN sats \ Satellites)
        /\ Attach(Rows("cospar", "satcat",
                       {<<Home(sats, n), satcat[n]>> : n \in {m \in DOMAIN satcat : satcat[m] # NoPiece}}))
        /\ phase' = "gcat"
        /\ UNCHANGED <<feeds, todo, anchored, churned, hist>>

\* _deterministic_gcat_norad: the rows that carry a NORAD.
LinkGcat ==
    LET rows == {k \in DOMAIN gcat : gcat[k].norad # 0}
        sats == Upserted({gcat[k].norad : k \in rows})
        home(k) == Home(sats, gcat[k].norad)
    IN  /\ phase = "gcat"
        /\ DOMAIN sats \subseteq SatId
        /\ norad' = sats
        /\ created' = created + Cardinality(DOMAIN sats \ Satellites)
        /\ Attach(Rows("gcat_id", "gcat", {<<home(k), k>> : k \in rows})
                    \cup Rows("cospar", "gcat",
                              {<<home(k), gcat[k].piece>> : k \in {j \in rows : gcat[j].piece # NoPiece}}))
        /\ phase' = "pieces"
        /\ todo' = {}
        /\ UNCHANGED <<feeds, anchored, churned, hist>>

\* _cospar_pass reads the rows without a NORAD once, in no order, and handles them one by one.
ReadPieces ==
    /\ phase = "pieces"
    /\ phase' = "piece"
    /\ todo' = {<<k, gcat[k].piece>> : k \in {j \in DOMAIN gcat : gcat[j].norad = 0}}
    /\ UNCHANGED <<feeds, graph, churned, hist>>

\* _find_by_cospar: the lowest satellite with a current link, of either source.
Holders(p) == {l.sat : l \in {m \in current : m.type = "cospar" /\ m.value = p}}
LowestHolder(p) == CHOOSE s \in Holders(p) : \A t \in Holders(p) : s <= t

PieceRows(s, k, p) ==
    Rows("gcat_id", "gcat", {<<s, k>>})
        \cup Rows("cospar", "gcat", IF p = NoPiece THEN {} ELSE {<<s, p>>})

\* Faulty form: the piece is looked up before the key's own number.
TargetByPieceFirst(k, p) ==
    IF p # NoPiece /\ Holders(p) # {} THEN LowestHolder(p)
    ELSE IF HasNorad(Number[k]) THEN WithNorad(Number[k])
    ELSE created + 1

\* The satellite a row without a NORAD belongs to: its key's own number first, then the piece's
\* holder, else a new one.
Target(k, p) ==
    IF HasNorad(Number[k]) THEN WithNorad(Number[k])
    ELSE IF p # NoPiece /\ Holders(p) # {} THEN LowestHolder(p)
    ELSE created + 1

LinkPiece(k, p) ==
    /\ phase = "piece"
    /\ <<k, p>> \in todo
    /\ todo' = todo \ {<<k, p>>}
    /\ IF p = NoPiece /\ ~HasNorad(Number[k])
       THEN UNCHANGED graph    \* left to the probabilistic pass
       ELSE LET s == Target(k, p)
            IN  /\ s \in SatId
                /\ norad' = [t \in Satellites \cup {s} |-> IF t \in Satellites THEN norad[t] ELSE 0]
                /\ created' = IF s \in Satellites THEN created ELSE s
                /\ Attach(PieceRows(s, k, p))
                /\ UNCHANGED anchored
    /\ UNCHANGED <<feeds, phase, churned, hist>>

PiecesDone ==
    /\ phase = "piece"
    /\ todo = {}
    /\ phase' = "fuzzy"
    /\ UNCHANGED <<feeds, todo, graph, churned, hist>>

\* probabilistic: a row with neither NORAD nor piece, whose key has no satellite of its number,
\* goes to the best-named object of the SATCAT snapshot.
LinkFuzzy ==
    LET probes == {k \in DOMAIN gcat : /\ gcat[k].norad = 0 /\ gcat[k].piece = NoPiece
                                       /\ ~HasNorad(Number[k])
                                       /\ gcat[k].best \in DOMAIN satcat /\ HasNorad(gcat[k].best)}
    IN  /\ phase = "fuzzy"
        /\ Attach(Rows("gcat_id", "gcat", {<<WithNorad(gcat[k].best), k>> : k \in probes}))
        /\ phase' = "promote"
        /\ UNCHANGED <<feeds, todo, norad, created, anchored, churned, hist>>

-----------------------------------------------------------------------------
(* reconcile.promote and merge.merge.                                      *)

CosparsOf(s) == {l.value : l \in {m \in current : m.sat = s /\ m.type = "cospar"}}

\* The anchored satellites that share a current COSPAR with s.
Twins(s) == {n \in Satellites : norad[n] # 0 /\ CosparsOf(n) \cap CosparsOf(s) # {}}

\* The candidate query, run once: provisional records with exactly one anchored twin.
ReadCandidates ==
    /\ phase = "promote"
    /\ phase' = "merging"
    /\ todo' = {x \in Satellites \X Satellites : norad[x[1]] = 0 /\ Twins(x[1]) = {x[2]}}
    /\ UNCHANGED <<feeds, graph, churned, hist>>

Moved(l, n) == [l EXCEPT !.sat = n]

\* Faulty form: the rows that collide are left where they are.
MergeKeepingCollisions(n, p) ==
    LET kept == {l \in links : l.sat = p /\ Moved(l, n) \notin links}
    IN  /\ links' = (links \ kept) \cup {Moved(l, n) : l \in kept}
        /\ current' = (current \ kept) \cup {Moved(l, n) : l \in kept \cap current}
        /\ norad' = [s \in Satellites \ {p} |-> norad[s]]
        /\ anchored' = anchored \ {p}

\* merge: the folded record's links move to the survivor, except those it already has, current
\* or not; then the shell is deleted.
Merge(n, p) ==
    LET kept == {l \in links : l.sat = p /\ Moved(l, n) \notin links}
    IN  /\ links' = {l \in links : l.sat # p} \cup {Moved(l, n) : l \in kept}
        /\ current' = {l \in current : l.sat # p} \cup {Moved(l, n) : l \in kept \cap current}
        /\ norad' = [s \in Satellites \ {p} |-> norad[s]]
        /\ anchored' = anchored \ {p}

\* One candidate, in satellite_id order: the name gate declines it or it is merged.
Promote(p, n) ==
    /\ phase = "merging"
    /\ <<p, n>> \in todo
    /\ \A x \in todo : p <= x[1]
    /\ todo' = todo \ {<<p, n>>}
    /\ \/ UNCHANGED <<norad, anchored, links, current>>
       \/ Merge(n, p)
    /\ UNCHANGED <<feeds, phase, created, churned, hist>>

PromotionDone ==
    /\ phase = "merging"
    /\ todo = {}
    /\ phase' = "detect"
    /\ UNCHANGED <<feeds, todo, graph, churned, hist>>

-----------------------------------------------------------------------------
(* churn.run_all.                                                          *)

\* detect: the keys and pieces given to another name by the two newest GCAT snapshots.
Detect ==
    LET renamed(j, k) == before[j].name # gcat[k].name
        piece(j, k) == before[j].piece = gcat[k].piece /\ before[j].piece # NoPiece
    IN  /\ phase = "detect"
        /\ churned' = churned
             \cup {<<"gcat_id", k>> : k \in {j \in DOMAIN before \cap DOMAIN gcat : renamed(j, j)}}
             \cup {<<"cospar", before[j].piece>> :
                     j \in {i \in DOMAIN before : \E k \in DOMAIN gcat : piece(i, k) /\ renamed(i, k)}}
        /\ phase' = "anchor"
        /\ UNCHANGED <<feeds, todo, graph, hist>>

\* Faulty form: anchor states are left as the matchers created them.
RefreshNothing ==
    /\ phase = "anchor"
    /\ phase' = "moved"
    /\ UNCHANGED <<feeds, todo, graph, churned, hist>>

\* refresh_anchor_state: whatever carries a NORAD is anchored.
RefreshAnchors ==
    /\ phase = "anchor"
    /\ anchored' = anchored \cup {s \in Satellites : norad[s] # 0}
    /\ phase' = "moved"
    /\ UNCHANGED <<feeds, todo, norad, created, links, current, churned, hist>>

\* The catalog number a row is anchored by: its NORAD, else its key's own.
AnchorNumber(k) == IF gcat[k].norad # 0 THEN gcat[k].norad ELSE Number[k]

\* The satellites the newest snapshot anchors a key or a piece to.
Anchors(type, value) ==
    {WithNorad(AnchorNumber(k)) :
        k \in {j \in DOMAIN gcat : /\ HasNorad(AnchorNumber(j))
                                   /\ value = IF type = "gcat_id" THEN j ELSE gcat[j].piece}}

HeldBy(s, l) == [l EXCEPT !.sat = s] \in current

\* Faulty form: a key with two anchors is judged by each.
MisplacedAmbiguous ==
    {l \in current : l.source = "gcat" /\ \E s \in Anchors(l.type, l.value) : s # l.sat /\ HeldBy(s, l)}

\* The current GCAT links on another satellite than the one anchor of their key, which holds it.
Misplaced ==
    {l \in current : /\ l.source = "gcat"
                     /\ \E s \in Satellites \ {l.sat} : Anchors(l.type, l.value) = {s} /\ HeldBy(s, l)}

\* expire_moved_gcat_keys.
ExpireMoved ==
    /\ phase = "moved"
    /\ current' = current \ Misplaced
    /\ phase' = "contested"
    /\ UNCHANGED <<feeds, todo, norad, created, anchored, links, churned, hist>>

Contested == {l \in current : <<l.type, l.value>> \in churned /\ l.sat \notin anchored}

\* expire_contested; the later phases leave these tables alone and the build commits.
ExpireContested ==
    /\ phase = "contested"
    /\ current' = current \ Contested
    /\ phase' = "idle"
    /\ base' = {}
    /\ settled' = IF began = published THEN published ELSE 0
    /\ UNCHANGED <<feeds, todo, norad, created, anchored, links, churned, began>>

Match == LinkSatcat \/ LinkGcat \/ ReadPieces \/ (\E x \in todo : LinkPiece(x[1], x[2]))
            \/ PiecesDone \/ LinkFuzzy

Reconcile == ReadCandidates \/ (\E x \in todo : Promote(x[1], x[2])) \/ PromotionDone

Churn == Detect \/ RefreshAnchors \/ ExpireMoved \/ ExpireContested

Next == PublishSatcat \/ PublishGcat \/ Begin \/ Match \/ Reconcile \/ Churn

Spec == Init /\ [][Next]_vars

-----------------------------------------------------------------------------
(* Properties.                                                             *)

\* The types of the variables: a link is on a row of satellite, NORADs are unique (satellite's
\* UNIQUE norad_id) and ids come from the sequence.
TypeOK ==
    /\ Satellites \subseteq 1..created /\ created \in 0..MaxSat
    /\ \A s \in Satellites : norad[s] \in Norad \cup {0}
    /\ \A s, t \in Satellites : norad[s] # 0 /\ norad[s] = norad[t] => s = t
    /\ anchored \subseteq Satellites
    /\ links \subseteq Link /\ current \subseteq links
    /\ \A l \in links : l.sat \in Satellites

\* A build during which nothing was published, at its commit.
QuietCommit == phase = "idle" /\ settled = published /\ published # 0

\* One key, one satellite: when a build commits, every GCAT key (and piece) that the newest
\* snapshot anchors to one satellite is currently linked to that satellite and to no other,
\* wherever earlier snapshots, guesses and builds had put it.
AnchoredKeyHasOneHome ==
    QuietCommit =>
        \A type \in {"gcat_id", "cospar"} : \A value \in Key \cup Piece : \A s \in Satellites :
            Anchors(type, value) = {s} =>
                {l.sat : l \in {m \in current : m.type = type /\ m.value = value /\ m.source = "gcat"}} = {s}

\* Retiring a moved key's links never leaves the key without a current one.
MovedKeyIsNeverOrphaned ==
    [][phase = "moved" =>
          \A l \in current : \E m \in current' : m.type = l.type /\ m.value = l.value]_vars

\* An anchored satellite loses a current identifier only to the satellite GCAT now anchors it
\* to: contested keys and promotions never take one from it, and it never leaves the graph.
AnchoredLosesOnlyToAnchor ==
    [][\A s \in Satellites : norad[s] # 0 =>
          /\ s \in Satellites' /\ norad'[s] = norad[s]
          /\ \A l \in current \ current' : l.sat = s =>
                \E t \in Satellites \ {s} : Anchors(l.type, l.value) = {t} /\ HeldBy(t, l)]_vars

\* Re-running the build over the snapshots the last one saw creates no satellite: the records
\* of the graph are objects, not nights ("idempotent, so the whole build is safe to re-run").
RebuildCreatesNothing ==
    [][phase' = "idle" /\ phase # "idle" /\ settled = published /\ began = published
          => Satellites' \subseteq base]_vars
=============================================================================

------------------------ MODULE IdentityGraph_proofs ------------------------
(***************************************************************************)
(* Proofs about the nightly identity pass: the types of the graph with     *)
(* NORADs unique, that an anchored satellite loses an identifier only to   *)
(* the satellite GCAT anchors it to, that a moved key keeps a current      *)
(* link, and that a key anchored to one satellite is on that one alone     *)
(* when a build commits.                                                   *)
(*                                                                         *)
(* The last one rests on what a quiet build (no snapshot published since   *)
(* it began) has done so far: from the end of the piece pass on, each key  *)
(* is linked to the satellite of its catalog number, which no later phase  *)
(* undoes.                                                                 *)
(***************************************************************************)
EXTENDS IdentityGraph, NatFacts, TLAPS

Phases == {"idle", "satcat", "gcat", "pieces", "piece", "fuzzy", "promote", "merging", "detect",
           "anchor", "moved", "contested"}

Pieces == Piece \cup {NoPiece}

Quiet == began = published

\* Satellite numbers are taken from the sequence and NORADs are unique.
SatellitesOK(sats, top) ==
    /\ top \in 0..MaxSat
    /\ DOMAIN sats \subseteq 1..top
    /\ \A s \in DOMAIN sats : sats[s] \in Norad \cup {0}
    /\ \A s, t \in DOMAIN sats : sats[s] # 0 /\ sats[s] = sats[t] => s = t

LinksOK ==
    /\ anchored \subseteq Satellites
    /\ links \subseteq Link /\ current \subseteq links
    /\ \A l \in links : l.sat \in Satellites

FeedsOK ==
    /\ SatcatRows(satcat) /\ GcatRows(gcat)
    /\ published \in Nat /\ began \in Nat /\ settled \in Nat
    /\ began <= published /\ settled <= published
    /\ phase \in Phases

\* What the running loop has left: rows of the snapshot without a NORAD, or provisional
\* satellites, each with the one anchored twin it had.
PiecesLeft == phase = "piece" => todo \subseteq Key \X Pieces

Candidate(x) ==
    /\ x[1] \in Satellites /\ x[2] \in Satellites
    /\ norad[x[1]] = 0 /\ norad[x[2]] # 0

CandidatesLeft ==
    phase = "merging" =>
        /\ \A x \in todo : Candidate(x) /\ x = <<x[1], x[2]>>
        /\ \A x, y \in todo : x[1] = y[1] => x = y

\* From the refresh of the anchor states to the commit, what carries a NORAD is anchored.
AnchorsFresh ==
    phase \in {"moved", "contested"} => \A s \in Satellites : norad[s] # 0 => s \in anchored

\* The key's links are on the satellite of its catalog number, if there is one.
Placed(k) ==
    HasNorad(AnchorNumber(k)) => PieceRows(WithNorad(AnchorNumber(k)), k, gcat[k].piece) \subseteq current

PlacedWithNorad == \A k \in DOMAIN gcat : gcat[k].norad # 0 => Placed(k)

PlacedSoFar ==
    \A k \in DOMAIN gcat : gcat[k].norad = 0 => Placed(k) \/ <<k, gcat[k].piece>> \in todo

AllPlaced == \A k \in DOMAIN gcat : Placed(k)

HoldersOf(type, value) ==
    {l.sat : l \in {m \in current : m.type = type /\ m.value = value /\ m.source = "gcat"}}

OneHome ==
    \A type \in {"gcat_id", "cospar"} : \A value \in Key \cup Piece : \A s \in Satellites :
        Anchors(type, value) = {s} => HoldersOf(type, value) = {s}

\* What a quiet build has done by each phase.
BuiltSoFar ==
    Quiet =>
        /\ phase = "pieces" => PlacedWithNorad
        /\ phase = "piece" => PlacedWithNorad /\ PlacedSoFar
        /\ phase \in {"fuzzy", "promote", "merging", "detect", "anchor", "moved"} => AllPlaced
        /\ phase = "contested" => OneHome

\* The inductive invariant.
GraphInv ==
    /\ SatellitesOK(norad, created) /\ LinksOK /\ FeedsOK
    /\ PiecesLeft /\ CandidatesLeft /\ AnchorsFresh
    /\ BuiltSoFar
    /\ phase = "idle" /\ settled = published => OneHome

-----------------------------------------------------------------------------
(* The satellites of catalog numbers.                                      *)

\* A number some satellite carries is carried by one satellite.
LEMMA HolderOfNorad ==
    ASSUME SatellitesOK(norad, created), NEW n, HasNorad(n)
    PROVE  /\ n # 0 /\ WithNorad(n) \in Satellites /\ norad[WithNorad(n)] = n
           /\ \A s \in Satellites : norad[s] = n => s = WithNorad(n)
  <1>1. PICK s \in Satellites : n # 0 /\ norad[s] = n
    BY DEF HasNorad
  <1>2. WithNorad(n) \in Satellites /\ norad[WithNorad(n)] = n
    BY <1>1 DEF WithNorad
  <1> QED BY <1>1, <1>2 DEF SatellitesOK, Satellites

\* The same for a graph given by a function.
LEMMA HomeIsOne ==
    ASSUME NEW u, NEW top, SatellitesOK(u, top), NEW n, n # 0, \E s \in DOMAIN u : u[s] = n
    PROVE  /\ Home(u, n) \in DOMAIN u /\ u[Home(u, n)] = n
           /\ \A s \in DOMAIN u : u[s] = n => s = Home(u, n)
  <1>1. Home(u, n) \in DOMAIN u /\ u[Home(u, n)] = n
    BY DEF Home
  <1> QED BY <1>1 DEF SatellitesOK

\* The bulk upsert keeps every satellite and gives each number it is asked for a satellite,
\* with the next ids of the sequence.
LEMMA UpsertedOK ==
    ASSUME SatellitesOK(norad, created), NEW ns, ns \subseteq Norad, IsFiniteSet(ns),
           NEW u, u = Upserted(ns), DOMAIN u \subseteq SatId
    PROVE  /\ SatellitesOK(u, created + Cardinality(DOMAIN u \ Satellites))
           /\ Satellites \subseteq DOMAIN u /\ \A s \in Satellites : u[s] = norad[s]
           /\ \A n \in ns : \E s \in DOMAIN u : u[s] = n
  <1> DEFINE new == {n \in ns : ~HasNorad(n)}
  <1>1. /\ created \in Nat /\ MaxSat \in Nat /\ created <= MaxSat /\ Satellites \subseteq 1..created
        /\ Norad \subseteq Nat \ {0} /\ new \subseteq Nat /\ new \subseteq ns /\ 0 \notin new
    <2>1. new \subseteq ns
      OBVIOUS
    <2> HIDE DEF new
    <2>2. MaxSat \in Nat /\ Norad \subseteq Nat \ {0}
      BY ConstantsAssumption
    <2>3. created \in 0..MaxSat /\ Satellites \subseteq 1..created
      BY DEF SatellitesOK, Satellites
    <2> QED BY <2>1, <2>2, <2>3
  <1>2. IsFiniteSet(new)
    <2> HIDE DEF new
    <2> QED BY <1>1, FS_Subset
  <1> DEFINE id(n) == Numbering(new, created, n)
             born == {id(n) : n \in new}
  <1>3. /\ Cardinality(new) \in Nat
        /\ \A n \in new : id(n) \in created+1 .. created + Cardinality(new)
        /\ \A m, n \in new : id(m) = id(n) => m = n
        /\ IsFiniteSet(born) /\ Cardinality(born) = Cardinality(new)
    <2> HIDE DEF new
    <2> QED BY <1>1, <1>2, Numbered
  <1>4. u = [s \in Satellites \cup born |->
               IF s \in Satellites THEN norad[s] ELSE CHOOSE n \in new : id(n) = s]
    BY DEF Upserted, Numbering, UpTo
  <1>5. ASSUME NEW s \in born
        PROVE  s \in created+1 .. created + Cardinality(new) /\ s \notin Satellites
    <2> PICK n \in new : s = id(n)
      OBVIOUS
    <2> HIDE DEF id, new
    <2> QED BY <1>1, <1>3
  <1>6. DOMAIN u = Satellites \cup born /\ DOMAIN u \ Satellites = born
    <2> HIDE DEF id, new, born
    <2> QED BY <1>4, <1>5
  <1>7. ASSUME NEW s \in born
        PROVE  u[s] \in new /\ id(u[s]) = s
    <2> PICK n \in new : s = id(n)
      OBVIOUS
    <2>1. s \notin Satellites /\ s \in Satellites \cup born
      BY <1>5
    <2> HIDE DEF id, new, born
    <2>2. u[s] = CHOOSE m \in new : id(m) = s
      BY <1>4, <2>1
    <2> QED BY <2>2
  <1>8. \A s \in Satellites : u[s] = norad[s]
    <2> HIDE DEF id, new, born
    <2> QED BY <1>4
  <1>9. ASSUME NEW n \in new
        PROVE  id(n) \in born /\ u[id(n)] = n
    <2>1. id(n) \in born
      OBVIOUS
    <2> HIDE DEF id, new, born
    <2> QED BY <1>3, <1>7, <2>1
  <1> HIDE DEF id, born
  <1>10. created + Cardinality(new) \in 0..MaxSat
    <2>1. born \in SUBSET (created+1 .. MaxSat)
      BY <1>1, <1>5, <1>6, <1>3 DEF SatId
    <2>2. /\ IsFiniteSet(created+1 .. MaxSat)
          /\ Cardinality(created+1 .. MaxSat) = IF created+1 > MaxSat THEN 0 ELSE MaxSat-(created+1)+1
      BY <1>1, FS_Interval
    <2>3. Cardinality(born) <= Cardinality(created+1 .. MaxSat)
      BY <2>1, <2>2, FS_Subset
    <2> QED BY <2>2, <2>3, <1>1, <1>3
  <1>11. \A s \in DOMAIN u : u[s] \in Norad \cup {0}
    BY <1>6, <1>7, <1>8 DEF SatellitesOK, Satellites
  <1>12. ASSUME NEW s \in DOMAIN u, NEW t \in DOMAIN u, u[s] # 0, u[s] = u[t]
         PROVE  s = t
    <2>1. CASE s \in Satellites /\ t \in Satellites
      BY <1>8, <1>12, <2>1 DEF SatellitesOK, Satellites
    <2>2. CASE s \in born /\ t \in born
      BY <1>7, <1>12, <2>2
    <2>3. ASSUME NEW x \in Satellites, NEW y \in born, norad[x] # 0
          PROVE  norad[x] # u[y]
      BY <1>7, <2>3 DEF HasNorad
    <2> QED BY <1>6, <1>8, <1>12, <2>1, <2>2, <2>3
  <1>13. DOMAIN u \subseteq 1..(created + Cardinality(new))
    <2> DEFINE c == Cardinality(new)
    <2>1. c \in Nat /\ created \in Nat /\ \A s \in born : s \in created+1 .. created+c
      BY <1>1, <1>3, <1>5
    <2> HIDE DEF c
    <2>2. ASSUME NEW s \in DOMAIN u PROVE s \in 1..(created + c)
      <3>1. CASE s \in Satellites
        <4>1. s \in 1..created
          BY <1>1, <3>1
        <4> QED BY ONLY <4>1, <2>1
      <3>2. CASE s \in born
        BY <2>1, <3>2
      <3> QED BY <3>1, <3>2, <1>6
    <2> QED BY <2>2 DEF c
  <1>14. SatellitesOK(u, created + Cardinality(DOMAIN u \ Satellites))
    BY <1>3, <1>6, <1>10, <1>11, <1>12, <1>13 DEF SatellitesOK
  <1>15. \A n \in ns : \E s \in DOMAIN u : u[s] = n
    <2> SUFFICES ASSUME NEW n \in ns PROVE \E s \in DOMAIN u : u[s] = n
      OBVIOUS
    <2>1. CASE HasNorad(n)
      BY <2>1, <1>6, <1>8 DEF HasNorad
    <2>2. CASE ~HasNorad(n)
      BY <2>2, <1>6, <1>9
    <2> QED BY <2>1, <2>2
  <1> QED BY <1>6, <1>8, <1>14, <1>15

\* A step that neither gives nor takes NORADs leaves every number with its satellite.
KeepsNorads == \A s \in Satellites : norad[s] # 0 => s \in Satellites' /\ norad'[s] = norad[s]

GivesNoNorad == \A s \in Satellites' : norad'[s] # 0 => s \in Satellites /\ norad[s] = norad'[s]

LEMMA SameHolders ==
    ASSUME SatellitesOK(norad, created), SatellitesOK(norad, created)', KeepsNorads, GivesNoNorad, NEW n
    PROVE  /\ HasNorad(n)' <=> HasNorad(n)
           /\ HasNorad(n) => WithNorad(n)' = WithNorad(n)
  <1>1. HasNorad(n)' <=> HasNorad(n)
    BY DEF HasNorad, KeepsNorads, GivesNoNorad
  <1>2. ASSUME HasNorad(n) PROVE WithNorad(n)' = WithNorad(n)
    <2>1. n # 0 /\ WithNorad(n) \in Satellites /\ norad[WithNorad(n)] = n
      BY <1>2, HolderOfNorad
    <2>2. WithNorad(n) \in Satellites' /\ norad'[WithNorad(n)] = n
      BY <2>1 DEF KeepsNorads
    <2>3. WithNorad(n)' \in Satellites' /\ norad'[WithNorad(n)'] = n
      BY <2>2 DEF WithNorad
    <2> QED BY <2>1, <2>2, <2>3 DEF SatellitesOK, Satellites
  <1> QED BY <1>1, <1>2

\* Links on satellites with a NORAD stay.
KeepsAnchoredLinks == \A l \in current : norad[l.sat] # 0 => l \in current'

\* A placed key stays placed through such steps.
LEMMA PlacedStays ==
    ASSUME SatellitesOK(norad, created), SatellitesOK(norad, created)', KeepsNorads, GivesNoNorad,
           KeepsAnchoredLinks, gcat' = gcat, NEW k \in DOMAIN gcat, Placed(k)
    PROVE  Placed(k)'
  <1>1. PICK n : n = AnchorNumber(k)
    OBVIOUS
  <1>2. AnchorNumber(k)' = n
    BY <1>1 DEF AnchorNumber
  <1>3. SUFFICES ASSUME HasNorad(n)'
                 PROVE  PieceRows(WithNorad(n)', k, gcat[k].piece) \subseteq current'
    BY <1>2 DEF Placed
  <1>4. HasNorad(n) /\ WithNorad(n)' = WithNorad(n)
    BY <1>3, SameHolders
  <1>5. PieceRows(WithNorad(n), k, gcat[k].piece) \subseteq current /\ norad[WithNorad(n)] # 0
    BY <1>1, <1>4, HolderOfNorad DEF Placed
  <1>6. \A l \in PieceRows(WithNorad(n), k, gcat[k].piece) : l.sat = WithNorad(n)
    BY DEF PieceRows, Rows
  <1> QED BY <1>4, <1>5, <1>6 DEF KeepsAnchoredLinks

-----------------------------------------------------------------------------
(* Links.                                                                  *)

\* The rows a pass attaches are links on the satellites it names.
LEMMA RowsAreLinks ==
    ASSUME NEW type \in {"cospar", "gcat_id"}, NEW source \in {"satcat", "gcat"},
           NEW S, S \subseteq SatId, NEW pairs,
           \A x \in pairs : x[1] \in S /\ x[2] \in Key \cup Piece
    PROVE  /\ Rows(type, source, pairs) \subseteq Link
           /\ \A l \in Rows(type, source, pairs) : l.sat \in S
  <1> SUFFICES ASSUME NEW l \in Rows(type, source, pairs)
               PROVE  l \in Link /\ l.sat \in S
    OBVIOUS
  <1>1. PICK x \in pairs : l = [sat |-> x[1], type |-> type, value |-> x[2], source |-> source]
    BY DEF Rows
  <1>2. x[1] \in S /\ x[1] \in SatId /\ x[2] \in Key \cup Piece
    BY <1>1
  <1> QED BY ONLY <1>1, <1>2, type \in {"cospar", "gcat_id"}, source \in {"satcat", "gcat"} DEF Link

\* More pairs, more rows.
LEMMA MorePairs ==
    ASSUME NEW type, NEW source, NEW pairs, NEW more, \A x \in pairs : x \in more
    PROVE  Rows(type, source, pairs) \subseteq Rows(type, source, more)
  BY DEF Rows

\* Attaching links on satellites of the graph keeps the links in order.
LEMMA AttachOK ==
    ASSUME LinksOK, NEW new, Attach(new), new \subseteq Link, \A l \in new : l.sat \in Satellites',
           Satellites \subseteq Satellites', anchored' = anchored
    PROVE  LinksOK'
  BY DEF LinksOK, Attach

\* Satellite ids are within the bound.
LEMMA SatIds ==
    ASSUME NEW u, NEW top, SatellitesOK(u, top)
    PROVE  DOMAIN u \subseteq SatId
  BY ConstantsAssumption DEF SatellitesOK, SatId

-----------------------------------------------------------------------------
(* What each step keeps.                                                   *)

\* The state of the graph after a step, and what the step left alone.
GraphStep == SatellitesOK(norad, created)' /\ LinksOK' /\ KeepsNorads

LEMMA LinkSatcatStep ==
    ASSUME GraphInv, LinkSatcat
    PROVE  GraphStep /\ KeepsAnchoredLinks
  <1>1. PICK u : u = Upserted(DOMAIN satcat)
    OBVIOUS
  <1>2. /\ DOMAIN u \subseteq SatId /\ norad' = u
        /\ created' = created + Cardinality(DOMAIN u \ Satellites)
        /\ anchored' = anchored
    BY <1>1 DEF LinkSatcat
  <1>3. SatellitesOK(norad, created) /\ LinksOK /\ SatcatRows(satcat)
    BY DEF GraphInv, FeedsOK
  <1>4. DOMAIN satcat \subseteq Norad /\ IsFiniteSet(DOMAIN satcat)
    BY <1>3 DEF SatcatRows
  <1>5. /\ SatellitesOK(u, created + Cardinality(DOMAIN u \ Satellites))
        /\ Satellites \subseteq DOMAIN u /\ \A s \in Satellites : u[s] = norad[s]
        /\ \A n \in DOMAIN satcat : \E s \in DOMAIN u : u[s] = n
    BY <1>1, <1>2, <1>3, <1>4, UpsertedOK
  <1>6. SatellitesOK(norad, created)' /\ KeepsNorads /\ Satellites' = DOMAIN u
    BY <1>2, <1>5 DEF KeepsNorads, Satellites
  <1>7. PICK pairs : pairs = {<<Home(u, n), satcat[n]>> : n \in {m \in DOMAIN satcat : satcat[m] # NoPiece}}
    OBVIOUS
  <1>8. Attach(Rows("cospar", "satcat", pairs))
    BY <1>1, <1>7 DEF LinkSatcat
  <1>9. ASSUME NEW x \in pairs
        PROVE  x[1] \in DOMAIN u /\ x[2] \in Key \cup Piece
    <2>1. PICK n \in DOMAIN satcat : satcat[n] # NoPiece /\ x = <<Home(u, n), satcat[n]>>
      BY <1>7
    <2>2. satcat[n] \in Piece /\ n # 0
      BY <1>3, <1>4, <2>1, ConstantsAssumption DEF SatcatRows
    <2>3. Home(u, n) \in DOMAIN u
      BY <1>5, <2>2, HomeIsOne
    <2> QED BY <2>1, <2>2, <2>3
  <1>10. PICK new : new = Rows("cospar", "satcat", pairs)
    OBVIOUS
  <1>11. new \subseteq Link /\ \A l \in new : l.sat \in DOMAIN u
    BY <1>2, <1>9, <1>10, RowsAreLinks
  <1>12. LinksOK'
    BY <1>2, <1>3, <1>5, <1>6, <1>8, <1>10, <1>11, AttachOK
  <1>13. KeepsAnchoredLinks
    BY <1>8 DEF Attach, KeepsAnchoredLinks
  <1> QED BY <1>6, <1>12, <1>13 DEF GraphStep

\* The same, and each row with a NORAD is placed.
LEMMA LinkGcatStep ==
    ASSUME GraphInv, LinkGcat
    PROVE  GraphStep /\ KeepsAnchoredLinks /\ PlacedWithNorad'
  <1> DEFINE rows == {k \in DOMAIN gcat : gcat[k].norad # 0}
             ns == {gcat[k].norad : k \in rows}
  <1>1. PICK u : u = Upserted(ns)
    OBVIOUS
  <1>2. /\ DOMAIN u \subseteq SatId /\ norad' = u
        /\ created' = created + Cardinality(DOMAIN u \ Satellites)
        /\ anchored' = anchored /\ gcat' = gcat
    BY <1>1 DEF LinkGcat, feeds
  <1>3. SatellitesOK(norad, created) /\ LinksOK /\ GcatRows(gcat)
    BY DEF GraphInv, FeedsOK
  <1>4. /\ DOMAIN gcat \subseteq Key /\ IsFiniteSet(DOMAIN gcat)
        /\ \A k \in DOMAIN gcat : gcat[k].norad \in Norad \cup {0} /\ gcat[k].piece \in Piece \cup {NoPiece}
    BY <1>3 DEF GcatRows
  <1>5. ns \subseteq Norad /\ IsFiniteSet(ns) /\ 0 \notin ns
    <2>1. rows \in SUBSET DOMAIN gcat
      OBVIOUS
    <2>2. IsFiniteSet(rows)
      <3> HIDE DEF rows
      <3> QED BY <1>4, <2>1, FS_Subset
    <2>4. PICK f : f = [k \in rows |-> gcat[k].norad]
      OBVIOUS
    <2>5. IsFiniteSet({f[k] : k \in rows})
      <3>1. DOMAIN f = rows
        BY <2>4
      <3> HIDE DEF rows
      <3> QED BY <2>2, <3>1, FiniteImage
    <2>6. ns = {f[k] : k \in rows}
      BY <2>4
    <2>7. ns \subseteq Norad /\ 0 \notin ns
      BY <1>4
    <2> QED BY <2>5, <2>6, <2>7
  <1>6. /\ SatellitesOK(u, created + Cardinality(DOMAIN u \ Satellites))
        /\ Satellites \subseteq DOMAIN u /\ \A s \in Satellites : u[s] = norad[s]
        /\ \A n \in ns : \E s \in DOMAIN u : u[s] = n
    <2> HIDE DEF ns
    <2> QED BY <1>1, <1>2, <1>3, <1>5, UpsertedOK
  <1>7. SatellitesOK(norad, created)' /\ KeepsNorads /\ Satellites' = DOMAIN u
    BY <1>2, <1>6 DEF KeepsNorads, Satellites
  <1>8. ASSUME NEW k \in rows
        PROVE  /\ Home(u, gcat[k].norad) \in DOMAIN u /\ u[Home(u, gcat[k].norad)] = gcat[k].norad
               /\ gcat[k].norad # 0
    <2>1. gcat[k].norad \in ns /\ gcat[k].norad # 0
      OBVIOUS
    <2> HIDE DEF ns, rows
    <2> QED BY <1>6, <2>1, HomeIsOne
  <1>9. PICK keys : keys = {<<Home(u, gcat[k].norad), k>> : k \in rows}
    OBVIOUS
  <1>10. PICK pieces : pieces = {<<Home(u, gcat[k].norad), gcat[k].piece>> :
                                    k \in {j \in rows : gcat[j].piece # NoPiece}}
    OBVIOUS
  <1>11. PICK new : new = Rows("gcat_id", "gcat", keys) \cup Rows("cospar", "gcat", pieces)
    OBVIOUS
  <1>12. Attach(new)
    BY <1>1, <1>9, <1>10, <1>11 DEF LinkGcat
  <1>13. new \subseteq Link /\ \A l \in new : l.sat \in DOMAIN u
    <2>1. \A x \in keys : x[1] \in DOMAIN u /\ x[2] \in Key \cup Piece
      BY <1>4, <1>8, <1>9
    <2>2. \A x \in pieces : x[1] \in DOMAIN u /\ x[2] \in Key \cup Piece
      BY <1>4, <1>8, <1>10
    <2>3. /\ Rows("gcat_id", "gcat", keys) \subseteq Link
          /\ \A l \in Rows("gcat_id", "gcat", keys) : l.sat \in DOMAIN u
      BY <1>2, <2>1, RowsAreLinks
    <2>4. /\ Rows("cospar", "gcat", pieces) \subseteq Link
          /\ \A l \in Rows("cospar", "gcat", pieces) : l.sat \in DOMAIN u
      BY <1>2, <2>2, RowsAreLinks
    <2> QED BY <1>11, <2>3, <2>4
  <1>14. LinksOK'
    BY <1>2, <1>3, <1>6, <1>7, <1>12, <1>13, AttachOK
  <1>15. KeepsAnchoredLinks
    BY <1>12 DEF Attach, KeepsAnchoredLinks
  <1>16. ASSUME NEW k \in DOMAIN gcat, gcat[k].norad # 0
         PROVE  Placed(k)'
    <2>1. k \in rows /\ AnchorNumber(k)' = gcat[k].norad
      BY <1>2, <1>16 DEF AnchorNumber
    <2>2. PICK n : n = gcat[k].norad
      OBVIOUS
    <2>3. PICK s : s = Home(u, n)
      OBVIOUS
    <2>4. WithNorad(n)' = s
      BY <1>2, <2>3 DEF WithNorad, Home, Satellites
    <2>5. <<s, k>> \in keys /\ (gcat[k].piece # NoPiece => <<s, gcat[k].piece>> \in pieces)
      BY <1>9, <1>10, <2>1, <2>2, <2>3
    <2>6. PieceRows(s, k, gcat[k].piece) \subseteq new
      <3>1. Rows("gcat_id", "gcat", {<<s, k>>}) \subseteq new
        <4>1. \A x \in {<<s, k>>} : x \in keys
          BY <2>5
        <4>2. Rows("gcat_id", "gcat", {<<s, k>>}) \subseteq Rows("gcat_id", "gcat", keys)
          BY ONLY <4>1, MorePairs
        <4> QED BY <1>11, <4>2
      <3>2. ASSUME gcat[k].piece # NoPiece
            PROVE  Rows("cospar", "gcat", {<<s, gcat[k].piece>>}) \subseteq new
        <4>1. \A x \in {<<s, gcat[k].piece>>} : x \in pieces
          BY <2>5, <3>2
        <4>2. Rows("cospar", "gcat", {<<s, gcat[k].piece>>}) \subseteq Rows("cospar", "gcat", pieces)
          BY ONLY <4>1, MorePairs
        <4> QED BY <1>11, <4>2
      <3>3. Rows("cospar", "gcat", {}) = {}
        BY DEF Rows
      <3> QED BY <3>1, <3>2, <3>3 DEF PieceRows
    <2> QED BY <1>2, <1>12, <2>1, <2>2, <2>4, <2>6 DEF Placed, Attach
  <1>17. PlacedWithNorad'
    BY <1>2, <1>16 DEF PlacedWithNorad
  <1> QED BY <1>7, <1>14, <1>15, <1>17 DEF GraphStep

\* A row of the piece pass: the target is a satellite of the graph or the next one.
LEMMA TargetIsNear ==
    ASSUME SatellitesOK(norad, created), LinksOK, NEW k, NEW p
    PROVE  Target(k, p) \in Satellites \/ Target(k, p) = created + 1
  <1>1. CASE HasNorad(Number[k])
    BY <1>1, HolderOfNorad DEF Target
  <1>2. CASE ~HasNorad(Number[k]) /\ p # NoPiece /\ Holders(p) # {}
    <2>1. Holders(p) \subseteq Satellites /\ Satellites \subseteq Nat
      BY DEF Holders, LinksOK, SatellitesOK, Satellites
    <2>2. \E s \in Holders(p) : \A t \in Holders(p) : s <= t
      BY <1>2, <2>1, LeastNat
    <2>3. LowestHolder(p) \in Satellites
      BY <2>1, <2>2 DEF LowestHolder
    <2> QED BY <1>2, <2>3 DEF Target
  <1>3. CASE ~HasNorad(Number[k]) /\ ~(p # NoPiece /\ Holders(p) # {})
    BY <1>3 DEF Target
  <1> QED BY <1>1, <1>2, <1>3

\* A row of the piece pass gives no NORAD, and its key is placed if its number has a satellite.
LEMMA LinkPieceStep ==
    ASSUME GraphInv, NEW k, NEW p, LinkPiece(k, p)
    PROVE  /\ GraphStep /\ KeepsAnchoredLinks /\ GivesNoNorad
           /\ todo' = todo \ {<<k, p>>}
           /\ HasNorad(Number[k]) => PieceRows(WithNorad(Number[k]), k, p) \subseteq current'
  <1>1. SatellitesOK(norad, created) /\ LinksOK /\ k \in Key /\ p \in Piece \cup {NoPiece}
    BY DEF GraphInv, PiecesLeft, LinkPiece, Pieces
  <1>2. CASE p = NoPiece /\ ~HasNorad(Number[k])
    <2>1. UNCHANGED <<norad, created, anchored, links, current>>
      BY <1>2 DEF LinkPiece, graph
    <2> QED BY <1>1, <1>2, <2>1 DEF LinkPiece, GraphStep, KeepsAnchoredLinks, GivesNoNorad, KeepsNorads,
                                    SatellitesOK, LinksOK, Satellites
  <1>3. CASE ~(p = NoPiece /\ ~HasNorad(Number[k]))
    <2>1. PICK s : s = Target(k, p)
      OBVIOUS
    <2>2. /\ s \in SatId
          /\ norad' = [t \in Satellites \cup {s} |-> IF t \in Satellites THEN norad[t] ELSE 0]
          /\ created' = IF s \in Satellites THEN created ELSE s
          /\ Attach(PieceRows(s, k, p)) /\ anchored' = anchored
      BY <1>3, <2>1 DEF LinkPiece
    <2>3. s \in Satellites \/ s = created + 1
      BY <1>1, <2>1, TargetIsNear
    <2>4. /\ Satellites' = Satellites \cup {s}
          /\ \A t \in Satellites : norad'[t] = norad[t]
          /\ s \notin Satellites => norad'[s] = 0
      BY <2>2 DEF Satellites
    <2>5. KeepsNorads /\ GivesNoNorad
      BY <2>4 DEF KeepsNorads, GivesNoNorad
    <2>6. created \in Nat /\ MaxSat \in Nat /\ Satellites \subseteq 1..created /\ created <= MaxSat
      BY <1>1, ConstantsAssumption DEF SatellitesOK, Satellites
    <2>7. created' \in 0..MaxSat /\ Satellites' \subseteq 1..created'
      <3>1. CASE s \in Satellites
        BY <2>2, <2>4, <2>6, <3>1
      <3>2. CASE s \notin Satellites
        <4>1. s = created + 1 /\ created' = s /\ s <= MaxSat
          BY <2>2, <2>3, <2>6, <3>2 DEF SatId
        <4> QED BY <2>4, <2>6, <4>1
      <3> QED BY <3>1, <3>2
    <2>8. SatellitesOK(norad, created)'
      <3>1. \A t \in Satellites' : norad'[t] \in Norad \cup {0}
        BY <1>1, <2>4 DEF SatellitesOK, Satellites
      <3>2. \A t, v \in Satellites' : norad'[t] # 0 /\ norad'[t] = norad'[v] => t = v
        BY <1>1, <2>4 DEF SatellitesOK, Satellites
      <3> QED BY <2>7, <3>1, <3>2 DEF SatellitesOK, Satellites
    <2>9. PICK new : new = PieceRows(s, k, p)
      OBVIOUS
    <2>10. new \subseteq Link /\ \A l \in new : l.sat \in {s}
      <3>1. /\ Rows("gcat_id", "gcat", {<<s, k>>}) \subseteq Link
            /\ \A l \in Rows("gcat_id", "gcat", {<<s, k>>}) : l.sat \in {s}
        <4>1. \A x \in {<<s, k>>} : x[1] \in {s} /\ x[2] \in Key \cup Piece
          BY <1>1
        <4> QED BY <2>2, <4>1, RowsAreLinks
      <3>2. PICK pairs : pairs = IF p = NoPiece THEN {} ELSE {<<s, p>>}
        OBVIOUS
      <3>3. /\ Rows("cospar", "gcat", pairs) \subseteq Link
            /\ \A l \in Rows("cospar", "gcat", pairs) : l.sat \in {s}
        <4>1. \A x \in pairs : x[1] \in {s} /\ x[2] \in Key \cup Piece
          BY <1>1, <3>2
        <4> QED BY <2>2, <4>1, RowsAreLinks
      <3> QED BY <2>9, <3>1, <3>2, <3>3 DEF PieceRows
    <2>11. LinksOK'
      BY <1>1, <2>2, <2>4, <2>9, <2>10, AttachOK
    <2>12. KeepsAnchoredLinks
      BY <2>2 DEF Attach, KeepsAnchoredLinks
    <2>13. HasNorad(Number[k]) => PieceRows(WithNorad(Number[k]), k, p) \subseteq current'
      BY <2>1, <2>2 DEF Target, Attach
    <2>14. todo' = todo \ {<<k, p>>}
      BY DEF LinkPiece
    <2> QED BY <2>5, <2>8, <2>11, <2>12, <2>13, <2>14 DEF GraphStep
  <1> QED BY <1>2, <1>3

\* The fuzzy pass only attaches keys to satellites that carry a NORAD.
LEMMA LinkFuzzyStep ==
    ASSUME GraphInv, LinkFuzzy
    PROVE  GraphStep /\ KeepsAnchoredLinks /\ GivesNoNorad
  <1>1. SatellitesOK(norad, created) /\ LinksOK /\ GcatRows(gcat)
    BY DEF GraphInv, FeedsOK
  <1>2. UNCHANGED <<norad, created, anchored>>
    BY DEF LinkFuzzy
  <1>3. SatellitesOK(norad, created)' /\ KeepsNorads /\ GivesNoNorad /\ Satellites' = Satellites
    BY <1>1, <1>2 DEF SatellitesOK, KeepsNorads, GivesNoNorad, Satellites
  <1>4. PICK probes : /\ probes \subseteq DOMAIN gcat /\ \A k \in probes : HasNorad(gcat[k].best)
                      /\ Attach(Rows("gcat_id", "gcat", {<<WithNorad(gcat[k].best), k>> : k \in probes}))
    BY DEF LinkFuzzy
  <1>5. PICK pairs : pairs = {<<WithNorad(gcat[k].best), k>> : k \in probes}
    OBVIOUS
  <1>6. \A x \in pairs : x[1] \in Satellites /\ x[2] \in Key \cup Piece
    <2>1. ASSUME NEW k \in probes
          PROVE  WithNorad(gcat[k].best) \in Satellites /\ k \in Key
      BY <1>1, <1>4, HolderOfNorad DEF GcatRows
    <2> QED BY <1>5, <2>1
  <1>7. Satellites \subseteq SatId
    BY <1>1, SatIds DEF Satellites
  <1>8. PICK new : new = Rows("gcat_id", "gcat", pairs)
    OBVIOUS
  <1>9. new \subseteq Link /\ \A l \in new : l.sat \in Satellites
    BY <1>6, <1>7, <1>8, RowsAreLinks
  <1>10. LinksOK'
    BY <1>1, <1>2, <1>3, <1>4, <1>5, <1>8, <1>9, AttachOK
  <1>11. KeepsAnchoredLinks
    BY <1>4 DEF Attach, KeepsAnchoredLinks
  <1> QED BY <1>3, <1>10, <1>11 DEF GraphStep

\* A merge folds a provisional satellite into another: no NORAD is given or lost, and what the
\* anchored ones hold stays.
LEMMA MergeStep ==
    ASSUME SatellitesOK(norad, created), LinksOK, NEW p \in Satellites, NEW n \in Satellites,
           norad[p] = 0, norad[n] # 0, Merge(n, p), created' = created
    PROVE  GraphStep /\ KeepsAnchoredLinks /\ GivesNoNorad /\ Satellites' = Satellites \ {p}
  <1>1. norad' = [s \in Satellites \ {p} |-> norad[s]] /\ anchored' = anchored \ {p}
    BY DEF Merge
  <1>2. /\ Satellites' = Satellites \ {p} /\ Satellites' \subseteq Satellites
        /\ \A s \in Satellites' : norad'[s] = norad[s]
    BY <1>1 DEF Satellites
  <1>3. KeepsNorads /\ GivesNoNorad
    BY <1>2 DEF KeepsNorads, GivesNoNorad
  <1>4. SatellitesOK(norad, created)'
    BY <1>2 DEF SatellitesOK, Satellites
  <1>5. PICK kept : /\ kept = {l \in links : l.sat = p /\ Moved(l, n) \notin links}
                    /\ links' = {l \in links : l.sat # p} \cup {Moved(l, n) : l \in kept}
                    /\ current' = {l \in current : l.sat # p} \cup {Moved(l, n) : l \in kept \cap current}
    BY DEF Merge
  <1>6. n # p /\ n \in Satellites'
    BY <1>2
  <1>7. ASSUME NEW l \in Link
        PROVE  Moved(l, n) \in Link /\ Moved(l, n).sat = n
    <2>1. n \in SatId
      BY SatIds DEF Satellites
    <2> QED BY <2>1 DEF Moved, Link
  <1>8. LinksOK'
    <2>1. anchored' \subseteq Satellites'
      BY <1>1, <1>2 DEF LinksOK
    <2>2. links' \subseteq Link /\ \A l \in links' : l.sat \in Satellites'
      BY <1>2, <1>5, <1>6, <1>7 DEF LinksOK
    <2>3. current' \subseteq links'
      BY <1>5 DEF LinksOK
    <2> QED BY <2>1, <2>2, <2>3 DEF LinksOK
  <1>9. KeepsAnchoredLinks
    BY <1>5 DEF KeepsAnchoredLinks
  <1> QED BY <1>2, <1>3, <1>4, <1>8, <1>9 DEF GraphStep

\* One candidate: declined or merged.
LEMMA PromoteStep ==
    ASSUME GraphInv, NEW p, NEW n, Promote(p, n)
    PROVE  /\ GraphStep /\ KeepsAnchoredLinks /\ GivesNoNorad
           /\ CandidatesLeft'
  <1>1. /\ SatellitesOK(norad, created) /\ LinksOK /\ <<p, n>> \in todo /\ phase = "merging"
        /\ todo' = todo \ {<<p, n>>} /\ phase' = phase /\ created' = created
    BY DEF GraphInv, Promote
  <1>2. /\ \A x \in todo : Candidate(x) /\ x = <<x[1], x[2]>>
        /\ \A x, y \in todo : x[1] = y[1] => x = y
    BY <1>1 DEF GraphInv, CandidatesLeft
  <1>3. p \in Satellites /\ n \in Satellites /\ norad[p] = 0 /\ norad[n] # 0
    <2>1. PICK x \in todo : x = <<p, n>>
      BY <1>1
    <2> QED BY <1>2, <2>1 DEF Candidate
  <1>4. CASE UNCHANGED <<norad, anchored, links, current>>
    <2>1. GraphStep /\ KeepsAnchoredLinks /\ GivesNoNorad
      BY <1>1, <1>4 DEF GraphStep, SatellitesOK, LinksOK, KeepsNorads, GivesNoNorad, KeepsAnchoredLinks,
                        Satellites
    <2>2. CandidatesLeft'
      BY <1>1, <1>2, <1>4 DEF CandidatesLeft, Candidate, Satellites
    <2> QED BY <2>1, <2>2
  <1>5. CASE Merge(n, p)
    <2>1. GraphStep /\ KeepsAnchoredLinks /\ GivesNoNorad /\ Satellites' = Satellites \ {p}
      BY <1>1, <1>3, <1>5, MergeStep
    <2>2. \A s \in Satellites' : norad'[s] = norad[s]
      BY <1>5, <2>1 DEF Merge
    <2>3. ASSUME NEW x \in todo'
          PROVE  Candidate(x)' /\ x = <<x[1], x[2]>>
      <3>1. x \in todo /\ x # <<p, n>> /\ <<p, n>>[1] = p
        BY <1>1
      <3>2. x[1] # p
        BY <1>1, <1>2, <3>1
      <3>3. x[2] # p
        BY <1>2, <1>3, <3>1 DEF Candidate
      <3> QED BY <1>2, <2>1, <2>2, <3>1, <3>2, <3>3 DEF Candidate
    <2>4. \A x, y \in todo' : x[1] = y[1] => x = y
      BY <1>1, <1>2
    <2> QED BY <2>1, <2>3, <2>4 DEF CandidatesLeft
  <1> QED BY <1>4, <1>5 DEF Promote

\* Retiring links leaves the graph.
LEMMA RetireStep ==
    ASSUME GraphInv, current' \subseteq current, UNCHANGED <<norad, created, anchored, links>>
    PROVE  GraphStep /\ GivesNoNorad
  BY DEF GraphInv, GraphStep, SatellitesOK, LinksOK, KeepsNorads, GivesNoNorad, Satellites

\* So does a step that touches nothing of it.
LEMMA IdleStep ==
    ASSUME GraphInv, UNCHANGED graph
    PROVE  GraphStep /\ GivesNoNorad /\ KeepsAnchoredLinks
  BY DEF GraphInv, GraphStep, SatellitesOK, LinksOK, KeepsNorads, GivesNoNorad, Satellites,
         KeepsAnchoredLinks, graph

-----------------------------------------------------------------------------
(* The anchored keys.                                                      *)

\* Through a step that leaves the NORADs and the anchored links, what was placed is placed.
LEMMA AllStayPlaced ==
    ASSUME SatellitesOK(norad, created), GraphStep, GivesNoNorad, KeepsAnchoredLinks, gcat' = gcat
    PROVE  (AllPlaced => AllPlaced') /\ (PlacedWithNorad => PlacedWithNorad')
  <1>1. \A k \in DOMAIN gcat : Placed(k) => Placed(k)'
    BY PlacedStays DEF GraphStep
  <1> QED BY <1>1 DEF AllPlaced, PlacedWithNorad

\* Once all keys are placed, the anchor of a key or a piece holds it.
LEMMA AnchorHolds ==
    ASSUME AllPlaced, NEW type \in {"gcat_id", "cospar"}, NEW value \in Key \cup Piece,
           NEW s \in Anchors(type, value)
    PROVE  [sat |-> s, type |-> type, value |-> value, source |-> "gcat"] \in current
  <1>1. PICK k \in DOMAIN gcat : /\ HasNorad(AnchorNumber(k)) /\ s = WithNorad(AnchorNumber(k))
                                 /\ value = IF type = "gcat_id" THEN k ELSE gcat[k].piece
    BY DEF Anchors
  <1>2. PieceRows(s, k, gcat[k].piece) \subseteq current
    BY <1>1 DEF AllPlaced, Placed
  <1>3. PICK p : p = gcat[k].piece
    OBVIOUS
  <1>4. CASE type = "gcat_id"
    <2>1. [sat |-> s, type |-> "gcat_id", value |-> k, source |-> "gcat"] \in PieceRows(s, k, p)
      BY DEF PieceRows, Rows
    <2> QED BY <1>1, <1>2, <1>3, <1>4, <2>1
  <1>5. CASE type = "cospar"
    <2>1. p = value /\ p # NoPiece
      BY <1>1, <1>3, <1>5, ConstantsAssumption
    <2>2. [sat |-> s, type |-> "cospar", value |-> p, source |-> "gcat"] \in PieceRows(s, k, p)
      BY <2>1 DEF PieceRows, Rows
    <2> QED BY <1>2, <1>3, <1>5, <2>1, <2>2
  <1> QED BY <1>4, <1>5

\* An anchor is a satellite with a NORAD.
LEMMA AnchorHasNorad ==
    ASSUME SatellitesOK(norad, created), NEW type, NEW value, NEW s \in Anchors(type, value)
    PROVE  s \in Satellites /\ norad[s] # 0
  <1>1. PICK n : HasNorad(n) /\ s = WithNorad(n)
    BY DEF Anchors
  <1> QED BY <1>1, HolderOfNorad

\* Retiring the misplaced links leaves every anchored key on its one anchor.
LEMMA ExpireMovedGivesOneHome ==
    ASSUME GraphInv, AllPlaced, ExpireMoved
    PROVE  OneHome'
  <1>1. current' = current \ Misplaced /\ norad' = norad /\ gcat' = gcat
    BY DEF ExpireMoved, feeds
  <1>2. LinksOK /\ SatellitesOK(norad, created)
    BY DEF GraphInv
  <1>3. SUFFICES ASSUME NEW type \in {"gcat_id", "cospar"}, NEW value \in Key \cup Piece,
                        NEW s \in Satellites, Anchors(type, value) = {s}
                 PROVE  HoldersOf(type, value)' = {s}
    <2>1. Satellites' = Satellites
      BY <1>1 DEF Satellites
    <2>2. \A type, value : Anchors(type, value)' = Anchors(type, value)
      BY <1>1 DEF Anchors, AnchorNumber, HasNorad, WithNorad, Satellites
    <2> QED BY <2>1, <2>2 DEF OneHome
  <1>4. PICK h : h = [sat |-> s, type |-> type, value |-> value, source |-> "gcat"]
    OBVIOUS
  <1>5. h \in current /\ h.sat = s /\ h.type = type /\ h.value = value /\ h.source = "gcat"
    BY <1>3, <1>4, AnchorHolds
  <1>6. h \in current'
    BY <1>1, <1>3, <1>5 DEF Misplaced
  <1>7. ASSUME NEW l \in current', l.type = type, l.value = value, l.source = "gcat"
        PROVE  l.sat = s
    <2>1. l \in current /\ l \notin Misplaced /\ l \in Link
      BY <1>1, <1>2 DEF LinksOK
    <2>2. [l EXCEPT !.sat = s] = h
      BY <1>4, <1>7, <2>1 DEF Link
    <2>3. HeldBy(s, l)
      BY <1>5, <2>2 DEF HeldBy
    <2> QED BY <1>3, <1>7, <2>1, <2>3 DEF Misplaced
  <1> QED BY <1>5, <1>6, <1>7 DEF HoldersOf

\* Retiring the contested links takes none from an anchor.
LEMMA ExpireContestedKeepsOneHome ==
    ASSUME GraphInv, OneHome, ExpireContested, phase = "contested"
    PROVE  OneHome'
  <1>1. current' = current \ Contested /\ norad' = norad /\ gcat' = gcat
    BY DEF ExpireContested, feeds
  <1>2. SatellitesOK(norad, created) /\ \A s \in Satellites : norad[s] # 0 => s \in anchored
    BY DEF GraphInv, AnchorsFresh
  <1>3. SUFFICES ASSUME NEW type \in {"gcat_id", "cospar"}, NEW value \in Key \cup Piece,
                        NEW s \in Satellites, Anchors(type, value) = {s}
                 PROVE  HoldersOf(type, value)' = {s}
    <2>1. Satellites' = Satellites
      BY <1>1 DEF Satellites
    <2>2. \A type, value : Anchors(type, value)' = Anchors(type, value)
      BY <1>1 DEF Anchors, AnchorNumber, HasNorad, WithNorad, Satellites
    <2> QED BY <2>1, <2>2 DEF OneHome
  <1>4. HoldersOf(type, value) = {s}
    BY <1>3 DEF OneHome
  <1>5. s \in anchored
    BY <1>2, <1>3, AnchorHasNorad
  <1>6. PICK l \in current : l.type = type /\ l.value = value /\ l.source = "gcat" /\ l.sat = s
    BY <1>4 DEF HoldersOf
  <1>7. l \in current'
    BY <1>1, <1>5, <1>6 DEF Contested
  <1>8. HoldersOf(type, value)' \subseteq HoldersOf(type, value)
    BY <1>1 DEF HoldersOf
  <1>9. s \in HoldersOf(type, value)'
    BY <1>6, <1>7 DEF HoldersOf
  <1> QED BY <1>4, <1>8, <1>9

-----------------------------------------------------------------------------
(* The inductive invariant.                                                *)

LEMMA GraphInitially ==
    ASSUME Init
    PROVE  GraphInv
  <1>1. DOMAIN satcat = {} /\ DOMAIN gcat = {} /\ DOMAIN norad = {}
    BY DEF Init
  <1>2. SatcatRows(satcat) /\ GcatRows(gcat)
    BY <1>1, FS_EmptySet DEF SatcatRows, GcatRows
  <1>3. FeedsOK /\ PiecesLeft /\ CandidatesLeft /\ AnchorsFresh /\ BuiltSoFar
    BY <1>2 DEF Init, FeedsOK, Phases, PiecesLeft, CandidatesLeft, AnchorsFresh, BuiltSoFar
  <1>4. SatellitesOK(norad, created) /\ LinksOK
    BY <1>1, ConstantsAssumption DEF Init, SatellitesOK, LinksOK, Satellites
  <1>5. OneHome
    BY <1>1 DEF OneHome, Satellites
  <1> QED BY <1>3, <1>4, <1>5 DEF GraphInv

\* The feeds stay in order through a step of the build.
LEMMA BuildLeavesFeeds ==
    ASSUME FeedsOK, UNCHANGED feeds, phase' \in Phases,
           \/ UNCHANGED <<began, settled>>
           \/ began' = published /\ settled' = settled
           \/ began' = began /\ settled' \in {published, 0}
    PROVE  FeedsOK'
  BY DEF FeedsOK, feeds, SatcatRows, GcatRows

\* A published snapshot: the running build is not quiet any more.
LEMMA PublishKeeps ==
    ASSUME GraphInv, PublishSatcat \/ PublishGcat
    PROVE  GraphInv'
  <1>1. UNCHANGED <<phase, todo, norad, created, anchored, links, current, began, settled>>
        /\ published' = published + 1
    BY DEF PublishSatcat, PublishGcat, graph, hist
  <1>2. SatcatRows(satcat)' /\ GcatRows(gcat)'
    BY ConstantsAssumption DEF PublishSatcat, PublishGcat, GraphInv, FeedsOK, SatcatRows, GcatRows
  <1>3. FeedsOK' /\ began' # published' /\ settled' # published'
    BY <1>1, <1>2 DEF GraphInv, FeedsOK
  <1>4. SatellitesOK(norad, created)' /\ LinksOK'
    BY <1>1, IdleStep DEF GraphStep, graph
  <1>5. PiecesLeft' /\ CandidatesLeft' /\ AnchorsFresh'
    BY <1>1 DEF GraphInv, PiecesLeft, CandidatesLeft, AnchorsFresh, Candidate, Satellites
  <1>6. BuiltSoFar'
    BY <1>3 DEF BuiltSoFar, Quiet
  <1> QED BY <1>3, <1>4, <1>5, <1>6 DEF GraphInv

\* What is left to show of a step of the build that ends in another phase than the loops and
\* the last ones.
LEMMA PhaseKeeps ==
    ASSUME GraphInv, GraphStep, UNCHANGED <<feeds, began, settled>>,
           phase' \in Phases \ {"idle", "piece", "merging", "moved", "contested"}, BuiltSoFar'
    PROVE  GraphInv'
  <1>1. FeedsOK'
    BY BuildLeavesFeeds DEF GraphInv
  <1>2. PiecesLeft' /\ CandidatesLeft' /\ AnchorsFresh'
    BY DEF PiecesLeft, CandidatesLeft, AnchorsFresh
  <1> QED BY <1>1, <1>2 DEF GraphInv, GraphStep

\* From the end of the piece pass to the retiring of moved keys all keys stay placed.
LEMMA StaysBuilt ==
    ASSUME GraphInv, GraphStep, GivesNoNorad, KeepsAnchoredLinks, UNCHANGED <<feeds, began>>,
           phase \in {"fuzzy", "promote", "merging", "detect", "anchor"},
           phase' \in {"promote", "merging", "detect", "anchor", "moved"}
    PROVE  BuiltSoFar'
  <1>1. Quiet' => AllPlaced
    BY DEF GraphInv, BuiltSoFar, Quiet, feeds
  <1>2. Quiet' => AllPlaced'
    BY <1>1, AllStayPlaced DEF GraphInv, feeds
  <1> QED BY <1>2 DEF BuiltSoFar

\* The matchers.
LEMMA MatchKeeps ==
    ASSUME GraphInv, Match
    PROVE  GraphInv'
  <1>1. CASE LinkSatcat
    <2>1. GraphStep /\ UNCHANGED <<feeds, began, settled>> /\ phase' = "gcat"
      BY <1>1, LinkSatcatStep DEF LinkSatcat, hist
    <2>2. BuiltSoFar'
      BY <2>1 DEF BuiltSoFar
    <2> QED BY <2>1, <2>2, PhaseKeeps DEF Phases
  <1>2. CASE LinkGcat
    <2>1. GraphStep /\ UNCHANGED <<feeds, began, settled>> /\ phase' = "pieces" /\ PlacedWithNorad'
      BY <1>2, LinkGcatStep DEF LinkGcat, hist
    <2>2. BuiltSoFar'
      BY <2>1 DEF BuiltSoFar
    <2> QED BY <2>1, <2>2, PhaseKeeps DEF Phases
  <1>3. CASE ReadPieces
    <2>1. /\ UNCHANGED <<feeds, graph, began, settled>> /\ phase = "pieces" /\ phase' = "piece"
          /\ todo' = {<<k, gcat[k].piece>> : k \in {j \in DOMAIN gcat : gcat[j].norad = 0}}
      BY <1>3 DEF ReadPieces, hist
    <2>2. GraphStep /\ GivesNoNorad /\ KeepsAnchoredLinks
      BY <2>1, IdleStep
    <2>3. FeedsOK'
      BY <2>1, BuildLeavesFeeds DEF GraphInv, Phases
    <2>4. CandidatesLeft' /\ AnchorsFresh'
      BY <2>1 DEF CandidatesLeft, AnchorsFresh
    <2>5. GcatRows(gcat) /\ gcat' = gcat
      BY <2>1 DEF GraphInv, FeedsOK, feeds
    <2>6. PiecesLeft'
      BY <2>1, <2>5 DEF PiecesLeft, GcatRows, Pieces
    <2>7. PlacedSoFar'
      BY <2>1, <2>5 DEF PlacedSoFar
    <2>8. Quiet' => PlacedWithNorad'
      <3>1. Quiet' => PlacedWithNorad
        BY <2>1 DEF GraphInv, BuiltSoFar, Quiet, feeds
      <3> QED BY <3>1, <2>2, <2>5, AllStayPlaced DEF GraphInv
    <2>9. BuiltSoFar'
      BY <2>1, <2>7, <2>8 DEF BuiltSoFar
    <2> QED BY <2>1, <2>2, <2>3, <2>4, <2>6, <2>9 DEF GraphInv, GraphStep
  <1>4. ASSUME NEW x \in todo, LinkPiece(x[1], x[2])
        PROVE  GraphInv'
    <2>1. PICK k, p : k = x[1] /\ p = x[2]
      OBVIOUS
    <2>2. /\ GraphStep /\ KeepsAnchoredLinks /\ GivesNoNorad
          /\ todo' = todo \ {<<k, p>>}
          /\ HasNorad(Number[k]) => PieceRows(WithNorad(Number[k]), k, p) \subseteq current'
      BY <1>4, <2>1, LinkPieceStep
    <2>3. UNCHANGED <<feeds, began, settled>> /\ phase = "piece" /\ phase' = "piece"
      BY <1>4 DEF LinkPiece, hist
    <2>4. FeedsOK'
      BY <2>3, BuildLeavesFeeds DEF GraphInv, Phases
    <2>5. CandidatesLeft' /\ AnchorsFresh'
      BY <2>3 DEF CandidatesLeft, AnchorsFresh
    <2>6. PiecesLeft'
      BY <2>2, <2>3 DEF GraphInv, PiecesLeft
    <2>7. ASSUME Quiet', NEW j \in DOMAIN gcat, gcat[j].norad = 0
          PROVE  Placed(j)' \/ <<j, gcat[j].piece>> \in todo'
      <3>1. gcat' = gcat /\ SatellitesOK(norad, created) /\ SatellitesOK(norad, created)' /\ KeepsNorads
        BY <2>2, <2>3 DEF GraphInv, GraphStep, feeds
      <3>2. Placed(j) \/ <<j, gcat[j].piece>> \in todo
        BY <2>3, <2>7 DEF GraphInv, BuiltSoFar, Quiet, PlacedSoFar, feeds
      <3>3. CASE Placed(j)
        BY <2>2, <3>1, <3>3, PlacedStays
      <3>4. CASE <<j, gcat[j].piece>> \in todo /\ <<j, gcat[j].piece>> # <<k, p>>
        BY <2>2, <3>4
      <3>5. CASE <<j, gcat[j].piece>> = <<k, p>>
        <4>1. j = k /\ gcat[j].piece = p
          BY <3>5
        <4>2. PICK n : n = Number[k]
          OBVIOUS
        <4>3. AnchorNumber(j)' = n /\ gcat'[j].piece = p
          BY <2>7, <3>1, <4>1, <4>2 DEF AnchorNumber
        <4>4. (HasNorad(n)' <=> HasNorad(n)) /\ (HasNorad(n) => WithNorad(n)' = WithNorad(n))
          BY <2>2, <3>1, SameHolders
        <4> QED BY <2>2, <4>1, <4>2, <4>3, <4>4 DEF Placed
      <3> QED BY <3>2, <3>3, <3>4, <3>5
    <2>8. Quiet' => PlacedWithNorad'
      <3>1. Quiet' => PlacedWithNorad
        BY <2>3 DEF GraphInv, BuiltSoFar, Quiet, feeds
      <3> QED BY <3>1, <2>2, <2>3, AllStayPlaced DEF GraphInv, feeds
    <2>9. BuiltSoFar'
      BY <2>3, <2>7, <2>8 DEF BuiltSoFar, PlacedSoFar, feeds
    <2> QED BY <2>2, <2>3, <2>4, <2>5, <2>6, <2>9 DEF GraphInv, GraphStep
  <1>5. CASE PiecesDone
    <2>1. UNCHANGED <<feeds, graph, began, settled>> /\ phase = "piece" /\ phase' = "fuzzy" /\ todo = {}
      BY <1>5 DEF PiecesDone, hist
    <2>2. GraphStep /\ GivesNoNorad /\ KeepsAnchoredLinks
      BY <2>1, IdleStep
    <2>3. Quiet' => AllPlaced
      <3>1. Quiet' => PlacedWithNorad /\ PlacedSoFar
        BY <2>1 DEF GraphInv, BuiltSoFar, Quiet, feeds
      <3> QED BY <2>1, <3>1 DEF PlacedWithNorad, PlacedSoFar, AllPlaced
    <2>4. Quiet' => AllPlaced'
      BY <2>1, <2>2, <2>3, AllStayPlaced DEF GraphInv, feeds
    <2>5. BuiltSoFar'
      BY <2>1, <2>4 DEF BuiltSoFar
    <2> QED BY <2>1, <2>2, <2>5, PhaseKeeps DEF Phases
  <1>6. CASE LinkFuzzy
    <2>1. UNCHANGED <<feeds, began, settled>> /\ phase = "fuzzy" /\ phase' = "promote"
      BY <1>6 DEF LinkFuzzy, hist
    <2>2. GraphStep /\ GivesNoNorad /\ KeepsAnchoredLinks
      BY <1>6, LinkFuzzyStep
    <2> QED BY <2>1, <2>2, StaysBuilt, PhaseKeeps DEF Phases
  <1> QED BY <1>1, <1>2, <1>3, <1>4, <1>5, <1>6 DEF Match

\* The promotion of provisional satellites.
LEMMA ReconcileKeeps ==
    ASSUME GraphInv, Reconcile
    PROVE  GraphInv'
  <1>1. CASE ReadCandidates
    <2>1. /\ UNCHANGED <<feeds, graph, began, settled>> /\ phase = "promote" /\ phase' = "merging"
          /\ todo' = {x \in Satellites \X Satellites : norad[x[1]] = 0 /\ Twins(x[1]) = {x[2]}}
      BY <1>1 DEF ReadCandidates, hist
    <2>2. GraphStep /\ GivesNoNorad /\ KeepsAnchoredLinks
      BY <2>1, IdleStep
    <2>3. FeedsOK'
      BY <2>1, BuildLeavesFeeds DEF GraphInv, Phases
    <2>4. PiecesLeft' /\ AnchorsFresh'
      BY <2>1 DEF PiecesLeft, AnchorsFresh
    <2>5. norad' = norad /\ Satellites' = Satellites
      BY <2>1 DEF graph, Satellites
    <2>6. ASSUME NEW x \in todo'
          PROVE  Candidate(x)' /\ x = <<x[1], x[2]>> /\ Twins(x[1]) = {x[2]}
      <3>1. x \in Satellites \X Satellites /\ norad[x[1]] = 0 /\ Twins(x[1]) = {x[2]}
        BY <2>1
      <3>2. norad[x[2]] # 0
        BY <3>1 DEF Twins
      <3> QED BY <2>5, <3>1, <3>2 DEF Candidate
    <2>7. ASSUME NEW x \in todo', NEW y \in todo', x[1] = y[1]
          PROVE  x = y
      <3>1. x[2] = y[2]
        BY <2>6, <2>7
      <3> QED BY <2>6, <2>7, <3>1
    <2>8. CandidatesLeft'
      BY <2>6, <2>7 DEF CandidatesLeft
    <2>9. BuiltSoFar'
      BY <2>1, <2>2, StaysBuilt
    <2> QED BY <2>1, <2>2, <2>3, <2>4, <2>8, <2>9 DEF GraphInv, GraphStep
  <1>2. ASSUME NEW x \in todo, Promote(x[1], x[2])
        PROVE  GraphInv'
    <2>1. PICK p, n : p = x[1] /\ n = x[2]
      OBVIOUS
    <2>2. GraphStep /\ KeepsAnchoredLinks /\ GivesNoNorad /\ CandidatesLeft'
      BY <1>2, <2>1, PromoteStep
    <2>3. UNCHANGED <<feeds, began, settled>> /\ phase = "merging" /\ phase' = "merging"
      BY <1>2 DEF Promote, hist
    <2>4. FeedsOK'
      BY <2>3, BuildLeavesFeeds DEF GraphInv, Phases
    <2>5. PiecesLeft' /\ AnchorsFresh'
      BY <2>3 DEF PiecesLeft, AnchorsFresh
    <2>6. BuiltSoFar'
      BY <2>2, <2>3, StaysBuilt
    <2> QED BY <2>2, <2>3, <2>4, <2>5, <2>6 DEF GraphInv, GraphStep
  <1>3. CASE PromotionDone
    <2>1. UNCHANGED <<feeds, graph, began, settled>> /\ phase = "merging" /\ phase' = "detect"
      BY <1>3 DEF PromotionDone, hist
    <2>2. GraphStep /\ GivesNoNorad /\ KeepsAnchoredLinks
      BY <2>1, IdleStep
    <2> QED BY <2>1, <2>2, StaysBuilt, PhaseKeeps DEF Phases
  <1> QED BY <1>1, <1>2, <1>3 DEF Reconcile

\* The churn pass, to the commit.
LEMMA ChurnKeeps ==
    ASSUME GraphInv, Churn
    PROVE  GraphInv'
  <1>1. CASE Detect
    <2>1. UNCHANGED <<feeds, graph, began, settled>> /\ phase = "detect" /\ phase' = "anchor"
      BY <1>1 DEF Detect, hist
    <2>2. GraphStep /\ GivesNoNorad /\ KeepsAnchoredLinks
      BY <2>1, IdleStep
    <2> QED BY <2>1, <2>2, StaysBuilt, PhaseKeeps DEF Phases
  <1>2. CASE RefreshAnchors
    <2>1. /\ UNCHANGED <<feeds, norad, created, links, current, began, settled>>
          /\ phase = "anchor" /\ phase' = "moved"
          /\ anchored' = anchored \cup {s \in Satellites : norad[s] # 0}
      BY <1>2 DEF RefreshAnchors, hist
    <2>2. GraphStep /\ GivesNoNorad /\ KeepsAnchoredLinks
      BY <2>1 DEF GraphInv, GraphStep, SatellitesOK, LinksOK, KeepsNorads, GivesNoNorad, Satellites,
                  KeepsAnchoredLinks
    <2>3. FeedsOK'
      BY <2>1, BuildLeavesFeeds DEF GraphInv, Phases
    <2>4. PiecesLeft' /\ CandidatesLeft'
      BY <2>1 DEF PiecesLeft, CandidatesLeft
    <2>5. AnchorsFresh'
      BY <2>1 DEF AnchorsFresh, Satellites
    <2>6. BuiltSoFar'
      BY <2>1, <2>2, StaysBuilt
    <2> QED BY <2>1, <2>2, <2>3, <2>4, <2>5, <2>6 DEF GraphInv, GraphStep
  <1>3. CASE ExpireMoved
    <2>1. /\ UNCHANGED <<feeds, norad, created, anchored, links, began, settled>>
          /\ phase = "moved" /\ phase' = "contested" /\ current' \subseteq current
      BY <1>3 DEF ExpireMoved, hist
    <2>2. GraphStep
      BY <2>1, RetireStep
    <2>3. FeedsOK'
      BY <2>1, BuildLeavesFeeds DEF GraphInv, Phases
    <2>4. PiecesLeft' /\ CandidatesLeft' /\ AnchorsFresh'
      BY <2>1 DEF GraphInv, PiecesLeft, CandidatesLeft, AnchorsFresh, Satellites
    <2>5. Quiet' => OneHome'
      <3>1. Quiet' => AllPlaced
        BY <2>1 DEF GraphInv, BuiltSoFar, Quiet, feeds
      <3> QED BY <1>3, <3>1, ExpireMovedGivesOneHome
    <2>6. BuiltSoFar'
      BY <2>1, <2>5 DEF BuiltSoFar
    <2> QED BY <2>1, <2>2, <2>3, <2>4, <2>6 DEF GraphInv, GraphStep
  <1>4. CASE ExpireContested
    <2>1. /\ UNCHANGED <<feeds, norad, created, anchored, links, began>>
          /\ phase = "contested" /\ phase' = "idle" /\ current' \subseteq current
          /\ settled' = IF began = published THEN published ELSE 0
      BY <1>4 DEF ExpireContested
    <2>2. GraphStep
      BY <2>1, RetireStep
    <2>3. FeedsOK'
      BY <2>1, BuildLeavesFeeds DEF GraphInv, Phases
    <2>4. PiecesLeft' /\ CandidatesLeft' /\ AnchorsFresh'
      BY <2>1 DEF PiecesLeft, CandidatesLeft, AnchorsFresh
    <2>5. BuiltSoFar'
      BY <2>1 DEF BuiltSoFar
    <2>6. settled' = published' => OneHome'
      <3>1. settled' = published' => Quiet
        BY <2>1 DEF GraphInv, FeedsOK, Quiet, feeds
      <3>2. Quiet => OneHome
        BY <2>1 DEF GraphInv, BuiltSoFar
      <3> QED BY <1>4, <2>1, <3>1, <3>2, ExpireContestedKeepsOneHome
    <2> QED BY <2>2, <2>3, <2>4, <2>5, <2>6 DEF GraphInv, GraphStep
  <1> QED BY <1>1, <1>2, <1>3, <1>4 DEF Churn

\* Every step keeps the inductive invariant.
THEOREM GraphInductive ==
    ASSUME GraphInv, [Next]_vars
    PROVE  GraphInv'
  <1>1. CASE Begin
    <2>1. UNCHANGED <<feeds, graph, settled>> /\ phase' = "satcat" /\ began' = published
      BY <1>1 DEF Begin
    <2>2. GraphStep
      BY <2>1, IdleStep
    <2>3. FeedsOK'
      BY <2>1, BuildLeavesFeeds DEF GraphInv, Phases
    <2>4. PiecesLeft' /\ CandidatesLeft' /\ AnchorsFresh' /\ BuiltSoFar'
      BY <2>1 DEF PiecesLeft, CandidatesLeft, AnchorsFresh, BuiltSoFar
    <2> QED BY <2>1, <2>2, <2>3, <2>4 DEF GraphInv, GraphStep
  <1>2. CASE UNCHANGED vars
    <2>1. UNCHANGED <<satcat, gcat, published, phase, todo, norad, created, anchored, links, current,
                      began, settled>>
      BY <1>2 DEF vars, feeds, graph, hist
    <2>2. SatellitesOK(norad, created)' /\ LinksOK' /\ FeedsOK'
      BY <2>1 DEF GraphInv, SatellitesOK, LinksOK, FeedsOK, Satellites, SatcatRows, GcatRows
    <2>3. PiecesLeft' /\ CandidatesLeft' /\ AnchorsFresh'
      BY <2>1 DEF GraphInv, PiecesLeft, CandidatesLeft, AnchorsFresh, Candidate, Satellites
    <2>4. OneHome' <=> OneHome
      BY <2>1 DEF OneHome, HoldersOf, Anchors, AnchorNumber, HasNorad, WithNorad, Satellites
    <2>5. \A k : Placed(k)' <=> Placed(k)
      BY <2>1 DEF Placed, AnchorNumber, HasNorad, WithNorad, Satellites
    <2>6. BuiltSoFar'
      BY <2>1, <2>4, <2>5 DEF GraphInv, BuiltSoFar, Quiet, PlacedWithNorad, PlacedSoFar, AllPlaced
    <2> QED BY <2>1, <2>2, <2>3, <2>4, <2>6 DEF GraphInv
  <1> QED BY <1>1, <1>2, PublishKeeps, MatchKeeps, ReconcileKeeps, ChurnKeeps DEF Next

-----------------------------------------------------------------------------
(* The theorems.                                                           *)

\* The inductive invariant always holds.
THEOREM GraphAlways == Spec => []GraphInv
  <1>1. Init => GraphInv
    BY GraphInitially
  <1>2. GraphInv /\ [Next]_vars => GraphInv'
    BY GraphInductive
  <1> QED BY <1>1, <1>2, PTL DEF Spec

\* Whatever the loaders publish and however builds follow one another, ids come from the
\* sequence, NORADs are unique and every link is on a satellite of the graph.
THEOREM GraphTypeCorrect == Spec => []TypeOK
  <1>1. GraphInv => TypeOK
    BY DEF GraphInv, SatellitesOK, LinksOK, TypeOK, Satellites
  <1> QED BY <1>1, GraphAlways, PTL

\* A build that ran on one set of snapshots commits with each GCAT key and piece that is
\* anchored to one satellite on that satellite alone, whatever earlier nights left behind.
THEOREM AnchoredKeyHasOneHomeHolds == Spec => []AnchoredKeyHasOneHome
  <1>1. GraphInv => AnchoredKeyHasOneHome
    BY DEF GraphInv, AnchoredKeyHasOneHome, QuietCommit, OneHome, HoldersOf
  <1> QED BY <1>1, GraphAlways, PTL

\* An anchored satellite stays in the graph with its NORAD, and loses a current identifier only
\* to the one satellite GCAT anchors it to, which holds it.
THEOREM AnchoredLosesOnlyToAnchorHolds == Spec => AnchoredLosesOnlyToAnchor
  <1> DEFINE A == \A s \in Satellites : norad[s] # 0 =>
                    /\ s \in Satellites' /\ norad'[s] = norad[s]
                    /\ \A l \in current \ current' : l.sat = s =>
                          \E t \in Satellites \ {s} : Anchors(l.type, l.value) = {t} /\ HeldBy(t, l)
  <1>1. ASSUME GraphInv, GraphInv', [Next]_vars
        PROVE  A
    <2>1. CASE ExpireMoved
      <3>1. norad' = norad /\ current' = current \ Misplaced
        BY <2>1 DEF ExpireMoved
      <3> QED BY <3>1 DEF Misplaced, Satellites
    <2>2. CASE ExpireContested
      <3>1. norad' = norad /\ current' = current \ Contested
        BY <2>2 DEF ExpireContested
      <3>2. \A s \in Satellites : norad[s] # 0 => s \in anchored
        BY <1>1, <2>2 DEF GraphInv, AnchorsFresh, ExpireContested
      <3> QED BY <3>1, <3>2 DEF Contested, Satellites
    <2>3. ASSUME ~ExpireMoved, ~ExpireContested
          PROVE  KeepsNorads /\ KeepsAnchoredLinks
      <3>1. CASE UNCHANGED graph
        BY <1>1, <3>1, IdleStep DEF GraphStep
      <3>2. CASE LinkSatcat
        BY <1>1, <3>2, LinkSatcatStep DEF GraphStep
      <3>3. CASE LinkGcat
        BY <1>1, <3>3, LinkGcatStep DEF GraphStep
      <3>4. ASSUME NEW x \in todo, LinkPiece(x[1], x[2])
            PROVE  KeepsNorads /\ KeepsAnchoredLinks
        BY <1>1, <3>4, LinkPieceStep DEF GraphStep
      <3>5. CASE LinkFuzzy
        BY <1>1, <3>5, LinkFuzzyStep DEF GraphStep
      <3>6. ASSUME NEW x \in todo, Promote(x[1], x[2])
            PROVE  KeepsNorads /\ KeepsAnchoredLinks
        BY <1>1, <3>6, PromoteStep DEF GraphStep
      <3>7. CASE RefreshAnchors
        BY <3>7 DEF RefreshAnchors, KeepsNorads, KeepsAnchoredLinks, Satellites
      <3>8. PublishSatcat \/ PublishGcat \/ Begin \/ ReadPieces \/ PiecesDone \/ ReadCandidates
              \/ PromotionDone \/ Detect \/ UNCHANGED vars => UNCHANGED graph
        BY DEF PublishSatcat, PublishGcat, Begin, ReadPieces, PiecesDone, ReadCandidates, PromotionDone,
               Detect, vars
      <3> QED BY <1>1, <2>3, <3>1, <3>2, <3>3, <3>4, <3>5, <3>6, <3>7, <3>8
              DEF Next, Match, Reconcile, Churn
    <2> QED BY <2>1, <2>2, <2>3 DEF KeepsNorads, KeepsAnchoredLinks
  <1>2. GraphInv /\ GraphInv' /\ [Next]_vars => [A]_vars
    <2> HIDE DEF A
    <2> QED BY <1>1
  <1>3. [][A]_vars => AnchoredLosesOnlyToAnchor
    BY PTL DEF AnchoredLosesOnlyToAnchor
  <1> HIDE DEF A
  <1> QED BY <1>2, <1>3, GraphAlways, PTL DEF Spec

\* Retiring the links of moved keys leaves every key and piece a current one.
THEOREM MovedKeyIsNeverOrphanedHolds == Spec => MovedKeyIsNeverOrphaned
  <1> DEFINE A == phase = "moved" =>
                    \A l \in current : \E m \in current' : m.type = l.type /\ m.value = l.value
  <1>1. ASSUME GraphInv, [Next]_vars, phase = "moved"
        PROVE  \A l \in current : \E m \in current' : m.type = l.type /\ m.value = l.value
    <2>1. ExpireMoved \/ current' = current
      BY <1>1 DEF Next, Match, Reconcile, Churn, PublishSatcat, PublishGcat, Begin, LinkSatcat, LinkGcat,
                  ReadPieces, LinkPiece, PiecesDone, LinkFuzzy, ReadCandidates, Promote, PromotionDone,
                  Detect, RefreshAnchors, ExpireContested, vars, graph
    <2>2. CASE ExpireMoved
      <3>1. current' = current \ Misplaced
        BY <2>2 DEF ExpireMoved
      <3> SUFFICES ASSUME NEW l \in current, l \in Misplaced
                   PROVE  \E m \in current' : m.type = l.type /\ m.value = l.value
        BY <3>1
      <3>2. PICK s \in Satellites \ {l.sat} : Anchors(l.type, l.value) = {s} /\ HeldBy(s, l)
        BY DEF Misplaced
      <3>3. l \in Link
        BY <1>1 DEF GraphInv, LinksOK
      <3>4. PICK m : m = [l EXCEPT !.sat = s]
        OBVIOUS
      <3>5. m \in current /\ m.type = l.type /\ m.value = l.value /\ m.sat = s
        BY <3>2, <3>3, <3>4 DEF HeldBy, Link
      <3>6. m \notin Misplaced
        BY <3>2, <3>5 DEF Misplaced
      <3> QED BY <3>1, <3>5, <3>6
    <2> QED BY <2>1, <2>2
  <1>2. GraphInv /\ [Next]_vars => [A]_vars
    BY <1>1
  <1>3. [][A]_vars => MovedKeyIsNeverOrphaned
    BY PTL DEF MovedKeyIsNeverOrphaned
  <1> HIDE DEF A
  <1> QED BY <1>2, <1>3, GraphAlways, PTL DEF Spec
=============================================================================

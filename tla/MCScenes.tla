------------------------------ MODULE MCScenes ------------------------------
(***************************************************************************)
(* Small instances of the components that share the database and nothing   *)
(* else that their properties read: in a behaviour one of them takes its   *)
(* steps and the others rest in one initial state.                         *)
(***************************************************************************)
EXTENDS MCGold, MCFiling, IngestFeeds, SnapshotRetention, GpBackfill, RequestPacer, OwnerResolution

\* Pairs of sources that differ in where they raise and in what guards them.
MCPlans == {<<"satcat", "gcat_orgs">>, <<"gcat", "sw">>, <<"gp", "supgp">>, <<"ucs", "satnogs">>,
            <<"fcc_ssal", "ibfs">>}

\* Five runs before the first pruning: one was left open by a loader that died, one failed.
Snapshot(status, m, there) == [status |-> status, month |-> m, landed |-> there]
MCLedgers == {
    <<Snapshot("ok", 1, TRUE), Snapshot("ok", 1, TRUE), Snapshot("null", 1, TRUE),
      Snapshot("ok", 1, TRUE), Snapshot("ok", 1, TRUE)>>,
    <<Snapshot("skipped_fresh", 1, FALSE), Snapshot("error", 1, TRUE), Snapshot("ok", 1, TRUE),
      Snapshot("ok", 1, TRUE), Snapshot("ok", 1, TRUE)>>}
MCPruners == [nightly |-> "delete", by_hand |-> "compact"]

\* Eutelsat with OneWeb's fleet, which grows into a second batch.
MCOperators == <<"Eutelsat">>
MCChildren == {<<"Eutelsat", "OneWeb">>}
MCOwned == {<<"Eutelsat", 1>>, <<"OneWeb", 2>>}
MCJoining == {<<"OneWeb", 3>>}

\* An anchored satellite, 1, and the provisional record of the same object, 2: an acquired
\* operator, codes that no organisation or document explains, a code of a later organisation that
\* is another's name, and a commercial name that UCS gives to a SATCAT state code.
Owner(one, two) == <<one, two>>
MCSnapshots == [
    gcat   |-> {Owner("ONEWEB", "SPXS"), Owner("none", "NEWCO"), Owner("SPXS", "ONEWEB"),
                Owner("LOST", "LOST")},
    ucs    |-> {Owner("OneWeb", "none"), Owner("Nobody", "none")},
    satcat |-> {Owner("GLOB", "none"), Owner("US", "none")}]
MCOrgs == {
    [ONEWEB |-> <<"OneWeb">>, SPXS |-> <<"Space Exploration", "SpaceX">>],
    [NEWCO |-> <<"Newco", "SPXS">>, SPXS |-> <<"Newco">>, ONEWEB |-> <<"OneWeb">>]}
MCSatcatCodes == [GLOB |-> "Globalstar"]
Seed(codes) == [aliases |-> {}, gcat_codes |-> codes, satcat_codes |-> {}]
MCSeeds == [OneWeb |-> Seed({"ONEWEB"}), Eutelsat |-> Seed({}), SpaceX |-> Seed({})]
MCAcquired == [OneWeb |-> [parent |-> "Eutelsat", day |-> 2]]
MCLaunchDays == {Unknown, 1, 3}

VARIABLE scene
vars == <<goldVars, filingVars, feedVars, retentionVars, backfillVars, pacerVars, resolutionVars>>

Scenes == {"gold", "filing", "feeds", "retention", "backfill", "pacer", "resolution"}

Init ==
    /\ scene \in Scenes
    /\ GoldInit /\ FilingInit /\ FeedInit /\ RetentionInit /\ BackfillInit /\ PacerInit
    /\ ResolutionInit
    /\ scene # "gold" => nights = CHOOSE h \in Histories : TRUE
    /\ scene # "retention" => landed = {1, 2, 3, 4, 5}
    /\ orgs = CHOOSE o \in OrgSnapshots : "NEWCO" \notin DOMAIN o
    /\ launch = <<1, 1>> /\ piece = <<NoPiece, "2026-001A">>

Next ==
    /\ UNCHANGED scene
    /\ \/ /\ scene = "gold" /\ GoldNext
          /\ UNCHANGED <<filingVars, feedVars, retentionVars, backfillVars, pacerVars, resolutionVars>>
       \/ /\ scene = "filing" /\ FilingNext
          /\ UNCHANGED <<goldVars, feedVars, retentionVars, backfillVars, pacerVars, resolutionVars>>
       \/ /\ scene = "feeds" /\ FeedNext
          /\ UNCHANGED <<goldVars, filingVars, retentionVars, backfillVars, pacerVars, resolutionVars>>
       \/ /\ scene = "retention" /\ RetentionNext
          /\ UNCHANGED <<goldVars, filingVars, feedVars, backfillVars, pacerVars, resolutionVars>>
       \/ /\ scene = "backfill" /\ BackfillNext
          /\ UNCHANGED <<goldVars, filingVars, feedVars, retentionVars, pacerVars, resolutionVars>>
       \/ /\ scene = "pacer" /\ PacerNext
          /\ UNCHANGED <<goldVars, filingVars, feedVars, retentionVars, backfillVars, resolutionVars>>
       \/ /\ scene = "resolution" /\ ResolutionNext
          /\ UNCHANGED <<goldVars, filingVars, feedVars, retentionVars, backfillVars, pacerVars>>

Spec == Init /\ [][Next]_<<scene, vars>>
=============================================================================

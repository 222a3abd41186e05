------------------------------- MODULE MCGold -------------------------------
(* Small identity graphs that between them give a case to every stratum. *)
EXTENDS GoldReview, TLC

Claims(o, s, d, k) == [owner |-> o, status |-> s, decay |-> d, kind |-> k]
Agreed == Claims(0, "", 0, "PAYLOAD")

Satellite(norad, jcat, launch) ==
    [norad |-> norad, jcat |-> jcat, cospars |-> {}, kind |-> "PAYLOAD", launch |-> launch,
     name |-> "a", owner |-> 0, former |-> {}, rcs |-> 0, everSatcat |-> norad # 0,
     satcat |-> Agreed, gcat |-> Agreed]

Debris(norad, launch) ==
    [Satellite(norad, norad, launch) EXCEPT !.satcat = Claims(0, "", 0, "DEBRIS")]

\* Three mistyped objects of two decades; then acquisitions split them, two of them one deal.
Mistypes == <<Debris(11, 3), Debris(12, 4), Debris(13, 15)>>
SplitTwice == <<[Satellite(11, 11, 3) EXCEPT !.owner = 2, !.former = {1}],
                [Satellite(12, 12, 4) EXCEPT !.owner = 2, !.former = {1}],
                [Satellite(13, 13, 15) EXCEPT !.owner = 4, !.former = {3}]>>

\* A fresh rideshare not linked to its namesake; then it is catalogued, under a shared piece.
Fresh == <<[Satellite(0, 7, 5) EXCEPT !.name = "b"], Satellite(14, 8, 6)>>
Shared == <<[Satellite(15, 7, 5) EXCEPT !.cospars = {1}],
            [Satellite(14, 8, 6) EXCEPT !.cospars = {1}]>>

\* The catalogues disagree on everything about one object.
Disputed == <<[Satellite(14, 8, 6) EXCEPT !.satcat = Claims(1, "ACTIVE", 3, "PAYLOAD"),
                                          !.gcat = Claims(3, "DEAD", 4, "PAYLOAD")]>>

MCHistories == {<<Mistypes, SplitTwice>>, <<Fresh, Shared>>, <<Disputed>>}
MCSimilarity == [a |-> [a |-> 100, b |-> 80], b |-> [a |-> 80, b |-> 100]]
MCAcquisitions == {<<1, 2>>, <<3, 4>>}
MCTarget == [t \in Strata |-> 2]
MCTypeRank == [ambiguous_cospar |-> 1, decay_conflict |-> 2, missed_join_candidate |-> 3,
               owner_dispute |-> 4, rideshare_orphan |-> 5, stale_owner |-> 6,
               status_conflict |-> 7, type_conflict |-> 8]
=============================================================================

--------------------------- MODULE MCIdentityGraph ---------------------------
(* Model-checking instances of IdentityGraph. *)
EXTENDS IdentityGraph, TLC

\* The catalog number in a key of the S<n> form; the others carry none.
NumberOf == ("S1" :> 1) @@ ("S2" :> 2) @@ ("A1" :> 0)

Numbers == [k \in Key |-> NumberOf[k]]

Row(n, p, name, best) == [norad |-> n, piece |-> p, name |-> name, best |-> best]

\* Two co-deployed objects whose keys and pieces GCAT keeps re-assigning.
SiblingSatcat == {(1 :> "P") @@ (2 :> "Q")}
SiblingGcat ==
    LET first == {Row(0, "P", "a", 0), Row(0, "Q", "a", 0), Row(1, "P", "a", 0), Row(2, "P", "a", 0)}
        second == {Row(0, "Q", "a", 0), Row(2, "P", "a", 0), Row(2, "Q", "a", 0), Row(1, "Q", "a", 0)}
    IN  {("S1" :> r) @@ ("S2" :> q) : r \in first, q \in second}

\* A provisional key, seen first without a NORAD, renamed, and anchored later or not at all,
\* beside a catalogued object that may turn out to be its twin.
FreshSatcat == {<<>>, 1 :> "P", 1 :> "Q"}
FreshGcat == {"A1" :> r : r \in {Row(0, "P", "a", 0), Row(0, "P", "b", 0), Row(1, "P", "b", 0),
                               Row(0, NoPiece, "b", 1)}}
    \cup {("A1" :> r) @@ ("S1" :> q) :
             r \in {Row(0, "P", "a", 0), Row(0, "Q", "b", 0)},
             q \in {Row(0, "Q", "a", 0), Row(1, "P", "b", 0)}}
=============================================================================

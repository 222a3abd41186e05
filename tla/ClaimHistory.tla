---------------------------- MODULE ClaimHistory ----------------------------
(***************************************************************************)
(* What the claim table of identity/claims.py promises its readers: the    *)
(* goal of docs/specs/assertion-model.md is a table whose size is the      *)
(* number of claims and yet "what does each source currently say" and      *)
(* "what did it say on a date" are both answered, with no reader able to   *)
(* tell the difference from one full copy per run.  This module is that    *)
(* table of copies: one snapshot kept per recorded run, never rewritten,   *)
(* recorded in run order.  ClaimLedger, which stores each claim once with  *)
(* a validity range, implements it (ClaimLedger!History).                  *)
(***************************************************************************)
EXTENDS Naturals

VARIABLES
    published,  \* run -> the facts of its snapshot, for every run finished 'ok'
    history     \* run -> the facts the store gives back for that run

vars == <<published, history>>

Extend(f, r, x) == [q \in DOMAIN f \cup {r} |-> IF q = r THEN x ELSE f[q]]

Init ==
    /\ published = <<>>
    /\ history = <<>>

\* A loader finishes a run 'ok': its snapshot becomes readable and is final.
Publish ==
    \E r \in DOMAIN published' \ DOMAIN published :
        /\ published' = Extend(published, r, published'[r])
        /\ UNCHANGED history

\* A build commits: a run newer than every recorded one is recorded, whole.
Record ==
    \E r \in DOMAIN published :
        /\ published[r] # {}
        /\ \A q \in DOMAIN history : q < r
        /\ history' = Extend(history, r, published[r])
        /\ UNCHANGED published

Next == Publish \/ Record

Spec == Init /\ [][Next]_vars
=============================================================================

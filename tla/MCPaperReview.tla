---------------------------- MODULE MCPaperReview ----------------------------
(* Two papers whose metadata may come to look alike or not, and one        *)
(* request thread that reconciles.                                         *)
EXTENDS PaperReview, TLC

Symmetry == Permutations(Papers)

(* Of the two pipelines and the reconciling request two are at work at a   *)
(* time, one after another as many as there may be.                        *)
TwoAtWork ==
    \/ \E p \in Papers : pipeline[p] \in {"new", "over"}
    \/ \E c \in Clients : reconcile[c] = None

=============================================================================

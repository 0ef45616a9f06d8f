-------------------------- MODULE MCPaperMetadata --------------------------
(* Two requests at a time, two titles and one provider.                    *)
EXTENDS PaperMetadata

Crossref == <<"crossref">>
Symmetry == Permutations(Clients) \union Permutations(Titles)

\* The budget is used up, overdrawn and started anew on a paper nobody extracts or edits;
\* one that somebody does has an attempt on record at most, and three of the four
\* candidates there can be.
Bounded ==
    \A p \in Providers :
        IF heuristic \/ confirmed # <<>> \/ \E c \in Clients : request[c].at \in {"extract", "edit"}
        THEN attempts[p] <= 1 /\ Len(confirmed) + Len(offered[p]) <= 3
        ELSE attempts[p] <= MaxAttempts + 1
=============================================================================

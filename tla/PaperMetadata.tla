--------------------------- MODULE PaperMetadata ---------------------------
(***************************************************************************)
(* One field of one paper, its title, and everybody who writes it: the     *)
(* extraction from the PDF (metadata/service.py), the enrichment by DOI    *)
(* with its provider records (doi_enrichment/service.py), and the user     *)
(* (update_paper_metadata), over the candidates of metadata/selection.py.  *)
(*                                                                         *)
(* Requests run in threads of their own.  A session loads the paper and    *)
(* reads the candidates; an INSERT takes the write lock until the commit,  *)
(* so what is selected after it is selected from all there is.  Without    *)
(* one the selection is of the moment it was read.  In both cases the      *)
(* UPDATE carries the title only when it differs from the one loaded.      *)
(* So it is with the record of a provider: a row is loaded, decided about, *)
(* and what differs from it is written by a later commit.                  *)
(***************************************************************************)
EXTENDS Naturals, FiniteSetsExt, SequencesExt, PaperRequests

CONSTANTS
    Titles,       \* titles a source may give
    Cascade,      \* the providers in the order they are asked and preferred
    MaxAttempts,  \* PROVIDER_MAX_ATTEMPTS
    NoTitle       \* an answer without a title, or for another DOI

Providers == ToSet(Cascade)

ASSUME MetadataAssumption ==
    /\ MaxAttempts \in Nat \ {0}
    /\ {None, NoTitle} \intersect Titles = {}
    /\ None # NoTitle
    /\ Cascade \in Seq(Providers)
    /\ None \notin Nat \union BOOLEAN

VARIABLES
    title,      \* Paper.title
    heuristic,  \* there are heuristic candidates
    confirmed,  \* values of the manual_confirmed candidates, the best ranked last
    offered,    \* by provider: values of its doi_provider candidates, likewise
    fetched,    \* by provider: status of its record is "fetched"
    raw,        \* by provider: the title in raw_json
    attempts,   \* by provider: attempt_count
    waiting,    \* by provider: next_retry_at is set and still to come
    network,    \* settings.metadata_enrichment_allow_network
    request,    \* what each request thread does
    crowded,    \* history, by provider: a request was begun while another was under way
    blind       \* history: a title was written, or left, by one who could not know better

candidateVars == <<heuristic, confirmed, offered>>
recordVars == <<fetched, raw, attempts, waiting>>
paperVars == <<title, candidateVars, network, blind>>
metadataVars == <<paperVars, recordVars, crowded, request>>

Answers == Titles \union {None, NoTitle}

\* parsed: what the answers on record say, for the providers asked so far; seen: the
\* title the session loaded; add: the candidates it will insert; chosen: what it has
\* selected without the lock.
Idle == [at |-> "idle"]
Asking == [at : {"ask", "request", "parse"}, force : BOOLEAN, index : Nat,
           parsed : [Providers -> Answers]]

\* The columns of a record an UPDATE will set; None: those it leaves alone.
Update == [attempts : Nat \union {None}, fetched : BOOLEAN \union {None},
           raw : Answers, waiting : BOOLEAN \union {None}]
Updating == [at : {"update"}, force : BOOLEAN, index : Nat, parsed : [Providers -> Answers],
             update : Update, next : {"request", "parse"}]

Extracting == [at : {"extract"}, seen : Titles \union {None}]
Editing == [at : {"edit"}, seen : Titles \union {None}, value : Titles, add : BOOLEAN,
            chosen : Titles \union {None}]
Merging == [at : {"merge"}, seen : Titles \union {None}, parsed : [Providers -> Answers],
            add : SUBSET Providers, chosen : Titles \union {None}]

Requests == {Idle} \union Asking \union Updating \union Extracting \union Editing \union Merging

MetadataTypeOK ==
    /\ title \in Titles \union {None}
    /\ heuristic \in BOOLEAN
    /\ confirmed \in Seq(Titles)
    /\ offered \in [Providers -> Seq(Titles)]
    /\ fetched \in [Providers -> BOOLEAN]
    /\ raw \in [Providers -> Answers]
    /\ attempts \in [Providers -> Nat]
    /\ waiting \in [Providers -> BOOLEAN]
    /\ network \in BOOLEAN
    /\ request \in [Clients -> Requests]
    /\ crowded \in [Providers -> BOOLEAN]
    /\ blind \in BOOLEAN

MetadataInit ==
    /\ title = None
    /\ heuristic = FALSE
    /\ confirmed = <<>>
    /\ offered = [p \in Providers |-> <<>>]
    /\ fetched = [p \in Providers |-> FALSE]
    /\ raw = [p \in Providers |-> None]
    /\ attempts = [p \in Providers |-> 0]
    /\ waiting = [p \in Providers |-> FALSE]
    /\ network \in BOOLEAN
    /\ request = [c \in Clients |-> Idle]
    /\ crowded = [p \in Providers |-> FALSE]
    /\ blind = FALSE

Does(c, at) == request[c].at = at
Goes(c, x) == request' = [request EXCEPT ![c] = x]

-----------------------------------------------------------------------------
(* Selection.                                                              *)

\* The best of one source is its newest, by a created_at in whole seconds: of two from
\* the same second the smaller of two random ids decides.
Inserted(s, t) ==
    {Append(s, t)} \union (IF s = <<>> THEN {} ELSE {Append(Front(s), t) \o <<Last(s)>>})

\* _best_candidate: manual before providers, these in their order, then a heuristic
\* whose confidence decides; None without any.
Best(manual, byProvider, fromPdf) ==
    LET ranks == {i \in DOMAIN Cascade : byProvider[Cascade[i]] # <<>>} IN
    IF manual # <<>> THEN {Last(manual)}
    ELSE IF ranks # {} THEN {Last(byProvider[Cascade[Min(ranks)]])}
    ELSE IF fromPdf THEN Titles ELSE {None}

\* materialize_selection and the UPDATE: nothing is written that was loaded as such.
Written(seen, chosen) == IF chosen \in {None, seen} THEN title ELSE chosen

\* What was selected without the lock is selected no longer, and is written all the same.
Outdated(seen, chosen) ==
    chosen \notin {None, seen} /\ chosen \notin Best(confirmed, offered, heuristic)

\* What is selected looks as if it were written, because it was when it was loaded.
Mistaken(seen, chosen) == title # seen /\ chosen = seen

Materialize(seen, chosen, astray) ==
    /\ title' = Written(seen, chosen)
    /\ blind' = (astray \/ (blind /\ chosen \in {None, seen}))

-----------------------------------------------------------------------------
(* Extraction.                                                             *)

\* extract_metadata_candidates reads the PDF and loads the paper.
BeginExtraction(c) ==
    /\ request[c] = Idle
    /\ Goes(c, [at |-> "extract", seen |-> title])
    /\ UNCHANGED <<paperVars, recordVars, crowded>>

\* The candidates are written; _conservative_sync gives a paper without a title the best
\* that passes the quality filter, if any does.
CommitExtraction(c) ==
    /\ Does(c, "extract")
    /\ heuristic' = TRUE
    /\ \E t \in IF request[c].seen = None THEN Titles \union {None} ELSE {None} :
          Materialize(request[c].seen, t, t # None /\ title # None)
    /\ Goes(c, Idle)
    /\ UNCHANGED <<confirmed, offered, recordVars, crowded, network>>

-----------------------------------------------------------------------------
(* The user.                                                               *)

\* update_paper_metadata: a value that was confirmed before gets no new candidate.
BeginEdit(c, t) ==
    /\ request[c] = Idle
    /\ LET new == t \notin ToSet(confirmed) IN
       Goes(c, [at |-> "edit", seen |-> title, value |-> t, add |-> new,
                chosen |-> IF new THEN None ELSE Last(confirmed)])
    /\ UNCHANGED <<paperVars, recordVars, crowded>>

\* Mutant: selected before the new candidate is flushed.
CommitEdit_SelectsFirst(c) ==
    /\ Does(c, "edit")
    /\ LET x == request[c] IN
       /\ \E t \in Best(confirmed, offered, heuristic) : Materialize(x.seen, t, FALSE)
       /\ IF x.add THEN confirmed' \in Inserted(confirmed, x.value) ELSE UNCHANGED confirmed
    /\ Goes(c, Idle)
    /\ UNCHANGED <<heuristic, offered, recordVars, crowded, network>>

CommitEdit(c) ==
    /\ Does(c, "edit")
    /\ LET x == request[c] IN
       IF x.add
       THEN /\ confirmed' \in Inserted(confirmed, x.value)
            /\ Materialize(x.seen, Last(confirmed'), Mistaken(x.seen, Last(confirmed')))
       ELSE /\ Materialize(x.seen, x.chosen, Outdated(x.seen, x.chosen))
            /\ UNCHANGED confirmed
    /\ Goes(c, Idle)
    /\ UNCHANGED <<heuristic, offered, recordVars, crowded, network>>

-----------------------------------------------------------------------------
(* Enrichment: the cascade of providers.                                   *)

\* enrich_paper_by_doi and refresh_enrichment (force).  The job they create or reopen
\* sums up the records; no step depends on its status.
BeginEnrichment(c, force) ==
    /\ request[c] = Idle
    /\ Goes(c, [at |-> "ask", force |-> force, index |-> 1,
                parsed |-> [p \in Providers |-> None]])
    /\ UNCHANGED <<paperVars, recordVars, crowded>>

Asks(c, p) == Does(c, "ask") /\ request[c].index <= Len(Cascade) /\ p = Cascade[request[c].index]

\* Whatever came of it, what is on record is parsed.
NextProvider(c, p) ==
    LET x == request[c] IN
    Goes(c, [at |-> "ask", force |-> x.force, index |-> x.index + 1,
             parsed |-> [x.parsed EXCEPT ![p] = raw[p]]])

Exhausted(p) == attempts[p] >= MaxAttempts

\* A cached answer, a retry that is not due and a budget that is used up ask nobody.
\* Mutant: only a cached answer and the schedule do.
Spared_WithoutBudget(c, p) == ~request[c].force /\ ((raw[p] # None /\ fetched[p]) \/ waiting[p])

Spared(c, p) ==
    ~request[c].force /\ ((raw[p] # None /\ fetched[p]) \/ waiting[p] \/ Exhausted(p))

Reuse(c, p) ==
    /\ Asks(c, p)
    /\ Spared(c, p)
    /\ NextProvider(c, p)
    /\ UNCHANGED <<paperVars, recordVars, crowded>>

\* The request will write to the record of the provider, or waits for its answer.
Busy(c, p) == request[c].at \in {"update", "request"} /\ p = Cascade[request[c].index]

Alone(c, p) == \A d \in Clients \ {c} : ~Busy(d, p)

\* The row has been loaded, and its attributes are set; the UPDATE comes with the commit.
Sets(c, p, update, next) ==
    /\ LET x == request[c] IN
       Goes(c, [at |-> "update", force |-> x.force, index |-> x.index, parsed |-> x.parsed,
                update |-> update, next |-> next])
    /\ crowded' = [crowded EXCEPT ![p] = @ \/ ~Alone(c, p)]
    /\ UNCHANGED <<paperVars, recordVars>>

\* What is as it was loaded is not written. Which of the other statuses a record has,
\* and whether it names a time that is past, is not told apart.
Unfetch(p) == IF fetched[p] THEN {FALSE} ELSE {FALSE, None}
Unschedule(p) == IF waiting[p] THEN {FALSE} ELSE {FALSE, None}

\* A forced refresh of a used up budget starts a new one.
FreshBudget(c, p) == IF request[c].force /\ Exhausted(p) THEN 0 ELSE None

NetworkOff(c, p) ==
    /\ Asks(c, p)
    /\ ~Spared(c, p)
    /\ ~network
    /\ \E f \in Unfetch(p), w \in Unschedule(p) :
          Sets(c, p, [attempts |-> FreshBudget(c, p), fetched |-> f, raw |-> None,
                      waiting |-> w], "parse")

\* The record will be committed as running, and the provider asked.
AskProvider(c, p) ==
    /\ Asks(c, p)
    /\ ~Spared(c, p)
    /\ network
    /\ \E f \in Unfetch(p) :
          Sets(c, p, [attempts |-> FreshBudget(c, p), fetched |-> f, raw |-> None,
                      waiting |-> None], "request")

\* The answer has come. The row, expired by the last commit, is loaded again.
Answered(c, p) == Does(c, "request") /\ p = Cascade[request[c].index]

Fetch(c, p) ==
    /\ Answered(c, p)
    /\ \E answer \in Titles \union {NoTitle}, w \in Unschedule(p) :
          Sets(c, p, [attempts |-> attempts[p] + 1,
                      fetched |-> IF fetched[p] THEN None ELSE TRUE,
                      raw |-> IF answer = raw[p] THEN None ELSE answer,
                      waiting |-> w], "parse")

\* 429 and 5xx are scheduled again while the budget lasts; anything else is final.
FetchFails(c, p) ==
    /\ Answered(c, p)
    /\ \E f \in Unfetch(p),
          w \in Unschedule(p) \union {again \in {TRUE} : attempts[p] + 1 < MaxAttempts} :
          Sets(c, p, [attempts |-> attempts[p] + 1, fetched |-> f, raw |-> None,
                      waiting |-> w], "parse")

Put(f, p, v) == IF v = None THEN f ELSE [f EXCEPT ![p] = v]

\* The UPDATE is committed. A budget started anew by one request on its own is kept.
CommitRecord(c, p) ==
    /\ Does(c, "update")
    /\ p = Cascade[request[c].index]
    /\ LET x == request[c] IN
       /\ attempts' = Put(attempts, p, x.update.attempts)
       /\ fetched' = Put(fetched, p, x.update.fetched)
       /\ raw' = Put(raw, p, x.update.raw)
       /\ waiting' = Put(waiting, p, x.update.waiting)
       /\ crowded' = [crowded EXCEPT ![p] = @ /\ ~(x.update.attempts = 0 /\ Alone(c, p))]
       /\ Goes(c, [at |-> x.next, force |-> x.force, index |-> x.index, parsed |-> x.parsed])
    /\ UNCHANGED paperVars

\* The row is loaded once more, for what the provider says.
Parse(c, p) ==
    /\ Does(c, "parse")
    /\ p = Cascade[request[c].index]
    /\ NextProvider(c, p)
    /\ UNCHANGED <<paperVars, recordVars, crowded>>

TimePasses(p) ==
    /\ waiting[p]
    /\ waiting' = [waiting EXCEPT ![p] = FALSE]
    /\ UNCHANGED <<paperVars, fetched, raw, attempts, crowded, request>>

-----------------------------------------------------------------------------
(* Enrichment: the merge.                                                  *)

\* _merge_into_paper loads the paper and looks for the candidates that are there.
BeginMerge(c) ==
    /\ Does(c, "ask")
    /\ request[c].index > Len(Cascade)
    /\ LET parsed == request[c].parsed
           new == {p \in Providers : parsed[p] \in Titles \ ToSet(offered[p])}
       IN  \E t \in IF new = {} THEN Best(confirmed, offered, heuristic) ELSE {None} :
              Goes(c, [at |-> "merge", seen |-> title, parsed |-> parsed, add |-> new,
                       chosen |-> t])
    /\ UNCHANGED <<paperVars, recordVars, crowded>>

\* What is missing is inserted, and the selection made from all there is.
CommitCandidates(c) ==
    /\ Does(c, "merge")
    /\ LET x == request[c] IN
       /\ x.add # {}
       /\ \E f \in [x.add -> UNION {Inserted(offered[p], x.parsed[p]) : p \in x.add}] :
             /\ \A p \in x.add : f[p] \in Inserted(offered[p], x.parsed[p])
             /\ offered' = [p \in Providers |-> IF p \in x.add THEN f[p] ELSE offered[p]]
       /\ \E t \in Best(confirmed, offered', heuristic) :
             Materialize(x.seen, t, Mistaken(x.seen, t))
    /\ Goes(c, Idle)
    /\ UNCHANGED <<heuristic, confirmed, recordVars, crowded, network>>

\* With nothing to insert there is no lock, and what was selected is written.
CommitSelection(c) ==
    /\ Does(c, "merge")
    /\ request[c].add = {}
    /\ Materialize(request[c].seen, request[c].chosen, Outdated(request[c].seen, request[c].chosen))
    /\ Goes(c, Idle)
    /\ UNCHANGED <<candidateVars, recordVars, crowded, network>>

-----------------------------------------------------------------------------
\* The request fails or is lost: its session is rolled back, what it committed stays.
Fails(c) ==
    /\ request[c] # Idle
    /\ Goes(c, Idle)
    /\ UNCHANGED <<paperVars, recordVars, crowded>>

\* The process stops and starts again, perhaps with other settings.
Restart ==
    /\ network' \in BOOLEAN
    /\ request' = [c \in Clients |-> Idle]
    /\ UNCHANGED <<title, candidateVars, recordVars, crowded, blind>>

MetadataNext ==
    \/ \E c \in Clients :
          \/ BeginExtraction(c) \/ CommitExtraction(c)
          \/ \E t \in Titles : BeginEdit(c, t)
          \/ CommitEdit(c)
          \/ \E force \in BOOLEAN : BeginEnrichment(c, force)
          \/ \E p \in Providers : \/ Reuse(c, p) \/ NetworkOff(c, p) \/ AskProvider(c, p)
                                  \/ Fetch(c, p) \/ FetchFails(c, p)
                                  \/ CommitRecord(c, p) \/ Parse(c, p)
          \/ BeginMerge(c) \/ CommitCandidates(c) \/ CommitSelection(c)
          \/ Fails(c)
    \/ \E p \in Providers : TimePasses(p)
    \/ Restart

MetadataSpec == MetadataInit /\ [][MetadataNext]_metadataVars

-----------------------------------------------------------------------------
(* Properties.                                                             *)

\* Once the user or a provider has given a title, the paper shows the one that ranks
\* best among all candidates, whatever extractions, edits and enrichments overlap, fail
\* or are repeated; except where a session wrote what it had selected before the best
\* came, or left out a title because it was the one it had loaded.
TitleIsSelected ==
    ~blind /\ (confirmed # <<>> \/ \E p \in Providers : offered[p] # <<>>) =>
        title \in Best(confirmed, offered, heuristic)

\* As long as the requests to a provider do not overlap, its record keeps to the budget
\* over failures, lost processes and forced refreshes: no more attempts are on record
\* than the budget has, and a retry is scheduled only while some are left. Requests that
\* overlap write over each other's count; a forced refresh on its own that starts a new
\* budget makes up for that.
BudgetKept ==
    \A p \in Providers : ~crowded[p] =>
        /\ attempts[p] <= MaxAttempts
        /\ waiting[p] => attempts[p] < MaxAttempts
=============================================================================

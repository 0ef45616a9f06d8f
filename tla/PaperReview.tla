---------------------------- MODULE PaperReview ----------------------------
(***************************************************************************)
(* From an accepted import to a paper the second layer may use: the import *)
(* pipeline after import_paper and reconcile_paper (workflow/service.py),  *)
(* duplicate detection and the decisions of the user                       *)
(* (identity/service.py), and the gate get_second_layer_input.             *)
(*                                                                         *)
(* The library is shared by the pipelines of the papers, by request        *)
(* threads that reconcile a paper, and by requests that decide a relation, *)
(* delete or restore a paper, edit its metadata or refresh its enrichment. *)
(* Sessions do not flush on their own and a SELECT of SQLite holds no      *)
(* snapshot, so a detection works with the status of the papers as it read *)
(* them at its start and with the relations as they are when its first     *)
(* INSERT takes the write lock; the metadata it scores are read piece by   *)
(* piece in between (authors are loaded when a pair is scored).            *)
(***************************************************************************)
EXTENDS FiniteSets, PaperRequests

CONSTANT Papers   \* paper ids

\* exact_duplicate and probable_duplicate are the critical types and are not told
\* apart; possible_version stands for itself and for related.
Types == {"probable_duplicate", "possible_version"}
Critical == {"probable_duplicate"}
Pairs == {pair \in SUBSET Papers : Cardinality(pair) = 2}

VARIABLES
    likeness,   \* what _classify makes of the metadata a pair has by now
    status,     \* Paper.status, "absent" before the import
    trashed,    \* PaperFile.deleted_at is set
    stage,      \* current_stage of the accepted job of the import
    converged,  \* reconcile_paper has added an accepted/completed job
    relation,   \* PaperRelation.status by pair and type
    pipeline,   \* where run_import_pipeline of each paper is
    reconcile,  \* the reconcile_paper of each request thread
    seen,       \* the papers as a running detection has read them, by its worker
    checked,    \* history: papers compared since their metadata last changed
    skipped     \* history: pairs of which a detection left out a deleted paper

libraryVars == <<status, trashed>>
jobVars == <<stage, converged>>
detectionVars == <<checked, skipped>>
reviewVars == <<likeness, libraryVars, jobVars, relation, pipeline, reconcile, seen, detectionVars>>

Status == {"absent", "active", "duplicate_pending", "deleted"}
\* "confirmed", "rejected" and "ignored" are told apart by nobody here.
RelationStatus == {"absent", "pending", "decided"}
\* The gate tells "completed" from all others: those before the import, at work
\* (metadata_extracting, duplicate_checking), stuck (metadata_failed, doi_required) and
\* awaiting_user_review are one value here.
Stage == {"completed", "open"}
Pc == {"new", "imported", "extracting", "extracted", "enriched", "detecting", "over"}
ReconcilePc == {"extracting", "recording", "enriching", "checking", "detecting"}
Workers == Papers \union Clients
\* fresh: the papers read whose metadata have not changed since.
Snapshot == [status : [Papers -> Status], fresh : SUBSET Papers]

ASSUME ReviewAssumption ==
    /\ Papers \intersect Clients = {}
    /\ None \notin Snapshot \union [paper : Papers, at : ReconcilePc]

ReviewTypeOK ==
    /\ likeness \in [Pairs -> Types \union {None}]
    /\ status \in [Papers -> Status]
    /\ trashed \in [Papers -> BOOLEAN]
    /\ stage \in [Papers -> Stage]
    /\ converged \in [Papers -> BOOLEAN]
    /\ relation \in [Pairs -> [Types -> RelationStatus]]
    /\ pipeline \in [Papers -> Pc]
    /\ reconcile \in [Clients -> [paper : Papers, at : ReconcilePc] \union {None}]
    /\ seen \in [Workers -> Snapshot \union {None}]
    /\ checked \subseteq Papers
    /\ skipped \subseteq Pairs

ReviewInit ==
    /\ likeness = [pair \in Pairs |-> None]
    /\ status = [p \in Papers |-> "absent"]
    /\ trashed = [p \in Papers |-> FALSE]
    /\ stage = [p \in Papers |-> "open"]
    /\ converged = [p \in Papers |-> FALSE]
    /\ relation = [pair \in Pairs |-> [t \in Types |-> "absent"]]
    /\ pipeline = [p \in Papers |-> "new"]
    /\ reconcile = [c \in Clients |-> None]
    /\ seen = [w \in Workers |-> None]
    /\ checked = {}
    /\ skipped = {}

-----------------------------------------------------------------------------
(* The gate.                                                               *)

PendingTypes(p) == {t \in Types : \E q \in Papers \ {p} : relation[{p, q}][t] = "pending"}

\* _metadata_blocker: one accepted job that is completed is enough.
MetadataConverged(p) == stage[p] = "completed" \/ converged[p]

\* get_second_layer_input has no blocker.  Where the file is belongs to PaperStore.
Ready(p) ==
    /\ status[p] = "active"
    /\ ~trashed[p]
    /\ MetadataConverged(p)
    /\ PendingTypes(p) \intersect Critical = {}

-----------------------------------------------------------------------------
(* Changes of the metadata.                                                *)

\* A commit that writes the title, the authors or an identifier of a paper: it may
\* resemble any other paper in any way from now on, and what a running detection has
\* read of it is out of date.
Rewrite(p) ==
    /\ likeness' \in
         {l \in [Pairs -> Types \union {None}] : \A pair \in Pairs :
             l[pair] # likeness[pair] => p \in pair /\ \A q \in pair : status[q] # "absent"}
    /\ checked' = checked \ {p}
    /\ seen' = [w \in Workers |-> IF seen[w] = None THEN None
                                  ELSE [seen[w] EXCEPT !.fresh = @ \ {p}]]

\* update_paper_metadata and refresh_enrichment look at nothing but the paper's
\* existence, and start no detection.
ChangeMetadata(p) ==
    /\ status[p] # "absent"
    /\ Rewrite(p)
    /\ UNCHANGED <<libraryVars, jobVars, relation, pipeline, reconcile, skipped>>

\* enrich_paper_by_doi returns, whatever came of it.
Enriched(p) == Rewrite(p) \/ UNCHANGED <<likeness, checked, seen>>

-----------------------------------------------------------------------------
(* Duplicate detection, by the pipeline of a paper or a reconcile request. *)

\* The paper and the others that are not deleted are read, with their metadata.
\* Mutant: a paper whose own import is not over is left out.
ReadPapers_ImportsOver(w) ==
    seen' = [seen EXCEPT ![w] =
               [status |-> [p \in Papers |-> IF pipeline[p] = "over"
                                             THEN status[p] ELSE "absent"],
                fresh |-> {p \in Papers : status[p] # "absent"}]]

ReadPapers(w) ==
    seen' = [seen EXCEPT ![w] = [status |-> status,
                                 fresh |-> {p \in Papers : status[p] # "absent"}]]

Compared(w, p) == {q \in Papers \ {p} : seen[w].status[q] \notin {"absent", "deleted"}}

\* What score_paper_pair tells of each pair.  Of a paper that was rewritten meanwhile
\* it has seen the old metadata, the new, or some of both: any score may result.
Scores(w, p) ==
    {score \in [Compared(w, p) -> Types \union {None}] : \A q \in Compared(w, p) :
        {p, q} \subseteq seen[w].fresh => score[q] = likeness[{p, q}]}

Created(w, p, score) ==
    {q \in Compared(w, p) : score[q] # None /\ relation[{p, q}][score[q]] = "absent"}

\* The relations that do not exist are added as pending, and the papers the session
\* holds as active become duplicate_pending, whatever they are by now.
CommitDetection(w, p, score) ==
    /\ relation' = [pair \in Pairs |-> [t \in Types |->
                      IF \E q \in Created(w, p, score) : pair = {p, q} /\ t = score[q]
                      THEN "pending" ELSE relation[pair][t]]]
    /\ status' = [q \in Papers |->
                    IF /\ Created(w, p, score) # {}
                       /\ q \in Created(w, p, score) \union {p}
                       /\ seen[w].status[q] = "active"
                    THEN "duplicate_pending" ELSE status[q]]
    /\ checked' = checked \union ({p} \intersect seen[w].fresh)
    /\ skipped' = skipped \union {{p, q} : q \in {x \in Papers \ {p} : seen[w].status[x] = "deleted"}}

Forget(w) == seen' = [seen EXCEPT ![w] = None]

-----------------------------------------------------------------------------
(* run_import_pipeline.                                                    *)

Go(p, at) == pipeline' = [pipeline EXCEPT ![p] = at]
SetStage(p, s) == stage' = [stage EXCEPT ![p] = s]

\* import_paper accepts the file: the job is accepted and completed from here on.
AcceptImport(p) ==
    /\ pipeline[p] = "new"
    /\ status' = [status EXCEPT ![p] = "active"]
    /\ SetStage(p, "completed")
    /\ Go(p, "imported")
    /\ UNCHANGED <<likeness, trashed, converged, relation, reconcile, seen, detectionVars>>

StartExtraction(p) ==
    /\ pipeline[p] = "imported"
    /\ SetStage(p, "open")
    /\ Go(p, "extracting")
    /\ UNCHANGED <<likeness, libraryVars, converged, relation, reconcile, seen,
                   detectionVars>>

\* extract_metadata_candidates commits the candidates and the selected fields.
ExtractMetadata(p) ==
    /\ pipeline[p] = "extracting"
    /\ ~trashed[p]
    /\ Rewrite(p)
    /\ Go(p, "extracted")
    /\ UNCHANGED <<libraryVars, jobVars, relation, reconcile, skipped>>

\* It fails and writes nothing, or reads only part of the file and writes that.
ExtractionFails(p) ==
    /\ pipeline[p] = "extracting"
    /\ Rewrite(p) \/ UNCHANGED <<likeness, checked, seen>>
    /\ SetStage(p, "open")
    /\ Go(p, "over")
    /\ UNCHANGED <<libraryVars, converged, relation, reconcile, skipped>>

NoDoi(p) ==
    /\ pipeline[p] = "extracted"
    /\ SetStage(p, "open")
    /\ Go(p, "over")
    /\ UNCHANGED <<likeness, libraryVars, converged, relation, reconcile, seen,
                   detectionVars>>

\* The enrichment is best effort: the detection follows whatever came of it.
EnrichPaper(p) ==
    /\ pipeline[p] = "extracted"
    /\ Enriched(p)
    /\ Go(p, "enriched")
    /\ UNCHANGED <<libraryVars, jobVars, relation, reconcile, skipped>>

StartDetection(p) ==
    /\ pipeline[p] = "enriched"
    /\ SetStage(p, "open")
    /\ IF status[p] = "deleted"
       THEN Go(p, "over") /\ UNCHANGED seen
       ELSE Go(p, "detecting") /\ ReadPapers(p)
    /\ UNCHANGED <<likeness, libraryVars, converged, relation, reconcile, detectionVars>>

\* The detection commits, and the pipeline writes the last stage of the job.
FinishDetection(p) ==
    /\ pipeline[p] = "detecting"
    /\ \E score \in Scores(p, p) :
          /\ CommitDetection(p, p, score)
          /\ SetStage(p, IF Created(p, p, score) # {} THEN "open" ELSE "completed")
    /\ Go(p, "over")
    /\ Forget(p)
    /\ UNCHANGED <<likeness, trashed, converged, reconcile>>

\* The detection fails, on a relation somebody else has added meanwhile for one.
DetectionFails(p) ==
    /\ pipeline[p] = "detecting"
    /\ Go(p, "over")
    /\ Forget(p)
    /\ UNCHANGED <<likeness, libraryVars, jobVars, relation, reconcile, detectionVars>>

\* The process is killed, or a commit raises, between two steps of the pipeline.
PipelineStops(p) ==
    /\ pipeline[p] \notin {"new", "over"}
    /\ Go(p, "over")
    /\ Forget(p)
    /\ UNCHANGED <<likeness, libraryVars, jobVars, relation, reconcile, detectionVars>>

Pipeline(p) ==
    \/ AcceptImport(p) \/ StartExtraction(p) \/ ExtractMetadata(p) \/ ExtractionFails(p)
    \/ NoDoi(p) \/ EnrichPaper(p) \/ StartDetection(p) \/ FinishDetection(p)
    \/ DetectionFails(p) \/ PipelineStops(p)

-----------------------------------------------------------------------------
(* reconcile_paper.                                                        *)

At(c, at) == reconcile[c] # None /\ reconcile[c].at = at
Step(c, at) == reconcile' = [reconcile EXCEPT ![c].at = at]
Return(c) == reconcile' = [reconcile EXCEPT ![c] = None]

\* The paper has to be active with its file in place; what has converged already is
\* not extracted again.
StartReconcile(c, p) ==
    /\ reconcile[c] = None
    /\ status[p] = "active"
    /\ ~trashed[p]
    /\ reconcile' = [reconcile EXCEPT ![c] =
                    [paper |-> p,
                     at |-> IF MetadataConverged(p) THEN "enriching" ELSE "extracting"]]
    /\ UNCHANGED <<likeness, libraryVars, jobVars, relation, pipeline, seen, detectionVars>>

ReconcileExtracts(c) ==
    /\ At(c, "extracting")
    /\ ~trashed[reconcile[c].paper]
    /\ Rewrite(reconcile[c].paper)
    /\ Step(c, "recording")
    /\ UNCHANGED <<libraryVars, jobVars, relation, pipeline, skipped>>

\* The convergence is recorded as an accepted/completed job of its own.
RecordConvergence(c) ==
    /\ At(c, "recording")
    /\ converged' = [converged EXCEPT ![reconcile[c].paper] = TRUE]
    /\ Step(c, "enriching")
    /\ UNCHANGED <<likeness, libraryVars, stage, relation, pipeline, seen, detectionVars>>

\* Without a DOI there is nothing to enrich; what fails is a warning.
ReconcileEnriches(c) ==
    /\ At(c, "enriching")
    /\ Enriched(reconcile[c].paper)
    /\ Step(c, "checking")
    /\ UNCHANGED <<libraryVars, jobVars, relation, pipeline, skipped>>

ReconcileReads(c) ==
    /\ At(c, "checking")
    /\ status[reconcile[c].paper] # "deleted"
    /\ ReadPapers(c)
    /\ Step(c, "detecting")
    /\ UNCHANGED <<likeness, libraryVars, jobVars, relation, pipeline, detectionVars>>

ReconcileDetects(c) ==
    /\ At(c, "detecting")
    /\ \E score \in Scores(c, reconcile[c].paper) :
          CommitDetection(c, reconcile[c].paper, score)
    /\ Forget(c)
    /\ Return(c)
    /\ UNCHANGED <<likeness, trashed, jobVars, pipeline>>

\* An extraction or a detection that fails ends the request, and so does a crash.
ReconcileFails(c) ==
    /\ reconcile[c] # None
    /\ Forget(c)
    /\ Return(c)
    /\ UNCHANGED <<likeness, libraryVars, jobVars, relation, pipeline, detectionVars>>

Reconcile(c) ==
    \/ \E p \in Papers : StartReconcile(c, p)
    \/ ReconcileExtracts(c) \/ RecordConvergence(c) \/ ReconcileEnriches(c)
    \/ ReconcileReads(c) \/ ReconcileDetects(c) \/ ReconcileFails(c)

-----------------------------------------------------------------------------
(* Decisions, deletes and restores.  The write lock is taken before the    *)
(* papers of a relation are read, so a decision is one step.               *)

\* _converge_endpoint for both papers, after the relation has changed.
\* Mutant: the relations are counted before the decision is flushed.
Converge_BeforeFlush(pair) ==
    status' = [p \in Papers |->
                 IF /\ p \in pair
                    /\ status[p] = "duplicate_pending"
                    /\ \A q \in Papers \ {p} : \A t \in Types : relation[{p, q}][t] # "pending"
                 THEN "active" ELSE status[p]]

Converge(pair) ==
    status' = [p \in Papers |->
                 IF /\ p \in pair
                    /\ status[p] = "duplicate_pending"
                    /\ \A q \in Papers \ {p} : \A t \in Types : relation'[{p, q}][t] # "pending"
                 THEN "active" ELSE status[p]]

\* resolve_duplicate with same_paper, not_duplicate or ignore: confirmed, rejected or
\* ignored.  A decision may be taken again.
Resolve(pair, t) ==
    /\ relation[pair][t] # "absent"
    /\ relation' = [relation EXCEPT ![pair][t] = "decided"]
    /\ Converge(pair)
    /\ UNCHANGED <<likeness, trashed, jobVars, pipeline, reconcile, seen, detectionVars>>

\* different_version rewrites the type; the triple of pair and type is unique, and a
\* clash fails the decision.
ResolveDifferentVersion(pair, t) ==
    /\ relation[pair][t] # "absent"
    /\ t # "possible_version" => relation[pair]["possible_version"] = "absent"
    /\ relation' = [relation EXCEPT ![pair] =
                      [u \in Types |-> IF u = "possible_version" THEN "decided"
                                       ELSE IF u = t THEN "absent" ELSE @[u]]]
    /\ Converge(pair)
    /\ UNCHANGED <<likeness, trashed, jobVars, pipeline, reconcile, seen, detectionVars>>

\* soft_delete_paper and restore_paper; their steps are those of PaperStore.
SoftDelete(p) ==
    /\ status[p] \in {"active", "duplicate_pending"}
    /\ ~trashed[p]
    /\ status' = [status EXCEPT ![p] = "deleted"]
    /\ trashed' = [trashed EXCEPT ![p] = TRUE]
    /\ UNCHANGED <<likeness, jobVars, relation, pipeline, reconcile, seen, detectionVars>>

Restore(p) ==
    /\ status[p] = "deleted"
    /\ status' = [status EXCEPT ![p] = "active"]
    /\ trashed' = [trashed EXCEPT ![p] = FALSE]
    /\ UNCHANGED <<likeness, jobVars, relation, pipeline, reconcile, seen, detectionVars>>

Decide == \E pair \in Pairs, t \in Types : Resolve(pair, t) \/ ResolveDifferentVersion(pair, t)

ReviewNext ==
    \/ \E p \in Papers : Pipeline(p)
    \/ \E c \in Clients : Reconcile(c)
    \/ Decide
    \/ \E p \in Papers : SoftDelete(p) \/ Restore(p) \/ ChangeMetadata(p)

ReviewSpec == ReviewInit /\ [][ReviewNext]_reviewVars

-----------------------------------------------------------------------------
(* Properties.                                                             *)

\* A paper that waits for a review has a relation the user can decide: detections,
\* decisions, deletes and restores in any order leave no paper waiting for nothing.
PendingHasReason ==
    \A p \in Papers : status[p] = "duplicate_pending" => PendingTypes(p) # {}

\* Two papers that look alike, each compared with the library since its metadata last
\* changed, are related as they look or were decided about, unless one was deleted at
\* the time: concurrent imports, enrichments, edits, reviews and failures hide no pair
\* from detections that complete, although each reads the library at its own start.
\* And two probable duplicates are not both handed to the second layer before somebody
\* has decided about them.
NoPairMissed ==
    \A p, q \in checked :
        p # q /\ {p, q} \notin skipped /\ likeness[{p, q}] # None =>
            LET told == relation[{p, q}][likeness[{p, q}]]
                decided == \E t \in Types : relation[{p, q}][t] = "decided"
            IN /\ told # "absent" \/ decided
               /\ likeness[{p, q}] \in Critical /\ Ready(p) /\ Ready(q) => decided
=============================================================================

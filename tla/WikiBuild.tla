------------------------------ MODULE WikiBuild ------------------------------
(***************************************************************************)
(* The wiki of a workspace and the schema runs it is built from:           *)
(* extract_schema and the run storage (layer2/schema_extraction), the      *)
(* frozen snapshot of runs (layer3/schema/service.py), the build           *)
(* (layer3/wiki/service.py over layer2/wiki) and the status derived from   *)
(* what is on disk.                                                        *)
(*                                                                         *)
(* A build and a materialization hold the slot of the execution manager,   *)
(* so one worker does either; papers join and leave the workspace at any   *)
(* time.  The runs of a paper are numbered in the order they are written.  *)
(***************************************************************************)
EXTENDS Naturals

CONSTANTS
    Papers,    \* ids of the papers that may be members
    MaxRuns,   \* bound: schema runs of each paper
    None       \* nobody's paper

ASSUME NoneAssumption == None \notin Papers
ASSUME MaxRunsAssumption == MaxRuns \in Nat

VARIABLES
    members,     \* papers of the workspace
    runs,        \* by paper: how many runs have all their files
    current,     \* by paper: the run current.json names, 0 without one
    files,       \* what is in the directory of the wiki
    dir,         \* the directory exists
    cover,       \* WikiManifest.paper_ids
    built,       \* WikiManifest.build_status = "complete"
    pages,       \* the papers that have a page
    content,     \* by paper: the run the summary of its page shows, 0 for none
    indexed,     \* the vector index is of the files as they are
    recPapers,   \* the membership in the recorded provenance
    recRuns,     \* the runs in it
    recComplete, \* its build_status is complete
    at,          \* what the worker does
    paper,       \* the paper it works on
    context,     \* the papers of its build
    snapshot,    \* the runs captured for its build
    left,        \* papers of its build that are still to come
    allComplete  \* each paper so far was built completely

schemaVars == <<runs, current>>
snapshotVars == <<files, dir, cover, built, pages, content, indexed>>
recordVars == <<recPapers, recRuns, recComplete>>
buildVars == <<context, snapshot, left, allComplete>>
vars == <<members, schemaVars, snapshotVars, recordVars, at, paper, buildVars>>

SourceFiles == {"manifest", "pages", "links"}
Files == SourceFiles \union {"provenance"}
At == {"idle", "extracting", "run_written", "capturing", "captured", "papers", "first_write",
       "summary", "page", "index", "record"}
RunNumbers == 0..MaxRuns

TypeOK ==
    /\ members \in SUBSET Papers
    /\ runs \in [Papers -> RunNumbers]
    /\ current \in [Papers -> RunNumbers]
    /\ files \in SUBSET Files
    /\ dir \in BOOLEAN
    /\ cover \in SUBSET Papers
    /\ built \in BOOLEAN
    /\ pages \in SUBSET Papers
    /\ content \in [Papers -> RunNumbers]
    /\ indexed \in BOOLEAN
    /\ recPapers \in SUBSET Papers
    /\ recRuns \in [Papers -> RunNumbers]
    /\ recComplete \in BOOLEAN
    /\ at \in At
    /\ paper \in Papers \union {None}
    /\ context \in SUBSET Papers
    /\ snapshot \in [Papers -> RunNumbers]
    /\ left \in SUBSET Papers
    /\ allComplete \in BOOLEAN

NoRun == [p \in Papers |-> 0]

Init ==
    /\ members = {}
    /\ runs = NoRun
    /\ current = NoRun
    /\ files = {}
    /\ dir = FALSE
    /\ cover = {}
    /\ built = FALSE
    /\ pages = {}
    /\ content = NoRun
    /\ indexed = FALSE
    /\ recPapers = {}
    /\ recRuns = NoRun
    /\ recComplete = FALSE
    /\ at = "idle"
    /\ paper = None
    /\ context = {}
    /\ snapshot = NoRun
    /\ left = {}
    /\ allComplete = TRUE

-----------------------------------------------------------------------------
(* Membership, by requests of their own (WorkspaceLibrary has their steps).*)

AddPaper(p) ==
    /\ p \notin members
    /\ members' = members \union {p}
    /\ UNCHANGED <<schemaVars, snapshotVars, recordVars, at, paper, buildVars>>

RemovePaper(p) ==
    /\ p \in members
    /\ members' = members \ {p}
    /\ UNCHANGED <<schemaVars, snapshotVars, recordVars, at, paper, buildVars>>

-----------------------------------------------------------------------------
(* The worker.                                                             *)

\* The request ends: it is done, it fails, or the process is killed.  Nothing on disk
\* is undone.
Stop ==
    /\ at # "idle"
    /\ at' = "idle"
    /\ paper' = None
    /\ context' = {}
    /\ snapshot' = NoRun
    /\ left' = {}
    /\ allComplete' = TRUE
    /\ UNCHANGED <<members, schemaVars, snapshotVars, recordVars>>

-----------------------------------------------------------------------------
(* materialize: extract_schema writes a run and makes it current.          *)

StartMaterialize(p) ==
    /\ at = "idle"
    /\ p \in members
    /\ runs[p] < MaxRuns
    /\ at' = "extracting"
    /\ paper' = p
    /\ UNCHANGED <<members, schemaVars, snapshotVars, recordVars, buildVars>>

\* write_run ends with the manifest of the run; the run is read back and verified.
\* Mutant: the pointer is replaced first.
WriteRun_PointerFirst ==
    /\ at = "extracting"
    /\ current' = [current EXCEPT ![paper] = runs[paper] + 1]
    /\ at' = "run_written"
    /\ UNCHANGED <<members, runs, snapshotVars, recordVars, paper, buildVars>>

WriteRun ==
    /\ at = "extracting"
    /\ runs' = [runs EXCEPT ![paper] = @ + 1]
    /\ at' = "run_written"
    /\ UNCHANGED <<members, current, snapshotVars, recordVars, paper, buildVars>>

\* write_current replaces the pointer.
WriteCurrent ==
    /\ at = "run_written"
    /\ current' = [current EXCEPT ![paper] = runs[paper]]
    /\ at' = "idle"
    /\ paper' = None
    /\ UNCHANGED <<members, runs, snapshotVars, recordVars, buildVars>>

-----------------------------------------------------------------------------
(* build: the snapshot of runs, and the store it goes to.                  *)

StartBuild ==
    /\ at = "idle"
    /\ members # {}
    /\ context' = members
    /\ at' = "capturing"
    /\ UNCHANGED <<members, schemaVars, snapshotVars, recordVars, paper, snapshot, left, allComplete>>

\* capture_current_run: the pointer is read once, and the run it names is whole.
ReadsBack(p) == current[p] \in 1..runs[p]

\* Each paper of the context is still a member and has a current run that reads back;
\* otherwise the build fails with what is on disk untouched (Stop).
Capture ==
    /\ at = "capturing"
    /\ context \subseteq members
    /\ \A p \in context : ReadsBack(p)
    /\ snapshot' = [p \in Papers |-> IF p \in context THEN current[p] ELSE 0]
    /\ at' = "captured"
    /\ UNCHANGED <<members, schemaVars, snapshotVars, recordVars, paper, context, left, allComplete>>

\* _snapshot_covers_different_inputs: only a manifest that is there can differ.
CoversDifferentInputs == "manifest" \in files /\ cover # context

\* delete_wiki_storage ignores the errors of rmtree: what it cannot remove stays.
PrepareStore ==
    /\ at = "captured"
    /\ \/ /\ CoversDifferentInputs
          /\ files' \in SUBSET files
          /\ dir' \in {files' # {}, dir}
          /\ IF "pages" \in files' THEN UNCHANGED pages ELSE pages' = {}
          /\ IF "pages" \in files' THEN UNCHANGED content ELSE content' = NoRun
          /\ indexed' = FALSE
          /\ UNCHANGED <<cover, built>>
       \/ /\ ~CoversDifferentInputs
          /\ UNCHANGED snapshotVars
    /\ left' = context
    /\ at' = "papers"
    /\ UNCHANGED <<members, schemaVars, recordVars, paper, context, snapshot, allComplete>>

-----------------------------------------------------------------------------
(* build_wiki_for_paper, one paper of the context after the other.         *)

\* WikiStore._load: nothing at all is an empty wiki; anything else has to be complete
\* and of the same papers.
Loadable == ~dir \/ (SourceFiles \subseteq files /\ cover = context)

\* A write of the store replaces its files one by one, of which at most one changes
\* after the first write; then the vectors are rebuilt, or that fails.
Written == indexed' \in BOOLEAN

NextPaper(p) ==
    /\ left' = left \ {p}
    /\ paper' = None
    /\ at' = "papers"

\* ensure_paper_page in a wiki that exists.
EnsurePage(p) ==
    /\ at = "papers" /\ p \in left
    /\ dir /\ Loadable
    /\ pages' = pages \union {p}
    /\ IF p \in pages THEN UNCHANGED indexed ELSE Written
    /\ paper' = p
    /\ at' = "summary"
    /\ UNCHANGED <<members, schemaVars, files, dir, cover, built, content, recordVars, buildVars>>

\* ensure_paper_page in one that does not: the directory is made, and the manifest, the
\* pages and the links are moved into it in this order.
MakeDirectory(p) ==
    /\ at = "papers" /\ p \in left
    /\ ~dir
    /\ dir' = TRUE
    /\ paper' = p
    /\ at' = "first_write"
    /\ UNCHANGED <<members, schemaVars, files, cover, built, pages, content, indexed, recordVars,
                   buildVars>>

FirstManifest ==
    /\ at = "first_write" /\ "manifest" \notin files
    /\ files' = files \union {"manifest"}
    /\ cover' = context
    /\ built' = FALSE
    /\ UNCHANGED <<members, schemaVars, dir, pages, content, indexed, recordVars, at, paper,
                   buildVars>>

FirstPages ==
    /\ at = "first_write" /\ "manifest" \in files /\ "pages" \notin files
    /\ files' = files \union {"pages"}
    /\ pages' = {paper}
    /\ content' = NoRun
    /\ UNCHANGED <<members, schemaVars, dir, cover, built, indexed, recordVars, at, paper,
                   buildVars>>

FirstLinks ==
    /\ at = "first_write" /\ "pages" \in files
    /\ files' = files \union {"links"}
    /\ Written
    /\ at' = "summary"
    /\ UNCHANGED <<members, schemaVars, dir, cover, built, pages, content, recordVars, paper,
                   buildVars>>

\* _write_snapshot undoes a first write that fails, as far as it can.
FirstWriteFails ==
    /\ at = "first_write"
    /\ files' \in SUBSET files
    /\ dir' \in {files' # {}, TRUE}
    /\ NextPaper(paper)
    /\ allComplete' = FALSE
    /\ UNCHANGED <<members, schemaVars, cover, built, pages, content, indexed, recordVars,
                   context, snapshot>>

\* update_page_summary.
WriteSummary ==
    /\ at = "summary"
    /\ content' = [content EXCEPT ![paper] = snapshot[paper]]
    /\ Written
    /\ at' = "page"
    /\ UNCHANGED <<members, schemaVars, files, dir, cover, built, pages, recordVars, paper,
                   buildVars>>

\* Proposals, links, audit and update_page_build_status: the page is complete or not.
FinishPage ==
    /\ at = "page"
    /\ NextPaper(paper)
    /\ Written
    /\ allComplete' \in {allComplete, FALSE}
    /\ UNCHANGED <<members, schemaVars, files, dir, cover, built, pages, content, recordVars,
                   context, snapshot>>

\* The snapshot of the wiki does not load, or a step on the page fails.
PaperFails(p) ==
    /\ \/ at = "papers" /\ p \in left
       \/ at \in {"summary", "page"} /\ p = paper
    /\ NextPaper(p)
    /\ allComplete' = FALSE
    /\ UNCHANGED <<members, schemaVars, snapshotVars, recordVars, context, snapshot>>

-----------------------------------------------------------------------------
(* _finalize_build and record_build_provenance.                            *)

\* upsert_manifest fails on a snapshot that does not load (Stop).
\* Mutant: the manifest of a build is complete although a paper failed.
UpsertManifest_Always ==
    /\ at = "papers" /\ left = {}
    /\ dir /\ Loadable
    /\ built' = TRUE
    /\ Written
    /\ at' = "index"
    /\ UNCHANGED <<members, schemaVars, files, dir, cover, pages, content, recordVars, paper,
                   buildVars>>

UpsertManifest ==
    /\ at = "papers" /\ left = {}
    /\ dir /\ Loadable
    /\ built' = allComplete
    /\ Written
    /\ at' = "index"
    /\ UNCHANGED <<members, schemaVars, files, dir, cover, pages, content, recordVars, paper,
                   buildVars>>

\* It makes the files when every paper has failed before it had a page.
FirstUpsert ==
    /\ at = "papers" /\ left = {}
    /\ ~dir
    /\ dir' = TRUE
    /\ files' = files \union SourceFiles
    /\ cover' = context
    /\ built' = allComplete
    /\ pages' = {}
    /\ content' = NoRun
    /\ at' = "index"
    /\ UNCHANGED <<members, schemaVars, indexed, recordVars, paper, buildVars>>

\* rebuild_indexes and audit_wiki; without a good index the manifest becomes partial.
FinishIndex ==
    /\ at = "index"
    /\ Written
    /\ built' \in {built /\ indexed', FALSE}
    /\ at' = "record"
    /\ UNCHANGED <<members, schemaVars, files, dir, cover, pages, content, recordVars, paper,
                   buildVars>>

\* The provenance names the inputs that were captured, not those of now.
Record ==
    /\ at = "record"
    /\ files' = files \union {"provenance"}
    /\ recPapers' = context
    /\ recRuns' = snapshot
    /\ recComplete' = built
    /\ at' = "idle"
    /\ context' = {}
    /\ snapshot' = NoRun
    /\ allComplete' = TRUE
    /\ UNCHANGED <<members, schemaVars, dir, cover, built, pages, content, indexed, paper, left>>

-----------------------------------------------------------------------------
Build ==
    \/ StartBuild \/ Capture \/ PrepareStore
    \/ \E p \in Papers : EnsurePage(p) \/ MakeDirectory(p) \/ PaperFails(p)
    \/ FirstManifest \/ FirstPages \/ FirstLinks \/ FirstWriteFails
    \/ WriteSummary \/ FinishPage \/ UpsertManifest \/ FirstUpsert \/ FinishIndex \/ Record

Next ==
    \/ \E p \in Papers : AddPaper(p) \/ RemovePaper(p) \/ StartMaterialize(p)
    \/ WriteRun \/ WriteCurrent
    \/ Build
    \/ Stop

Spec == Init /\ [][Next]_vars

-----------------------------------------------------------------------------
(* Properties.                                                             *)

\* The fingerprint of the inputs of now is the recorded one, and no run is invalid.
SameInputs ==
    /\ recPapers = members
    /\ \A p \in members : ReadsBack(p) /\ recRuns[p] = current[p]

\* WorkspaceWikiService.status derives "ready".
Ready ==
    /\ members # {}
    /\ Files \subseteq files
    /\ SameInputs
    /\ recComplete
    /\ cover = members
    /\ built
    /\ indexed

\* A wiki that is ready has a page of each member and of nobody else, and each shows
\* the current run of its paper: whatever builds failed, were killed or ran while
\* papers came and went.
ReadyIsCurrent == Ready => pages = members /\ \A p \in members : content[p] = current[p]

\* current.json never names a run that does not read back.
CurrentIsWhole == \A p \in Papers : current[p] <= runs[p]
=============================================================================

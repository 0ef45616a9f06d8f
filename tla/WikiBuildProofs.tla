--------------------------- MODULE WikiBuildProofs ---------------------------
(***************************************************************************)
(* Proofs about WikiBuild, for any set of papers and any number of runs.   *)
(*                                                                         *)
(* The status compares what is recorded with the inputs of now, and never  *)
(* looks into the pages.  That this is enough rests on the order of a      *)
(* build: a page only changes to what the next record would name, and the  *)
(* manifest is complete only when every page of the build is there.        *)
(***************************************************************************)
EXTENDS WikiBuild, TLAPS

\* The steps of a build after its runs are captured.
Building == {"captured", "papers", "first_write", "summary", "page", "index", "record"}

\* The runs and the pointer, and what the worker does about them.
SchemaInPlace ==
    /\ CurrentIsWhole
    /\ at \in {"extracting", "run_written"} => paper \in Papers
    /\ at = "extracting" => runs[paper] < MaxRuns
    /\ at = "run_written" => current[paper] < runs[paper]
    /\ at \in Building => \A p \in Papers : snapshot[p] <= current[p]
    /\ at \in Building => \A p \in context : snapshot[p] = current[p]
    /\ \A p \in Papers : recRuns[p] <= current[p]

\* The files of the wiki while it is written.
FilesInPlace ==
    /\ left \subseteq context
    /\ at \notin {"papers", "first_write", "summary", "page"} => left = {}
    /\ at \in {"first_write", "summary", "page"} => paper \in left
    /\ ~dir => files = {}
    /\ "pages" \in files => pages \subseteq cover
    /\ at = "first_write" =>
          /\ dir
          /\ files \in {{}, {"manifest"}, {"manifest", "pages"}}
          /\ "manifest" \in files => cover = context /\ ~built
    /\ at \in {"summary", "page", "index", "record"} =>
          dir /\ SourceFiles \subseteq files /\ cover = context

\* The papers a build has dealt with have their pages, unless one has failed.
PagesInPlace ==
    /\ at = "papers" /\ ~dir /\ allComplete => left = context
    /\ at = "first_write" /\ allComplete => left = context
    /\ at = "first_write" /\ "pages" \in files => pages = {paper}
    /\ at \in {"summary", "page"} => paper \in pages
    /\ at = "page" => content[paper] = snapshot[paper]
    /\ at \in {"papers", "first_write", "summary", "page"} /\ allComplete =>
          \A p \in context \ left : p \in pages /\ content[p] = snapshot[p]
    /\ at \in {"index", "record"} /\ built =>
          context \subseteq pages /\ \A p \in context : content[p] = snapshot[p]

\* A complete record and a complete manifest of the same papers are of these pages.
RecordInPlace ==
    Files \subseteq files /\ recComplete /\ built /\ cover = recPapers =>
        /\ pages = recPapers
        /\ \A p \in recPapers : recRuns[p] = current[p] => content[p] = current[p]

\* The inductive invariant.
InPlace ==
    /\ TypeOK
    /\ SchemaInPlace
    /\ FilesInPlace
    /\ PagesInPlace
    /\ RecordInPlace

-----------------------------------------------------------------------------
(* Each part of the invariant, kept by every step.                         *)

\* Every step keeps the types.
LEMMA TypePreserved == InPlace /\ [Next]_vars => TypeOK'
<1> SUFFICES ASSUME InPlace, [Next]_vars
             PROVE  TypeOK'
  OBVIOUS
<1> USE NoneAssumption, MaxRunsAssumption DEF InPlace, TypeOK, At, RunNumbers, NoRun,
        SourceFiles, Files, SchemaInPlace, FilesInPlace, vars, schemaVars, snapshotVars,
        recordVars, buildVars
<1>1. ASSUME NEW p \in Papers, AddPaper(p)
      PROVE  TypeOK'
  BY <1>1 DEF AddPaper
<1>2. ASSUME NEW p \in Papers, RemovePaper(p)
      PROVE  TypeOK'
  BY <1>2 DEF RemovePaper
<1>3. ASSUME NEW p \in Papers, StartMaterialize(p)
      PROVE  TypeOK'
  BY <1>3 DEF StartMaterialize
<1>4. ASSUME WriteRun
      PROVE  TypeOK'
  BY <1>4 DEF WriteRun
<1>5. ASSUME WriteCurrent
      PROVE  TypeOK'
  BY <1>5 DEF WriteCurrent
<1>6. ASSUME StartBuild
      PROVE  TypeOK'
  BY <1>6 DEF StartBuild
<1>7. ASSUME Capture
      PROVE  TypeOK'
  BY <1>7 DEF Capture, ReadsBack
<1>8. ASSUME PrepareStore
      PROVE  TypeOK'
  <2>1. files' \in SUBSET Files
    BY <1>8 DEF PrepareStore
  <2>2. dir' \in BOOLEAN /\ indexed' \in BOOLEAN /\ built' = built /\ cover' = cover
    BY <1>8, Zenon DEF PrepareStore
  <2>3. pages' \in SUBSET Papers
    BY <1>8 DEF PrepareStore
  <2>4. content' \in [Papers -> RunNumbers]
    BY <1>8 DEF PrepareStore
  <2> QED
    BY <1>8, <2>1, <2>2, <2>3, <2>4 DEF PrepareStore
<1>9. ASSUME NEW p \in Papers, EnsurePage(p)
      PROVE  TypeOK'
  BY <1>9 DEF EnsurePage, Loadable, Written
<1>10. ASSUME NEW p \in Papers, MakeDirectory(p)
      PROVE  TypeOK'
  BY <1>10 DEF MakeDirectory
<1>11. ASSUME NEW p \in Papers, PaperFails(p)
      PROVE  TypeOK'
  BY <1>11 DEF PaperFails, NextPaper
<1>12. ASSUME FirstManifest
      PROVE  TypeOK'
  BY <1>12 DEF FirstManifest
<1>13. ASSUME FirstPages
      PROVE  TypeOK'
  BY <1>13 DEF FirstPages
<1>14. ASSUME FirstLinks
      PROVE  TypeOK'
  BY <1>14 DEF FirstLinks, Written
<1>15. ASSUME FirstWriteFails
      PROVE  TypeOK'
  BY <1>15 DEF FirstWriteFails, NextPaper
<1>16. ASSUME WriteSummary
      PROVE  TypeOK'
  BY <1>16 DEF WriteSummary, Written
<1>17. ASSUME FinishPage
      PROVE  TypeOK'
  BY <1>17 DEF FinishPage, NextPaper, Written
<1>18. ASSUME UpsertManifest
      PROVE  TypeOK'
  BY <1>18 DEF UpsertManifest, Loadable, Written
<1>19. ASSUME FirstUpsert
      PROVE  TypeOK'
  BY <1>19 DEF FirstUpsert
<1>20. ASSUME FinishIndex
      PROVE  TypeOK'
  BY <1>20 DEF FinishIndex, Written
<1>21. ASSUME Record
      PROVE  TypeOK'
  BY <1>21 DEF Record
<1>22. ASSUME Stop
      PROVE  TypeOK'
  BY <1>22 DEF Stop
<1>23. ASSUME UNCHANGED vars
      PROVE  TypeOK'
  BY <1>23
<1> QED
  BY <1>1, <1>2, <1>3, <1>4, <1>5, <1>6, <1>7, <1>8, <1>9, <1>10, <1>11, <1>12, <1>13,
     <1>14, <1>15, <1>16, <1>17, <1>18, <1>19, <1>20, <1>21, <1>22, <1>23
     DEF Next, Build

\* Every step keeps the pointer behind the runs, and the snapshot with the pointer.
LEMMA SchemaPreserved == InPlace /\ [Next]_vars => SchemaInPlace'
<1> SUFFICES ASSUME InPlace, [Next]_vars
             PROVE  SchemaInPlace'
  OBVIOUS
<1> USE NoneAssumption, MaxRunsAssumption DEF InPlace, TypeOK, At, RunNumbers, NoRun,
        SchemaInPlace, CurrentIsWhole, Building, vars, schemaVars, snapshotVars,
        recordVars, buildVars
<1>1. ASSUME NEW p \in Papers, AddPaper(p)
      PROVE  SchemaInPlace'
  BY <1>1 DEF AddPaper
<1>2. ASSUME NEW p \in Papers, RemovePaper(p)
      PROVE  SchemaInPlace'
  BY <1>2 DEF RemovePaper
<1>3. ASSUME NEW p \in Papers, StartMaterialize(p)
      PROVE  SchemaInPlace'
  BY <1>3 DEF StartMaterialize
<1>4. ASSUME WriteRun
      PROVE  SchemaInPlace'
  BY <1>4 DEF WriteRun
<1>5. ASSUME WriteCurrent
      PROVE  SchemaInPlace'
  BY <1>5 DEF WriteCurrent
<1>6. ASSUME StartBuild
      PROVE  SchemaInPlace'
  BY <1>6 DEF StartBuild
<1>7. ASSUME Capture
      PROVE  SchemaInPlace'
  BY <1>7 DEF Capture, ReadsBack
<1>8. ASSUME PrepareStore
      PROVE  SchemaInPlace'
  BY <1>8 DEF PrepareStore, CoversDifferentInputs
<1>9. ASSUME NEW p \in Papers, EnsurePage(p)
      PROVE  SchemaInPlace'
  BY <1>9 DEF EnsurePage, Loadable, Written
<1>10. ASSUME NEW p \in Papers, MakeDirectory(p)
      PROVE  SchemaInPlace'
  BY <1>10 DEF MakeDirectory
<1>11. ASSUME NEW p \in Papers, PaperFails(p)
      PROVE  SchemaInPlace'
  BY <1>11 DEF PaperFails, NextPaper
<1>12. ASSUME FirstManifest
      PROVE  SchemaInPlace'
  BY <1>12 DEF FirstManifest
<1>13. ASSUME FirstPages
      PROVE  SchemaInPlace'
  BY <1>13 DEF FirstPages
<1>14. ASSUME FirstLinks
      PROVE  SchemaInPlace'
  BY <1>14 DEF FirstLinks, Written
<1>15. ASSUME FirstWriteFails
      PROVE  SchemaInPlace'
  BY <1>15 DEF FirstWriteFails, NextPaper
<1>16. ASSUME WriteSummary
      PROVE  SchemaInPlace'
  BY <1>16 DEF WriteSummary, Written
<1>17. ASSUME FinishPage
      PROVE  SchemaInPlace'
  BY <1>17 DEF FinishPage, NextPaper, Written
<1>18. ASSUME UpsertManifest
      PROVE  SchemaInPlace'
  BY <1>18 DEF UpsertManifest, Loadable, Written
<1>19. ASSUME FirstUpsert
      PROVE  SchemaInPlace'
  BY <1>19 DEF FirstUpsert
<1>20. ASSUME FinishIndex
      PROVE  SchemaInPlace'
  BY <1>20 DEF FinishIndex, Written
<1>21. ASSUME Record
      PROVE  SchemaInPlace'
  BY <1>21 DEF Record
<1>22. ASSUME Stop
      PROVE  SchemaInPlace'
  BY <1>22 DEF Stop
<1>23. ASSUME UNCHANGED vars
      PROVE  SchemaInPlace'
  BY <1>23
<1> QED
  BY <1>1, <1>2, <1>3, <1>4, <1>5, <1>6, <1>7, <1>8, <1>9, <1>10, <1>11, <1>12, <1>13,
     <1>14, <1>15, <1>16, <1>17, <1>18, <1>19, <1>20, <1>21, <1>22, <1>23
     DEF Next, Build

\* Every step keeps the order of the files.
LEMMA FilesPreserved == InPlace /\ [Next]_vars => FilesInPlace'
<1> SUFFICES ASSUME InPlace, [Next]_vars
             PROVE  FilesInPlace'
  OBVIOUS
<1> USE NoneAssumption, MaxRunsAssumption DEF InPlace, TypeOK, SourceFiles, FilesInPlace,
        vars, schemaVars, snapshotVars, recordVars, buildVars
<1>1. ASSUME NEW p \in Papers, AddPaper(p)
      PROVE  FilesInPlace'
  BY <1>1 DEF AddPaper
<1>2. ASSUME NEW p \in Papers, RemovePaper(p)
      PROVE  FilesInPlace'
  BY <1>2 DEF RemovePaper
<1>3. ASSUME NEW p \in Papers, StartMaterialize(p)
      PROVE  FilesInPlace'
  BY <1>3 DEF StartMaterialize
<1>4. ASSUME WriteRun
      PROVE  FilesInPlace'
  BY <1>4 DEF WriteRun
<1>5. ASSUME WriteCurrent
      PROVE  FilesInPlace'
  BY <1>5 DEF WriteCurrent
<1>6. ASSUME StartBuild
      PROVE  FilesInPlace'
  BY <1>6 DEF StartBuild
<1>7. ASSUME Capture
      PROVE  FilesInPlace'
  BY <1>7 DEF Capture, ReadsBack
<1>8. ASSUME PrepareStore
      PROVE  FilesInPlace'
  BY <1>8 DEF PrepareStore, CoversDifferentInputs
<1>9. ASSUME NEW p \in Papers, EnsurePage(p)
      PROVE  FilesInPlace'
  BY <1>9 DEF EnsurePage, Loadable, Written
<1>10. ASSUME NEW p \in Papers, MakeDirectory(p)
      PROVE  FilesInPlace'
  BY <1>10 DEF MakeDirectory
<1>11. ASSUME NEW p \in Papers, PaperFails(p)
      PROVE  FilesInPlace'
  BY <1>11 DEF PaperFails, NextPaper
<1>12. ASSUME FirstManifest
      PROVE  FilesInPlace'
  BY <1>12 DEF FirstManifest
<1>13. ASSUME FirstPages
      PROVE  FilesInPlace'
  BY <1>13 DEF FirstPages
<1>14. ASSUME FirstLinks
      PROVE  FilesInPlace'
  BY <1>14 DEF FirstLinks, Written
<1>15. ASSUME FirstWriteFails
      PROVE  FilesInPlace'
  BY <1>15 DEF FirstWriteFails, NextPaper
<1>16. ASSUME WriteSummary
      PROVE  FilesInPlace'
  BY <1>16 DEF WriteSummary, Written
<1>17. ASSUME FinishPage
      PROVE  FilesInPlace'
  BY <1>17 DEF FinishPage, NextPaper, Written
<1>18. ASSUME UpsertManifest
      PROVE  FilesInPlace'
  BY <1>18 DEF UpsertManifest, Loadable, Written
<1>19. ASSUME FirstUpsert
      PROVE  FilesInPlace'
  BY <1>19 DEF FirstUpsert
<1>20. ASSUME FinishIndex
      PROVE  FilesInPlace'
  BY <1>20 DEF FinishIndex, Written
<1>21. ASSUME Record
      PROVE  FilesInPlace'
  BY <1>21 DEF Record
<1>22. ASSUME Stop
      PROVE  FilesInPlace'
  BY <1>22 DEF Stop
<1>23. ASSUME UNCHANGED vars
      PROVE  FilesInPlace'
  BY <1>23
<1> QED
  BY <1>1, <1>2, <1>3, <1>4, <1>5, <1>6, <1>7, <1>8, <1>9, <1>10, <1>11, <1>12, <1>13,
     <1>14, <1>15, <1>16, <1>17, <1>18, <1>19, <1>20, <1>21, <1>22, <1>23
     DEF Next, Build

\* Every step of a build leaves the pages it has written.
LEMMA PagesPreserved == InPlace /\ [Next]_vars => PagesInPlace'
<1> SUFFICES ASSUME InPlace, [Next]_vars
             PROVE  PagesInPlace'
  OBVIOUS
<1> USE NoneAssumption, MaxRunsAssumption DEF InPlace, TypeOK, SourceFiles, FilesInPlace,
        PagesInPlace, vars, schemaVars, snapshotVars, recordVars, buildVars
<1>1. ASSUME NEW p \in Papers, AddPaper(p)
      PROVE  PagesInPlace'
  BY <1>1 DEF AddPaper
<1>2. ASSUME NEW p \in Papers, RemovePaper(p)
      PROVE  PagesInPlace'
  BY <1>2 DEF RemovePaper
<1>3. ASSUME NEW p \in Papers, StartMaterialize(p)
      PROVE  PagesInPlace'
  BY <1>3 DEF StartMaterialize
<1>4. ASSUME WriteRun
      PROVE  PagesInPlace'
  BY <1>4 DEF WriteRun
<1>5. ASSUME WriteCurrent
      PROVE  PagesInPlace'
  BY <1>5 DEF WriteCurrent
<1>6. ASSUME StartBuild
      PROVE  PagesInPlace'
  BY <1>6 DEF StartBuild
<1>7. ASSUME Capture
      PROVE  PagesInPlace'
  BY <1>7 DEF Capture, ReadsBack
<1>8. ASSUME PrepareStore
      PROVE  PagesInPlace'
  BY <1>8 DEF PrepareStore, CoversDifferentInputs
<1>9. ASSUME NEW p \in Papers, EnsurePage(p)
      PROVE  PagesInPlace'
  BY <1>9 DEF EnsurePage, Loadable, Written
<1>10. ASSUME NEW p \in Papers, MakeDirectory(p)
      PROVE  PagesInPlace'
  BY <1>10 DEF MakeDirectory
<1>11. ASSUME NEW p \in Papers, PaperFails(p)
      PROVE  PagesInPlace'
  BY <1>11 DEF PaperFails, NextPaper
<1>12. ASSUME FirstManifest
      PROVE  PagesInPlace'
  BY <1>12 DEF FirstManifest
<1>13. ASSUME FirstPages
      PROVE  PagesInPlace'
  BY <1>13 DEF FirstPages
<1>14. ASSUME FirstLinks
      PROVE  PagesInPlace'
  BY <1>14 DEF FirstLinks, Written
<1>15. ASSUME FirstWriteFails
      PROVE  PagesInPlace'
  BY <1>15 DEF FirstWriteFails, NextPaper
<1>16. ASSUME WriteSummary
      PROVE  PagesInPlace'
  BY <1>16 DEF WriteSummary, Written
<1>17. ASSUME FinishPage
      PROVE  PagesInPlace'
  <2>1. allComplete' => allComplete
    BY <1>17, Zenon DEF FinishPage
  <2> QED
    BY <1>17, <2>1 DEF FinishPage, NextPaper, Written
<1>18. ASSUME UpsertManifest
      PROVE  PagesInPlace'
  BY <1>18 DEF UpsertManifest, Loadable, Written
<1>19. ASSUME FirstUpsert
      PROVE  PagesInPlace'
  BY <1>19 DEF FirstUpsert
<1>20. ASSUME FinishIndex
      PROVE  PagesInPlace'
  BY <1>20 DEF FinishIndex, Written
<1>21. ASSUME Record
      PROVE  PagesInPlace'
  BY <1>21 DEF Record
<1>22. ASSUME Stop
      PROVE  PagesInPlace'
  BY <1>22 DEF Stop
<1>23. ASSUME UNCHANGED vars
      PROVE  PagesInPlace'
  BY <1>23
<1> QED
  BY <1>1, <1>2, <1>3, <1>4, <1>5, <1>6, <1>7, <1>8, <1>9, <1>10, <1>11, <1>12, <1>13,
     <1>14, <1>15, <1>16, <1>17, <1>18, <1>19, <1>20, <1>21, <1>22, <1>23
     DEF Next, Build

\* No step makes a complete record one of other pages.
LEMMA RecordPreserved == InPlace /\ [Next]_vars => RecordInPlace'
<1> SUFFICES ASSUME InPlace, [Next]_vars
             PROVE  RecordInPlace'
  OBVIOUS
<1> USE NoneAssumption, MaxRunsAssumption DEF InPlace, TypeOK, SourceFiles, Files,
        Building, RunNumbers, SchemaInPlace, FilesInPlace, PagesInPlace, RecordInPlace,
        vars, schemaVars, snapshotVars, recordVars, buildVars
<1>1. ASSUME NEW p \in Papers, AddPaper(p)
      PROVE  RecordInPlace'
  BY <1>1 DEF AddPaper
<1>2. ASSUME NEW p \in Papers, RemovePaper(p)
      PROVE  RecordInPlace'
  BY <1>2 DEF RemovePaper
<1>3. ASSUME NEW p \in Papers, StartMaterialize(p)
      PROVE  RecordInPlace'
  BY <1>3 DEF StartMaterialize
<1>4. ASSUME WriteRun
      PROVE  RecordInPlace'
  BY <1>4 DEF WriteRun
<1>5. ASSUME WriteCurrent
      PROVE  RecordInPlace'
  BY <1>5 DEF WriteCurrent
<1>6. ASSUME StartBuild
      PROVE  RecordInPlace'
  BY <1>6 DEF StartBuild
<1>7. ASSUME Capture
      PROVE  RecordInPlace'
  BY <1>7 DEF Capture, ReadsBack
<1>8. ASSUME PrepareStore
      PROVE  RecordInPlace'
  BY <1>8 DEF PrepareStore, CoversDifferentInputs
<1>9. ASSUME NEW p \in Papers, EnsurePage(p)
      PROVE  RecordInPlace'
  BY <1>9 DEF EnsurePage, Loadable, Written
<1>10. ASSUME NEW p \in Papers, MakeDirectory(p)
      PROVE  RecordInPlace'
  BY <1>10 DEF MakeDirectory
<1>11. ASSUME NEW p \in Papers, PaperFails(p)
      PROVE  RecordInPlace'
  BY <1>11 DEF PaperFails, NextPaper
<1>12. ASSUME FirstManifest
      PROVE  RecordInPlace'
  BY <1>12 DEF FirstManifest
<1>13. ASSUME FirstPages
      PROVE  RecordInPlace'
  BY <1>13 DEF FirstPages
<1>14. ASSUME FirstLinks
      PROVE  RecordInPlace'
  BY <1>14 DEF FirstLinks, Written
<1>15. ASSUME FirstWriteFails
      PROVE  RecordInPlace'
  BY <1>15 DEF FirstWriteFails, NextPaper
<1>16. ASSUME WriteSummary
      PROVE  RecordInPlace'
  BY <1>16 DEF WriteSummary, Written
<1>17. ASSUME FinishPage
      PROVE  RecordInPlace'
  BY <1>17 DEF FinishPage, NextPaper, Written
<1>18. ASSUME UpsertManifest
      PROVE  RecordInPlace'
  BY <1>18 DEF UpsertManifest, Loadable, Written
<1>19. ASSUME FirstUpsert
      PROVE  RecordInPlace'
  BY <1>19 DEF FirstUpsert
<1>20. ASSUME FinishIndex
      PROVE  RecordInPlace'
  BY <1>20 DEF FinishIndex, Written
<1>21. ASSUME Record
      PROVE  RecordInPlace'
  BY <1>21 DEF Record
<1>22. ASSUME Stop
      PROVE  RecordInPlace'
  BY <1>22 DEF Stop
<1>23. ASSUME UNCHANGED vars
      PROVE  RecordInPlace'
  BY <1>23
<1> QED
  BY <1>1, <1>2, <1>3, <1>4, <1>5, <1>6, <1>7, <1>8, <1>9, <1>10, <1>11, <1>12, <1>13,
     <1>14, <1>15, <1>16, <1>17, <1>18, <1>19, <1>20, <1>21, <1>22, <1>23
     DEF Next, Build

-----------------------------------------------------------------------------
(* The theorems.                                                           *)

\* The invariant holds in every state.
THEOREM WikiInvariant == Spec => []InPlace
<1>1. Init => InPlace
  <2> SUFFICES ASSUME Init
               PROVE  InPlace
    OBVIOUS
  <2>1. 0 \in RunNumbers /\ NoRun \in [Papers -> RunNumbers]
    BY MaxRunsAssumption DEF RunNumbers, NoRun
  <2>2. TypeOK
    BY <2>1 DEF Init, TypeOK, At, Files
  <2>3. SchemaInPlace
    BY DEF Init, SchemaInPlace, CurrentIsWhole, Building, NoRun
  <2>4. FilesInPlace /\ PagesInPlace
    BY DEF Init, FilesInPlace, PagesInPlace
  <2>5. RecordInPlace
    BY DEF Init, RecordInPlace, Files
  <2> QED
    BY <2>2, <2>3, <2>4, <2>5 DEF InPlace
<1>2. InPlace /\ [Next]_vars => InPlace'
  BY TypePreserved, SchemaPreserved, FilesPreserved, PagesPreserved, RecordPreserved DEF
     InPlace
<1> QED
  BY <1>1, <1>2, PTL DEF Spec

\* Every variable keeps its type.
THEOREM WikiTypeCorrect == Spec => []TypeOK
<1>1. InPlace => TypeOK
  BY DEF InPlace
<1> QED
  BY <1>1, WikiInvariant, PTL

\* A wiki whose status is ready shows the members and their current runs.
THEOREM ReadyWikiIsCurrent == Spec => []ReadyIsCurrent
<1>1. InPlace => ReadyIsCurrent
  BY DEF InPlace, RecordInPlace, ReadyIsCurrent, Ready, SameInputs
<1> QED
  BY <1>1, WikiInvariant, PTL

\* The pointer of a paper names a run that is whole.
THEOREM CurrentRunIsWhole == Spec => []CurrentIsWhole
<1>1. InPlace => CurrentIsWhole
  BY DEF InPlace, SchemaInPlace
<1> QED
  BY <1>1, WikiInvariant, PTL
=============================================================================

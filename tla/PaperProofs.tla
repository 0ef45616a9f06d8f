----------------------------- MODULE PaperProofs -----------------------------
(***************************************************************************)
(* Proofs about the three modules of papers, for any sets of uploads,      *)
(* papers, titles, providers and request threads.                          *)
(*                                                                         *)
(* PaperStore.  An import may remove its temporary copy in three places.   *)
(* That none of them removes the last copy of a stored paper rests on      *)
(* where the import stands: before the commit there is no row, and after   *)
(* the move there is a copy in originals/ or trash/, which requests only   *)
(* move to and fro.  That the rows follow the file rests on what requests  *)
(* have read: a delete holds the lock, so its row is as it read it unless  *)
(* a restore came in between; restores of one paper may overlap, but the   *)
(* second finds the file moved and writes what the first one did.          *)
(*                                                                         *)
(* PaperReview.  That no pair of papers is missed rests on the order in    *)
(* which detections read: a rewrite of its metadata takes a paper out of   *)
(* what any detection holds fresh, so of two detections the later one      *)
(* holds fresh all that the earlier one does, and finds its paper unless   *)
(* it is told from it by then.                                             *)
(*                                                                         *)
(* PaperMetadata.  That the title is the best candidate rests on what the  *)
(* sessions have loaded: a paper that had a title keeps one, so a session  *)
(* with a new candidate writes it or is mistaken for a reason that the     *)
(* history names.  The record of a provider is loaded and written in steps *)
(* of their own: what the one request under way has set, or will set, is   *)
(* within the budget.                                                      *)
(***************************************************************************)
EXTENDS PaperStore, PaperReview, PaperMetadata, FiniteSetTheorems, SequenceTheorems,
        WellFoundedInduction, TLAPS

-----------------------------------------------------------------------------
(* PaperStore: copies and holders.                                         *)

\* What the rows and the disk hold while the import of j is at each of its steps.
ImportInStep(j) ==
    /\ pc[j] \in {"hash", "duplicate_check", "write", "move", "reconcile"} =>
          "temporary" \in disk[j]
    /\ Stored(j) => pc[j] \in {"move", "reconcile", "finish", "over"}
    /\ pc[j] \in {"move", "reconcile", "finish"} => Stored(j) /\ link[j] = j
    /\ pc[j] = "finish" => "originals" \in disk[j] \/ "trash" \in disk[j]
    /\ Stored(j) /\ row[j].place = "temporary" => pc[j] = "over"
    /\ pc[j] # "over" => job[j] \notin {"accepted", "rejected"}

\* A request works on a stored paper, and a file it saw in temporary/ is not the
\* copy of an import that goes on.
RequestInStep(c) ==
    client[c] # None =>
        /\ Stored(client[c].paper)
        /\ client[c].seen.place = "temporary" => pc[client[c].paper] = "over"

\* The inductive invariant.
InStep ==
    /\ TypeOK
    /\ \A j \in Jobs : ImportInStep(j)
    /\ \A c \in Clients : RequestInStep(c)
    /\ NoBytesLost
    /\ OneHolder

-----------------------------------------------------------------------------
(* Type correctness.                                                       *)

\* A request that goes on keeps its record.
LEMMA RequestGoesOn ==
    ASSUME NEW r \in Client, NEW at \in ClientPc, NEW saw \in Row
    PROVE  /\ [r EXCEPT !.at = at] \in Client
           /\ [r EXCEPT !.at = at, !.seen = saw] \in Client
BY DEF Client

\* What a commit writes is a row.
LEMMA MergedRow ==
    ASSUME TypeOK, NEW c \in Clients, client[c] # None, NEW now \in Row
    PROVE  Merge(now, client[c].seen, Changed(c)) \in Row
BY DEF TypeOK, Client, Row, Places, Merge, Changed

\* Every step of an import or a request keeps the types.
LEMMA TypePreserved == InStep /\ [Next]_vars => TypeOK'
<1> SUFFICES ASSUME InStep, [Next]_vars
             PROVE  TypeOK'
  OBVIOUS
<1> USE NoneAssumption
    DEF InStep, TypeOK, JobStatus, ImportPc, ClientPc, Row, Client, Places, vars,
        importVars, historyVars, Stored, Fail, CleanUp, Holders, Moved, NewRow,
        Overlap, Leave, Release
<1>1. ASSUME NEW j \in Jobs, CreateJob(j)
      PROVE  TypeOK'
  BY <1>1 DEF CreateJob
<1>2. ASSUME NEW j \in Jobs, CopyToTemporary(j)
      PROVE  TypeOK'
  BY <1>2 DEF CopyToTemporary
<1>3. ASSUME NEW j \in Jobs, ComputeSha256(j)
      PROVE  TypeOK'
  BY <1>3 DEF ComputeSha256
<1>4. ASSUME NEW j \in Jobs, RejectDuplicate(j)
      PROVE  TypeOK'
  BY <1>4 DEF RejectDuplicate
<1>5. ASSUME NEW j \in Jobs, NoDuplicate(j)
      PROVE  TypeOK'
  BY <1>5 DEF NoDuplicate
<1>6. ASSUME NEW j \in Jobs, DuplicateCheckFails(j)
      PROVE  TypeOK'
  BY <1>6 DEF DuplicateCheckFails
<1>7. ASSUME NEW j \in Jobs, CommitPaper(j)
      PROVE  TypeOK'
  BY <1>7 DEF CommitPaper
<1>8. ASSUME NEW j \in Jobs, CommitPaperFails(j)
      PROVE  TypeOK'
  BY <1>8 DEF CommitPaperFails
<1>9. ASSUME NEW j \in Jobs, MoveToOriginals(j)
      PROVE  TypeOK'
  BY <1>9 DEF MoveToOriginals
<1>10. ASSUME NEW j \in Jobs, MoveFails(j)
      PROVE  TypeOK'
  BY <1>10 DEF MoveFails
<1>11. ASSUME NEW j \in Jobs, MoveNotReached(j)
      PROVE  TypeOK'
  BY <1>11 DEF MoveNotReached
<1>12. ASSUME NEW j \in Jobs, ReconcileMove(j)
      PROVE  TypeOK'
  <2>1. row[j] \in Row
    BY <1>12 DEF ReconcileMove, ImportInStep
  <2>2. [row[j] EXCEPT !.place = "temporary"] \in Row
    BY <2>1
  <2> QED
    BY <1>12, <2>2 DEF ReconcileMove
<1>13. ASSUME NEW j \in Jobs, ReconcileMoveFails(j)
      PROVE  TypeOK'
  BY <1>13 DEF ReconcileMoveFails
<1>14. ASSUME NEW j \in Jobs, FinishImport(j)
      PROVE  TypeOK'
  BY <1>14 DEF FinishImport
<1>15. ASSUME NEW j \in Jobs, ImportStops(j)
      PROVE  TypeOK'
  BY <1>15 DEF ImportStops
<1>16. ASSUME NEW c \in Clients, NEW p \in Jobs, BeginDelete(c, p)
      PROVE  TypeOK'
  BY <1>16 DEF BeginDelete
<1>17. ASSUME NEW c \in Clients, NEW p \in Jobs, BeginRestore(c, p)
      PROVE  TypeOK'
  BY <1>17 DEF BeginRestore
<1>18. ASSUME NEW c \in Clients, ReadFiles(c)
      PROVE  TypeOK'
  BY <1>18 DEF ReadFiles
<1>19. ASSUME NEW c \in Clients, MoveFile(c)
      PROVE  TypeOK'
  <2>1. client[c] \in Client
    BY <1>19 DEF MoveFile
  <2>2. [client[c] EXCEPT !.at = "commit"] \in Client
    BY <2>1
  <2>3. client' \in [Clients -> Client \union {None}]
    BY <1>19, <2>2 DEF MoveFile
  <2>4. disk' \in [Jobs -> SUBSET Places]
    BY <1>19, <2>1 DEF MoveFile, Target
  <2> QED
    BY <1>19, <2>3, <2>4 DEF MoveFile
<1>20. ASSUME NEW c \in Clients, MoveFileFails(c)
      PROVE  TypeOK'
  BY <1>20 DEF MoveFileFails
<1>21. ASSUME NEW c \in Clients, CommitChange(c)
      PROVE  TypeOK'
  <2>1. client[c] \in Client
    BY <1>21 DEF CommitChange
  <2>2. row[client[c].paper] \in Row
    BY <1>21, <2>1 DEF CommitChange, RequestInStep
  <2>3. Merge(row[client[c].paper], client[c].seen, Changed(c)) \in Row
    BY <1>21, <2>2, MergedRow DEF CommitChange
  <2>4. row' \in [Jobs -> Row \union {None}]
    BY <1>21, <2>1, <2>3 DEF CommitChange
  <2>5. client' \in [Clients -> Client \union {None}]
    BY <1>21 DEF CommitChange
  <2> QED
    BY <1>21, <2>4, <2>5 DEF CommitChange
<1>22. ASSUME NEW c \in Clients, CommitChangeFails(c)
      PROVE  TypeOK'
  BY <1>22 DEF CommitChangeFails
<1>23. ASSUME UNCHANGED vars
      PROVE  TypeOK'
  BY <1>23
<1> QED
  BY <1>1, <1>2, <1>3, <1>4, <1>5, <1>6, <1>7, <1>8, <1>9, <1>10, <1>11, <1>12, <1>13, <1>14, <1>15, <1>16, <1>17, <1>18, <1>19, <1>20, <1>21, <1>22, <1>23
  DEF Next, Import, Request
-----------------------------------------------------------------------------
(* Where the imports and requests stand.                                *)

\* The part of the invariant that ties rows, disk and steps together.
Linked ==
    /\ \A j \in Jobs : ImportInStep(j)
    /\ \A c \in Clients : RequestInStep(c)
    /\ NoBytesLost
    /\ OneHolder

\* What an import commits is a row of a file in originals/.
LEMMA CommittedRow == NewRow # None /\ NewRow.place = "originals"
<1>1. NewRow \in Row
  BY DEF NewRow, Row, Places
<1>2. NewRow # None
  BY <1>1, NoneAssumption
<1> QED
  BY <1>2 DEF NewRow

\* The commit of a request leaves a row, and names temporary/ only if the row or
\* what the request had read did.
LEMMA CommitKeepsRow ==
    ASSUME InStep, NEW c \in Clients, CommitChange(c)
    PROVE  /\ client[c] \in Client
           /\ row[client[c].paper] \in Row
           /\ row'[client[c].paper] \in Row
           /\ row'[client[c].paper].place = "temporary" => pc[client[c].paper] = "over"
           /\ \A p \in Jobs \ {client[c].paper} : row'[p] = row[p]
<1>1. client[c] \in Client
  BY DEF CommitChange, InStep, TypeOK
<1>2. row[client[c].paper] \in Row
  BY <1>1 DEF CommitChange, InStep, TypeOK, RequestInStep, Stored, Client
<1>3. row'[client[c].paper] = Merge(row[client[c].paper], client[c].seen, Changed(c))
  BY <1>1 DEF CommitChange, InStep, TypeOK, Client
<1>4. Merge(row[client[c].paper], client[c].seen, Changed(c)) \in Row
  BY <1>2, MergedRow DEF CommitChange, InStep
<1>5. ASSUME row'[client[c].paper].place = "temporary"
      PROVE  row[client[c].paper].place = "temporary" \/ client[c].seen.place = "temporary"
  BY <1>3, <1>5 DEF Merge, Changed
<1> QED
  BY <1>1, <1>2, <1>3, <1>4, <1>5, NoneAssumption
  DEF CommitChange, InStep, TypeOK, RequestInStep, ImportInStep, Stored, Client

\* A request moves a file to originals/ or trash/, and takes it from temporary/ only
\* when the import is over.
LEMMA MoveKeepsCopy ==
    ASSUME InStep, NEW c \in Clients, MoveFile(c)
    PROVE  /\ client[c] \in Client
           /\ client'[c] \in Client
           /\ client'[c].paper = client[c].paper
           /\ client'[c].seen = client[c].seen
           /\ \A p \in Jobs :
                /\ disk[p] # {} => disk'[p] # {}
                /\ "temporary" \in disk[p] /\ pc[p] # "over" => "temporary" \in disk'[p]
                /\ "originals" \in disk[p] \/ "trash" \in disk[p] =>
                      "originals" \in disk'[p] \/ "trash" \in disk'[p]
<1>1. client[c] \in Client
  BY DEF MoveFile, InStep, TypeOK
<1>2. client'[c] = [client[c] EXCEPT !.at = "commit"]
  BY <1>1 DEF MoveFile, InStep, TypeOK
<1>3. ASSUME NEW p \in Jobs
      PROVE  /\ disk[p] # {} => disk'[p] # {}
             /\ "temporary" \in disk[p] /\ pc[p] # "over" => "temporary" \in disk'[p]
             /\ "originals" \in disk[p] \/ "trash" \in disk[p] =>
                   "originals" \in disk'[p] \/ "trash" \in disk'[p]
  <2>1. CASE MovesFile(c) /\ p = client[c].paper
    <3>1. disk'[p] = (disk[p] \ {client[c].seen.place}) \union {Target(c)}
      BY <2>1 DEF MoveFile, Moved, InStep, TypeOK
    <3>2. Target(c) \in {"originals", "trash"}
      BY DEF Target
    <3>3. client[c].seen.place = "temporary" => pc[p] = "over"
      BY <2>1 DEF InStep, RequestInStep, MoveFile
    <3> QED
      BY <3>1, <3>2, <3>3
  <2>2. CASE ~(MovesFile(c) /\ p = client[c].paper)
    BY <2>2 DEF MoveFile, Moved, InStep, TypeOK
  <2> QED
    BY <2>1, <2>2
<1> QED
  BY <1>1, <1>2, <1>3, RequestGoesOn DEF Client, ClientPc

\* A request that has read the file row works on the same paper, and has seen the
\* place the row names.
LEMMA ReadKeepsRequest ==
    ASSUME InStep, NEW c \in Clients, ReadFiles(c), client'[c] # None
    PROVE  /\ client[c] \in Client
           /\ client'[c].paper = client[c].paper
           /\ client'[c].seen.place = row[client[c].paper].place
<1>1. client[c] \in Client
  BY DEF ReadFiles, InStep, TypeOK
<1>2. client[c].seen \in Row
  BY <1>1 DEF Client
<1> DEFINE saw == [client[c].seen EXCEPT !.place = row[client[c].paper].place,
                                          !.fileStamped = row[client[c].paper].fileStamped]
<1>3. client'[c] = [client[c] EXCEPT !.at = "move", !.seen = saw]
  BY <1>1 DEF ReadFiles, Leave, InStep, TypeOK
<1>4. saw.place = row[client[c].paper].place
  BY <1>2 DEF Row
<1> QED
  BY <1>1, <1>3, <1>4 DEF Client

\* Every step keeps imports and requests in step with rows and disk.
LEMMA LinkedPreserved == InStep /\ TypeOK' /\ [Next]_vars => Linked'
<1> SUFFICES ASSUME InStep, TypeOK', [Next]_vars
             PROVE  Linked'
  OBVIOUS
<1> USE NoneAssumption
    DEF InStep, Linked, TypeOK, ImportInStep, RequestInStep, NoBytesLost, OneHolder, Row, Client,
        Places, vars, importVars, historyVars, Stored, Fail, CleanUp, Holders, Moved,
        NewRow, Overlap, Leave, Release
<1>1. ASSUME NEW j \in Jobs, CreateJob(j)
      PROVE  Linked'
  BY <1>1 DEF CreateJob
<1>2. ASSUME NEW j \in Jobs, CopyToTemporary(j)
      PROVE  Linked'
  BY <1>2 DEF CopyToTemporary
<1>3. ASSUME NEW j \in Jobs, ComputeSha256(j)
      PROVE  Linked'
  BY <1>3 DEF ComputeSha256
<1>4. ASSUME NEW j \in Jobs, RejectDuplicate(j)
      PROVE  Linked'
  BY <1>4 DEF RejectDuplicate
<1>5. ASSUME NEW j \in Jobs, NoDuplicate(j)
      PROVE  Linked'
  BY <1>5 DEF NoDuplicate
<1>6. ASSUME NEW j \in Jobs, DuplicateCheckFails(j)
      PROVE  Linked'
  BY <1>6 DEF DuplicateCheckFails
<1>7. ASSUME NEW j \in Jobs, CommitPaper(j)
      PROVE  Linked'
  <2>1. ASSUME NEW k \in Jobs PROVE ImportInStep(k)'
    <3>1. CASE k = j
      <4>1. row'[j] = NewRow /\ NewRow # None /\ NewRow.place = "originals"
        BY <1>7, CommittedRow DEF CommitPaper
      <4>2. link'[j] = j /\ pc'[j] = "move" /\ disk'[j] = disk[j] /\ job'[j] = job[j]
        BY <1>7 DEF CommitPaper
      <4>3. "temporary" \in disk[j] /\ job[j] \notin {"accepted", "rejected"}
        BY <1>7 DEF CommitPaper
      <4> QED
        BY <3>1, <4>1, <4>2, <4>3
    <3>2. CASE k # j
      BY <1>7, <3>2 DEF CommitPaper
    <3> QED
      BY <3>1, <3>2
  <2>2. ASSUME NEW d \in Clients PROVE RequestInStep(d)'
    BY <1>7 DEF CommitPaper
  <2>3. NoBytesLost'
    BY <1>7 DEF CommitPaper
  <2>4. OneHolder'
    BY <1>7 DEF CommitPaper
  <2> QED
    BY <2>1, <2>2, <2>3, <2>4
<1>8. ASSUME NEW j \in Jobs, CommitPaperFails(j)
      PROVE  Linked'
  BY <1>8 DEF CommitPaperFails
<1>9. ASSUME NEW j \in Jobs, MoveToOriginals(j)
      PROVE  Linked'
  <2>1. ASSUME NEW k \in Jobs PROVE ImportInStep(k)'
    BY <1>9 DEF MoveToOriginals
  <2>2. ASSUME NEW d \in Clients PROVE RequestInStep(d)'
    BY <1>9 DEF MoveToOriginals
  <2>3. NoBytesLost'
    <3>1. \A k \in Jobs : disk'[k] = disk[k] \/ "originals" \in disk'[k]
      BY <1>9 DEF MoveToOriginals
    <3> QED
      BY <1>9, <3>1 DEF MoveToOriginals
  <2>4. OneHolder'
    BY <1>9 DEF MoveToOriginals
  <2> QED
    BY <2>1, <2>2, <2>3, <2>4
<1>10. ASSUME NEW j \in Jobs, MoveFails(j)
      PROVE  Linked'
  BY <1>10 DEF MoveFails
<1>11. ASSUME NEW j \in Jobs, MoveNotReached(j)
      PROVE  Linked'
  BY <1>11 DEF MoveNotReached
<1>12. ASSUME NEW j \in Jobs, ReconcileMove(j)
      PROVE  Linked'
  BY <1>12 DEF ReconcileMove
<1>13. ASSUME NEW j \in Jobs, ReconcileMoveFails(j)
      PROVE  Linked'
  BY <1>13 DEF ReconcileMoveFails
<1>14. ASSUME NEW j \in Jobs, FinishImport(j)
      PROVE  Linked'
  BY <1>14 DEF FinishImport
<1>15. ASSUME NEW j \in Jobs, ImportStops(j)
      PROVE  Linked'
  BY <1>15 DEF ImportStops
<1>16. ASSUME NEW c \in Clients, NEW p \in Jobs, BeginDelete(c, p)
      PROVE  Linked'
  BY <1>16 DEF BeginDelete
<1>17. ASSUME NEW c \in Clients, NEW p \in Jobs, BeginRestore(c, p)
      PROVE  Linked'
  BY <1>17 DEF BeginRestore
<1>18. ASSUME NEW c \in Clients, ReadFiles(c)
      PROVE  Linked'
  <2>1. ASSUME NEW k \in Jobs PROVE ImportInStep(k)'
    BY <1>18 DEF ReadFiles
  <2>2. ASSUME NEW d \in Clients PROVE RequestInStep(d)'
    <3>1. CASE d = c
      <4> SUFFICES ASSUME client'[c] # None
                   PROVE  RequestInStep(c)'
        BY <3>1
      <4>1. /\ client[c] # None
            /\ client[c].paper \in Jobs
            /\ client'[c].paper = client[c].paper
            /\ client'[c].seen.place = row[client[c].paper].place
        BY <1>18, ReadKeepsRequest DEF ReadFiles
      <4>2. pc' = pc /\ row' = row
        BY <1>18 DEF ReadFiles
      <4> QED
        BY <4>1, <4>2
    <3>2. CASE d # c
      BY <1>18, <3>2 DEF ReadFiles
    <3> QED
      BY <3>1, <3>2
  <2>3. NoBytesLost'
    BY <1>18 DEF ReadFiles
  <2>4. OneHolder'
    BY <1>18 DEF ReadFiles
  <2> QED
    BY <2>1, <2>2, <2>3, <2>4
<1>19. ASSUME NEW c \in Clients, MoveFile(c)
      PROVE  Linked'
  <2>1. ASSUME NEW k \in Jobs PROVE ImportInStep(k)'
    BY <1>19, MoveKeepsCopy DEF MoveFile
  <2>2. ASSUME NEW d \in Clients PROVE RequestInStep(d)'
    BY <1>19, MoveKeepsCopy DEF MoveFile
  <2>3. NoBytesLost'
    BY <1>19, MoveKeepsCopy DEF MoveFile
  <2>4. OneHolder'
    BY <1>19 DEF MoveFile
  <2> QED
    BY <2>1, <2>2, <2>3, <2>4
<1>20. ASSUME NEW c \in Clients, MoveFileFails(c)
      PROVE  Linked'
  BY <1>20 DEF MoveFileFails
<1>21. ASSUME NEW c \in Clients, CommitChange(c)
      PROVE  Linked'
  <2> DEFINE p == client[c].paper
  <2>1. ASSUME NEW k \in Jobs PROVE ImportInStep(k)'
    <3>1. pc' = pc /\ disk' = disk /\ job' = job /\ link' = link
      BY <1>21 DEF CommitChange
    <3>2. CASE k = p
      <4>1. row[p] # None /\ row'[p] # None /\ (row'[p].place = "temporary" => pc[p] = "over")
        BY <1>21, CommitKeepsRow
      <4> QED
        BY <3>1, <3>2, <4>1
    <3>3. CASE k # p
      <4>1. row'[k] = row[k]
        BY <1>21, <3>3, CommitKeepsRow
      <4> QED
        BY <3>1, <4>1
    <3> QED
      BY <3>2, <3>3
  <2>2. ASSUME NEW d \in Clients PROVE RequestInStep(d)'
    <3>1. pc' = pc /\ (client'[d] = client[d] \/ client'[d] = None)
      BY <1>21 DEF CommitChange
    <3>2. \A k \in Jobs : row[k] # None => row'[k] # None
      BY <1>21, CommitKeepsRow
    <3>3. client[d] # None => client[d].paper \in Jobs
      OBVIOUS
    <3> QED
      BY <3>1, <3>2, <3>3
  <2>3. NoBytesLost'
    BY <1>21, CommitKeepsRow DEF CommitChange
  <2>4. OneHolder'
    <3>1. sha' = sha /\ job' = job /\ link' = link
      BY <1>21 DEF CommitChange
    <3>2. \A k \in Jobs : row[k] # None <=> row'[k] # None
      BY <1>21, CommitKeepsRow
    <3> QED
      BY <3>1, <3>2
  <2> QED
    BY <2>1, <2>2, <2>3, <2>4
<1>22. ASSUME NEW c \in Clients, CommitChangeFails(c)
      PROVE  Linked'
  BY <1>22 DEF CommitChangeFails
<1>23. ASSUME UNCHANGED vars
      PROVE  Linked'
  BY <1>23
<1> QED
  BY <1>1, <1>2, <1>3, <1>4, <1>5, <1>6, <1>7, <1>8, <1>9, <1>10, <1>11, <1>12, <1>13, <1>14, <1>15, <1>16, <1>17, <1>18, <1>19, <1>20, <1>21, <1>22, <1>23
  DEF Next, Import, Request

\* The inductive invariant: where every import and every request stands tells what the
\* rows and the disk hold.
THEOREM StoreInvariant == Spec => []InStep
<1>1. Init => InStep
  BY DEF Init, InStep, TypeOK, ImportPc, JobStatus, ImportInStep, RequestInStep,
         NoBytesLost, OneHolder, Stored
<1>2. InStep /\ TypeOK' /\ Linked' => InStep'
  BY DEF InStep, Linked
<1> QED
  BY <1>1, <1>2, TypePreserved, LinkedPreserved, PTL DEF Spec

\* Every field keeps its type, for any number of uploads and requests.
THEOREM StoreTypeCorrect == Spec => []TypeOK
<1>1. InStep => TypeOK
  BY DEF InStep
<1> QED
  BY <1>1, StoreInvariant, PTL

\* No import, delete or restore loses the last copy of a stored paper, whatever fails.
THEOREM BytesKept == Spec => []NoBytesLost
<1>1. InStep => NoBytesLost
  BY DEF InStep
<1> QED
  BY <1>1, StoreInvariant, PTL

\* Racing imports of the same bytes leave one paper, and both name it.
THEOREM HolderUnique == Spec => []OneHolder
<1>1. InStep => OneHolder
  BY DEF InStep
<1> QED
  BY <1>1, StoreInvariant, PTL
-----------------------------------------------------------------------------
(* The rows, the file and the requests tell one story.                     *)

OnPaper(c, p) == client[c] # None /\ client[c].paper = p

\* Until the import has moved the file there is one copy, the row is new, and
\* requests get no further than the look for the file.
BeforeMove(p) ==
    /\ pc[p] \in {"new", "copy"} => disk[p] = {}
    /\ pc[p] \in {"hash", "duplicate_check", "write", "move", "reconcile"} =>
          disk[p] = {"temporary"}
    /\ pc[p] \in {"move", "reconcile"} => row[p] = NewRow
    /\ pc[p] \notin {"finish", "over"} =>
          /\ p \notin overlapped
          /\ \A c \in Clients : OnPaper(c, p) =>
                client[c].at = "files" /\ client[c].op = "delete"

WholeRow(p) ==
    Stored(p) =>
        /\ row[p].stamped <=> row[p].status = "deleted"
        /\ row[p].fileStamped <=> row[p].status = "deleted"
        /\ row[p].place = "trash" <=> row[p].status = "deleted"

\* A delete that meets no restore has seen the row as it is.
DeleteSees(c, p) ==
    client[c].op = "delete" =>
        /\ \A d \in Clients : OnPaper(d, p) => client[d].op = "delete"
        /\ client[c].seen.status = row[p].status
        /\ client[c].seen.stamped = row[p].stamped
        /\ client[c].seen.fileStamped = row[p].fileStamped
        /\ client[c].at # "files" => client[c].seen.place = row[p].place

\* A restore has seen the paper deleted, and its file before or after another
\* restore.
RestoreSees(c, p) ==
    client[c].op = "restore" =>
        /\ client[c].seen.status = "deleted"
        /\ client[c].seen.stamped = TRUE
        /\ client[c].at # "files" =>
              /\ client[c].seen.fileStamped <=> client[c].seen.place = "trash"
              /\ client[c].seen.place # "trash" => row[p].status = "active"
              /\ client[c].seen.place = "trash" => row[p].place \in {"trash", "originals"}

\* The file was moved, and the row is about to follow.
InTransit(c, p) == OnPaper(c, p) /\ client[c].at = "commit" /\ MovesFile(c)

FileInPlace(p) ==
    Stored(p) /\ pc[p] \notin {"move", "reconcile"} =>
        /\ ~({"originals", "trash"} \subseteq disk[p])
        /\ row[p].place = "temporary" => "originals" \notin disk[p]
        /\ (\A c \in Clients : ~InTransit(c, p)) => row[p].place \in disk[p]
        /\ \A c \in Clients : InTransit(c, p) =>
              /\ Target(c) \in disk[p]
              /\ client[c].op = "restore" => "trash" \notin disk[p] /\ row[p].place = "trash"
              /\ \A d \in Clients : InTransit(d, p) => d = c

Story(p) ==
    /\ BeforeMove(p)
    /\ p \notin overlapped =>
          /\ WholeRow(p)
          /\ \A c \in Clients : OnPaper(c, p) => DeleteSees(c, p) /\ RestoreSees(c, p)
          /\ p \notin torn => FileInPlace(p)

DeleteLocks == \A c \in Clients : client[c] # None /\ client[c].op = "delete" => lock = c

\* The inductive invariant of what the rows say.
InStory == InStep /\ DeleteLocks /\ \A p \in Jobs : Story(p)

-----------------------------------------------------------------------------
(* Every step keeps the story.                                             *)

\* Every step keeps imports and requests in step.
LEMMA InStepPreserved == InStep /\ [Next]_vars => InStep'
BY TypePreserved, LinkedPreserved DEF InStep, Linked

\* A paper whose row stays as it is, whose file stays or loses the temporary copy of
\* an import, and whose requests stay or leave.
LEMMA SameStory ==
    ASSUME NEW p \in Jobs, Story(p), BeforeMove(p)', row'[p] = row[p],
           \/ disk'[p] = disk[p]
           \/ disk'[p] = disk[p] \ {"temporary"} /\ (Stored(p) => row[p].place # "temporary"),
           p \in overlapped' <=> p \in overlapped, torn \subseteq torn',
           \A c \in Clients : OnPaper(c, p)' => client'[c] = client[c],
           p \in torn' \/ \A c \in Clients : InTransit(c, p) => client'[c] = client[c],
           \/ p \in torn' \/ ~Stored(p)
           \/ pc'[p] \in {"move", "reconcile"} \/ pc[p] \notin {"move", "reconcile"}
    PROVE  Story(p)'
<1>1. ASSUME NEW c \in Clients, OnPaper(c, p)'
      PROVE  OnPaper(c, p) /\ client'[c] = client[c]
  BY <1>1 DEF OnPaper
<1> SUFFICES ASSUME p \notin overlapped'
             PROVE  /\ WholeRow(p)'
                    /\ \A c \in Clients : OnPaper(c, p)' => DeleteSees(c, p)' /\ RestoreSees(c, p)'
                    /\ p \notin torn' => FileInPlace(p)'
  BY DEF Story
<1>2. WholeRow(p)'
  BY DEF Story, WholeRow, Stored
<1>3. ASSUME NEW c \in Clients, OnPaper(c, p)'
      PROVE  DeleteSees(c, p)' /\ RestoreSees(c, p)'
  <2>1. client'[c] = client[c] /\ DeleteSees(c, p) /\ RestoreSees(c, p)
    BY <1>1, <1>3 DEF Story
  <2>2. client[c].op = "delete" =>
           \A d \in Clients : OnPaper(d, p)' => client'[d].op = "delete"
    BY <1>1, <2>1 DEF DeleteSees
  <2> QED
    BY <2>1, <2>2 DEF DeleteSees, RestoreSees
<1>4. ASSUME p \notin torn'
      PROVE  FileInPlace(p)'
  <2> SUFFICES ASSUME Stored(p)', pc'[p] \notin {"move", "reconcile"}
               PROVE  /\ ~({"originals", "trash"} \subseteq disk'[p])
                      /\ row'[p].place = "temporary" => "originals" \notin disk'[p]
                      /\ (\A c \in Clients : ~InTransit(c, p)') => row'[p].place \in disk'[p]
                      /\ \A c \in Clients : InTransit(c, p)' =>
                            /\ Target(c)' \in disk'[p]
                            /\ client'[c].op = "restore" =>
                                  "trash" \notin disk'[p] /\ row'[p].place = "trash"
                            /\ \A d \in Clients : InTransit(d, p)' => d = c
    BY DEF FileInPlace
  <2>1. FileInPlace(p) /\ Stored(p) /\ pc[p] \notin {"move", "reconcile"}
    BY <1>4 DEF Story, Stored
  <2>2. \A c \in Clients : InTransit(c, p)' <=> InTransit(c, p)
    BY <1>1, <1>4 DEF InTransit, MovesFile, Selects, OnPaper
  <2>3. \A c \in Clients : InTransit(c, p) =>
           Target(c)' = Target(c) /\ client'[c] = client[c] /\ Target(c) # "temporary"
    BY <1>4 DEF Target
  <2> QED
    BY <2>1, <2>2, <2>3 DEF FileInPlace, Stored
<1> QED
  BY <1>2, <1>3, <1>4

\* What the import of j does before and after the commit and the move changes nothing
\* the rows tell.
LEMMA ImportKeepsStory ==
    ASSUME InStory, NEW j \in Jobs,
           \/ CreateJob(j) \/ CopyToTemporary(j) \/ ComputeSha256(j)
           \/ RejectDuplicate(j) \/ NoDuplicate(j) \/ DuplicateCheckFails(j)
           \/ CommitPaperFails(j) \/ MoveFails(j) \/ MoveNotReached(j)
           \/ ReconcileMoveFails(j) \/ FinishImport(j) \/ ImportStops(j)
    PROVE  DeleteLocks' /\ \A p \in Jobs : Story(p)'
<1> USE DEF InStory, InStep
<1>1. UNCHANGED <<row, client, lock, overlapped>> /\ torn \subseteq torn'
  BY DEF CreateJob, CopyToTemporary, ComputeSha256, RejectDuplicate, NoDuplicate,
         DuplicateCheckFails, CommitPaperFails, MoveFails, MoveNotReached,
         ReconcileMoveFails, FinishImport, ImportStops, historyVars
<1>2. DeleteLocks'
  BY <1>1 DEF DeleteLocks
<1>3. ASSUME NEW p \in Jobs
      PROVE  Story(p)'
  <2>1. CASE p # j
    <3>1. pc'[p] = pc[p] /\ disk'[p] = disk[p]
      BY <2>1 DEF TypeOK, CreateJob, CopyToTemporary, ComputeSha256, RejectDuplicate,
             NoDuplicate, DuplicateCheckFails, CommitPaperFails, MoveFails, MoveNotReached,
             ReconcileMoveFails, FinishImport, ImportStops, Fail, CleanUp
    <3>2. BeforeMove(p)'
      BY <1>1, <3>1 DEF Story, BeforeMove, OnPaper
    <3> QED
      BY <1>1, <3>1, <3>2, SameStory DEF Story, OnPaper
  <2>2. CASE p = j
    <3>1. BeforeMove(j) /\ ImportInStep(j)
      BY DEF Story
    <3>2. \/ disk'[j] = disk[j]
          \/ /\ disk'[j] = disk[j] \ {"temporary"} /\ pc'[j] = "over"
             /\ pc[j] \in {"duplicate_check", "write", "finish"}
          \/ /\ disk'[j] = disk[j] \union {"temporary"} /\ pc[j] = "copy" /\ pc'[j] = "hash"
      BY DEF TypeOK, CreateJob, CopyToTemporary, ComputeSha256, RejectDuplicate,
             NoDuplicate, DuplicateCheckFails, CommitPaperFails, MoveFails, MoveNotReached,
             ReconcileMoveFails, FinishImport, ImportStops, Fail, CleanUp
    <3>3. /\ pc'[j] \in {"copy", "hash", "duplicate_check", "write", "reconcile", "over"}
          /\ pc'[j] = "copy" => pc[j] = "new"
          /\ pc'[j] = "hash" => pc[j] = "copy" /\ disk'[j] = disk[j] \union {"temporary"}
          /\ pc'[j] = "duplicate_check" => pc[j] = "hash"
          /\ pc'[j] = "write" => pc[j] = "duplicate_check"
          /\ pc'[j] = "reconcile" => pc[j] = "move"
          /\ pc'[j] = "over" /\ pc[j] \in {"move", "reconcile"} => j \in torn'
          /\ pc[j] # "over"
          /\ pc'[j] \in {"copy", "duplicate_check", "write", "reconcile"} => disk'[j] = disk[j]
      BY DEF TypeOK, CreateJob, CopyToTemporary, ComputeSha256, RejectDuplicate,
             NoDuplicate, DuplicateCheckFails, CommitPaperFails, MoveFails, MoveNotReached,
             ReconcileMoveFails, FinishImport, ImportStops, Fail, historyVars
    <3>4. BeforeMove(j)'
      BY <1>1, <3>1, <3>3 DEF BeforeMove, OnPaper
    <3>5. CASE Stored(j)
      <4>1. pc[j] \in {"move", "reconcile", "finish", "over"}
        BY <3>1, <3>5 DEF ImportInStep
      <4>2. \/ disk'[j] = disk[j]
            \/ disk'[j] = disk[j] \ {"temporary"} /\ row[j].place # "temporary"
        BY <3>1, <3>2, <3>5, <4>1 DEF ImportInStep
      <4> QED
        BY <1>1, <2>2, <3>3, <3>4, <4>1, <4>2, SameStory DEF OnPaper
    <3>6. CASE ~Stored(j)
      <4>1. \A c \in Clients : ~OnPaper(c, j)
        BY <3>6 DEF RequestInStep, OnPaper
      <4> QED
        BY <1>1, <2>2, <3>4, <3>6, <4>1 DEF Story, WholeRow, FileInPlace, Stored, OnPaper
    <3> QED
      BY <3>5, <3>6
  <2> QED
    BY <2>1, <2>2
<1> QED
  BY <1>2, <1>3

\* The commit, the move and the reconciliation of an import.
LEMMA CommitAndMoveKeepStory ==
    ASSUME InStory, NEW j \in Jobs,
           CommitPaper(j) \/ MoveToOriginals(j) \/ ReconcileMove(j)
    PROVE  DeleteLocks' /\ \A p \in Jobs : Story(p)'
<1> USE DEF InStory, InStep
<1>1. UNCHANGED <<client, lock, overlapped, torn>>
  BY DEF CommitPaper, MoveToOriginals, ReconcileMove, historyVars
<1>2. DeleteLocks'
  BY <1>1 DEF DeleteLocks
<1>3. BeforeMove(j) /\ ImportInStep(j) /\ pc[j] \in {"write", "move", "reconcile"}
  BY DEF Story, CommitPaper, MoveToOriginals, ReconcileMove
<1>4. \A c \in Clients : OnPaper(c, j) => client[c].at = "files" /\ client[c].op = "delete"
  BY <1>3 DEF BeforeMove
<1>5. \A c \in Clients : ~InTransit(c, j)'
  BY <1>1, <1>4 DEF InTransit, OnPaper
<1>6. NewRow \in Row /\ NewRow # None
  <2>1. NewRow \in Row
    BY DEF NewRow, Row, Places
  <2> QED
    BY <2>1, NoneAssumption
<1>7. ASSUME NEW p \in Jobs, p # j
      PROVE  Story(p)'
  <2>1. pc'[p] = pc[p] /\ disk'[p] = disk[p] /\ row'[p] = row[p]
    BY <1>7 DEF TypeOK, CommitPaper, MoveToOriginals, ReconcileMove, Fail, Moved
  <2>2. BeforeMove(p)'
    BY <1>1, <2>1 DEF Story, BeforeMove, OnPaper
  <2> QED
    BY <1>1, <2>1, <2>2, SameStory DEF Story, OnPaper
<1>8. ASSUME CommitPaper(j)
      PROVE  Story(j)'
  <2>1. /\ row'[j] = NewRow /\ pc'[j] = "move" /\ disk'[j] = disk[j]
        /\ disk[j] = {"temporary"} /\ ~Stored(j)
    BY <1>3, <1>8 DEF TypeOK, CommitPaper, BeforeMove, ImportInStep
  <2>2. \A c \in Clients : ~OnPaper(c, j)'
    BY <1>1, <2>1 DEF RequestInStep, OnPaper
  <2>3. BeforeMove(j)'
    BY <1>1, <1>3, <1>8, <2>1, <2>2 DEF BeforeMove, CommitPaper
  <2> QED
    BY <2>1, <2>2, <2>3 DEF Story, WholeRow, FileInPlace, NewRow
<1>9. ASSUME MoveToOriginals(j)
      PROVE  Story(j)'
  <2>1. /\ row'[j] = NewRow /\ row[j] = NewRow /\ pc'[j] = "finish" /\ disk'[j] = {"originals"}
        /\ j \notin overlapped
    BY <1>3, <1>9 DEF TypeOK, MoveToOriginals, BeforeMove, Moved
  <2>2. BeforeMove(j)'
    BY <2>1 DEF BeforeMove
  <2>3. FileInPlace(j)'
    BY <1>5, <2>1 DEF FileInPlace, NewRow
  <2>4. \A c \in Clients : OnPaper(c, j) => DeleteSees(c, j) /\ RestoreSees(c, j)
    BY <2>1 DEF Story
  <2>5. WholeRow(j)' /\ \A c \in Clients : OnPaper(c, j)' => DeleteSees(c, j)' /\ RestoreSees(c, j)'
    <3>1. /\ row'[j].status = "active" /\ row'[j].stamped = FALSE
          /\ row'[j].fileStamped = FALSE /\ row'[j].place = "originals"
      BY <2>1 DEF NewRow
    <3>2. row'[j] = row[j]
      BY <2>1
    <3> QED
      BY <1>1, <1>4, <2>4, <3>1, <3>2 DEF WholeRow, DeleteSees, RestoreSees, OnPaper
  <2> QED
    BY <2>2, <2>3, <2>5 DEF Story
<1>10. ASSUME ReconcileMove(j)
      PROVE  Story(j)'
  <2>1. /\ row[j] = NewRow /\ row'[j] = [NewRow EXCEPT !.place = "temporary"]
        /\ pc'[j] = "over" /\ disk'[j] = {"temporary"}
        /\ j \notin overlapped
    BY <1>3, <1>10 DEF TypeOK, ReconcileMove, BeforeMove, Fail
  <2>2. /\ row'[j].status = "active" /\ row'[j].stamped = FALSE /\ row'[j].fileStamped = FALSE
        /\ row'[j].place = "temporary"
        /\ row[j].status = "active" /\ row[j].stamped = FALSE /\ row[j].fileStamped = FALSE
    BY <2>1 DEF NewRow
  <2>3. BeforeMove(j)'
    BY <2>1 DEF BeforeMove
  <2>4. FileInPlace(j)'
    BY <1>5, <2>1, <2>2 DEF FileInPlace
  <2>5. \A c \in Clients : OnPaper(c, j) => DeleteSees(c, j) /\ RestoreSees(c, j)
    BY <2>1 DEF Story
  <2>6. WholeRow(j)' /\ \A c \in Clients : OnPaper(c, j)' => DeleteSees(c, j)' /\ RestoreSees(c, j)'
    BY <1>1, <1>4, <2>2, <2>5 DEF WholeRow, DeleteSees, RestoreSees, OnPaper
  <2> QED
    BY <2>3, <2>4, <2>6 DEF Story
<1> QED
  BY <1>2, <1>7, <1>8, <1>9, <1>10

\* A request that ends releases the lock if it holds it.
LEMMA LeavingUnlocks ==
    ASSUME DeleteLocks, NEW c \in Clients, Leave(c), TypeOK
    PROVE  DeleteLocks'
BY NoneAssumption DEF DeleteLocks, Leave, Release, TypeOK

\* Other papers than that of a request.
LEMMA OtherPapers ==
    ASSUME InStory, NEW p \in Jobs, NEW c \in Clients,
           UNCHANGED pc, row'[p] = row[p], disk'[p] = disk[p],
           p \in overlapped' <=> p \in overlapped, torn \subseteq torn',
           ~OnPaper(c, p), ~OnPaper(c, p)',
           \A d \in Clients \ {c} : client'[d] = client[d]
    PROVE  Story(p)'
<1>1. \A d \in Clients : OnPaper(d, p)' => OnPaper(d, p) /\ client'[d] = client[d]
  BY DEF OnPaper
<1>2. Story(p)
  BY DEF InStory
<1>3. BeforeMove(p)'
  BY <1>1, <1>2 DEF Story, BeforeMove
<1>4. \A d \in Clients : InTransit(d, p) => client'[d] = client[d]
  BY DEF InTransit
<1> QED
  BY <1>1, <1>2, <1>3, <1>4, SameStory

\* A request that ends without a commit: one whose file was moved leaves it torn.
LEMMA LeavingKeepsStory ==
    ASSUME InStory, NEW c \in Clients, client[c] # None, Leave(c),
           UNCHANGED <<pc, row, disk, overlapped>>, torn \subseteq torn',
           client[c].at = "commit" /\ MovesFile(c) => client[c].paper \in torn'
    PROVE  DeleteLocks' /\ \A p \in Jobs : Story(p)'
<1>1. TypeOK /\ DeleteLocks
  BY DEF InStory, InStep
<1>2. client'[c] = None /\ \A d \in Clients \ {c} : client'[d] = client[d]
  BY <1>1 DEF Leave, TypeOK
<1>3. ASSUME NEW p \in Jobs
      PROVE  Story(p)'
  <2>1. \A d \in Clients : OnPaper(d, p)' => OnPaper(d, p) /\ client'[d] = client[d]
    BY <1>2 DEF OnPaper
  <2>2. Story(p)
    BY DEF InStory
  <2>3. BeforeMove(p)'
    BY <2>1, <2>2 DEF Story, BeforeMove
  <2>4. p \in torn' \/ \A d \in Clients : InTransit(d, p) => client'[d] = client[d]
    BY <1>2 DEF InTransit, OnPaper
  <2> QED
    BY <2>1, <2>2, <2>3, <2>4, SameStory
<1> QED
  BY <1>1, <1>3, LeavingUnlocks

\* A delete begins: it is the only one, and no restore is under way or the paper is
\* marked.
LEMMA BeginDeleteKeepsStory ==
    ASSUME InStory, NEW c \in Clients, NEW q \in Jobs, BeginDelete(c, q)
    PROVE  DeleteLocks' /\ \A p \in Jobs : Story(p)'
<1> USE DEF InStory, InStep
<1> DEFINE new == [op |-> "delete", paper |-> q, at |-> "files", seen |-> row[q]]
<1>1. /\ client[c] = None /\ lock = None /\ Stored(q)
      /\ client'[c] = new /\ \A d \in Clients \ {c} : client'[d] = client[d]
      /\ new # None /\ lock' = c
      /\ UNCHANGED <<pc, row, disk, torn>>
  <2>1. new \in Client
    BY DEF BeginDelete, Stored, TypeOK, Client, ClientPc
  <2>2. new # None
    BY <2>1, NoneAssumption
  <2> QED
    BY <2>2 DEF BeginDelete, TypeOK, importVars
<1>2. \A d \in Clients : client[d] # None => client[d].op = "restore"
  <2>1. \A d \in Clients : client[d] # None => client[d] \in Client
    BY DEF TypeOK
  <2> QED
    BY <1>1, <2>1, NoneAssumption DEF DeleteLocks, Client
<1>3. DeleteLocks'
  BY <1>1, <1>2 DEF DeleteLocks
<1>4. ASSUME NEW p \in Jobs
      PROVE  Story(p)'
  <2>1. CASE p # q
    <3>1. p \in overlapped' <=> p \in overlapped
      BY <2>1 DEF BeginDelete, Overlap
    <3>2. ~OnPaper(c, p) /\ ~OnPaper(c, p)'
      BY <1>1, <2>1 DEF OnPaper
    <3> QED
      BY <1>1, <3>1, <3>2, OtherPapers
  <2>2. Story(q)'
    <3>1. Story(q) /\ ImportInStep(q)
      OBVIOUS
    <3>2. q \notin overlapped' =>
             q \notin overlapped /\ \A d \in Clients : ~OnPaper(d, q)
      BY <1>2 DEF BeginDelete, Overlap, Working, OnPaper
    <3>3. q \in overlapped' => q \in overlapped \/ \E d \in Clients : OnPaper(d, q)
      BY DEF BeginDelete, Overlap, Working, OnPaper
    <3>4. BeforeMove(q)'
      BY <1>1, <1>2, <3>1, <3>3 DEF Story, BeforeMove, OnPaper
    <3>5. CASE q \notin overlapped'
      <4>1. WholeRow(q)'
        BY <1>1, <3>1, <3>2, <3>5 DEF Story, WholeRow, Stored
      <4>2. \A d \in Clients : OnPaper(d, q)' => d = c
        BY <1>1, <3>2, <3>5 DEF OnPaper
      <4>3. DeleteSees(c, q)' /\ RestoreSees(c, q)'
        BY <1>1, <4>2 DEF DeleteSees, RestoreSees
      <4>4. \A d \in Clients : ~InTransit(d, q)' /\ ~InTransit(d, q)
        BY <1>1, <3>2, <3>5, <4>2 DEF InTransit
      <4>5. q \notin torn' => FileInPlace(q)'
        BY <1>1, <3>1, <3>2, <3>5, <4>4 DEF Story, FileInPlace, Stored
      <4> QED
        BY <3>4, <4>1, <4>2, <4>3, <4>5 DEF Story
    <3>6. CASE q \in overlapped'
      BY <3>4, <3>6 DEF Story
    <3> QED
      BY <3>5, <3>6
  <2> QED
    BY <2>1, <2>2
<1> QED
  BY <1>3, <1>4

\* A restore begins: no delete is under way or the paper is marked.
LEMMA BeginRestoreKeepsStory ==
    ASSUME InStory, NEW c \in Clients, NEW q \in Jobs, BeginRestore(c, q)
    PROVE  DeleteLocks' /\ \A p \in Jobs : Story(p)'
<1> USE DEF InStory, InStep
<1> DEFINE new == [op |-> "restore", paper |-> q, at |-> "files", seen |-> row[q]]
<1>1. /\ client[c] = None /\ Stored(q) /\ row[q].status = "deleted"
      /\ client'[c] = new /\ \A d \in Clients \ {c} : client'[d] = client[d]
      /\ new # None
      /\ UNCHANGED <<pc, row, disk, torn, lock>>
  <2>1. new \in Client
    BY DEF BeginRestore, Stored, TypeOK, Client, ClientPc
  <2>2. new # None
    BY <2>1, NoneAssumption
  <2> QED
    BY <2>2 DEF BeginRestore, TypeOK, importVars
<1>2. DeleteLocks'
  BY <1>1 DEF DeleteLocks
<1>3. ASSUME NEW p \in Jobs
      PROVE  Story(p)'
  <2>1. CASE p # q
    <3>1. p \in overlapped' <=> p \in overlapped
      BY <2>1 DEF BeginRestore, Overlap
    <3>2. ~OnPaper(c, p) /\ ~OnPaper(c, p)'
      BY <1>1, <2>1 DEF OnPaper
    <3> QED
      BY <1>1, <3>1, <3>2, OtherPapers
  <2>2. Story(q)'
    <3>1. Story(q) /\ ImportInStep(q)
      OBVIOUS
    <3>2. pc[q] \in {"finish", "over"}
      BY <1>1, <3>1 DEF ImportInStep, Story, BeforeMove, NewRow
    <3>3. BeforeMove(q)'
      BY <1>1, <3>2 DEF BeforeMove
    <3>4. CASE q \notin overlapped'
      <4>1. /\ q \notin overlapped
            /\ \A d \in Clients : OnPaper(d, q) => client[d].op # "delete"
        BY <3>4 DEF BeginRestore, Overlap, Working, OnPaper
      <4>2. WholeRow(q)' /\ WholeRow(q)
        BY <1>1, <3>1, <4>1 DEF Story, WholeRow, Stored
      <4>3. row[q].stamped = TRUE
        <5>1. row[q].stamped \in BOOLEAN
          BY <1>1 DEF TypeOK, Stored, Row
        <5> QED
          BY <1>1, <4>2, <5>1 DEF WholeRow
      <4>4. ASSUME NEW d \in Clients, OnPaper(d, q)'
            PROVE  DeleteSees(d, q)' /\ RestoreSees(d, q)'
        <5>1. CASE d = c
          BY <1>1, <4>3, <5>1 DEF DeleteSees, RestoreSees
        <5>2. CASE d # c
          <6>1. OnPaper(d, q) /\ client'[d] = client[d]
            BY <1>1, <4>4, <5>2 DEF OnPaper
          <6>2. client[d].op # "delete" /\ RestoreSees(d, q)
            BY <3>1, <4>1, <6>1 DEF Story
          <6> QED
            BY <1>1, <6>1, <6>2 DEF DeleteSees, RestoreSees
        <5> QED
          BY <5>1, <5>2
      <4>5. \A d \in Clients : InTransit(d, q)' <=> InTransit(d, q)
        BY <1>1 DEF InTransit, OnPaper, MovesFile, Selects
      <4>6. \A d \in Clients : InTransit(d, q) => client'[d] = client[d] /\ Target(d)' = Target(d)
        BY <1>1 DEF InTransit, OnPaper, Target
      <4>7. q \notin torn' => FileInPlace(q)'
        BY <1>1, <3>1, <4>1, <4>5, <4>6 DEF Story, FileInPlace, Stored
      <4> QED
        BY <3>3, <4>2, <4>4, <4>7 DEF Story
    <3>5. CASE q \in overlapped'
      BY <3>3, <3>5 DEF Story
    <3> QED
      BY <3>4, <3>5
  <2> QED
    BY <2>1, <2>2
<1> QED
  BY <1>2, <1>3

\* What a request that works on a paper finds.
LEMMA RequestFinds ==
    ASSUME InStory, NEW c \in Clients, client[c] # None
    PROVE  /\ client[c] \in Client /\ client[c].paper \in Jobs
           /\ client[c].op \in {"delete", "restore"}
           /\ client[c].seen \in Row
           /\ OnPaper(c, client[c].paper)
           /\ row[client[c].paper] \in Row
           /\ Stored(client[c].paper)
           /\ Story(client[c].paper)
           /\ client[c].at # "files" => pc[client[c].paper] \in {"finish", "over"}
           /\ pc[client[c].paper] \in {"move", "reconcile", "finish", "over"}
<1>1. client[c] \in Client /\ Stored(client[c].paper)
  BY DEF InStory, InStep, TypeOK, RequestInStep
<1>2. client[c].paper \in Jobs
  BY <1>1 DEF Client
<1>3. row[client[c].paper] \in Row
  BY <1>1, <1>2 DEF InStory, InStep, TypeOK, Stored
<1>4. Story(client[c].paper) /\ pc[client[c].paper] \in {"move", "reconcile", "finish", "over"}
  BY <1>1, <1>2 DEF InStory, InStep, ImportInStep
<1>5. client[c].at # "files" => pc[client[c].paper] \in {"finish", "over"}
  BY <1>4 DEF Story, BeforeMove, OnPaper
<1> QED
  BY <1>1, <1>2, <1>3, <1>4, <1>5 DEF Client, OnPaper

\* A request looks for the file: it sees the row of the file as it is now.
LEMMA ReadFilesKeepsStory ==
    ASSUME InStory, NEW c \in Clients, ReadFiles(c)
    PROVE  DeleteLocks' /\ \A p \in Jobs : Story(p)'
<1>0. PICK q \in Jobs : q = client[c].paper
  BY RequestFinds DEF ReadFiles
<1> DEFINE saw == [client[c].seen EXCEPT !.place = row[q].place,
                                          !.fileStamped = row[q].fileStamped]
           needed == Selects(c, saw) /\ (client[c].op = "delete" \/ saw.place = "trash")
<1>1. /\ client[c] # None /\ client[c].at = "files"
      /\ UNCHANGED <<pc, row, disk, torn, overlapped>>
      /\ \/ Leave(c)
         \/ /\ ~(needed /\ saw.place \notin disk[q])
            /\ client' = [client EXCEPT ![c].at = "move", ![c].seen = saw]
            /\ UNCHANGED lock
  BY <1>0 DEF ReadFiles, importVars, historyVars
<1>2. CASE Leave(c)
  BY <1>1, <1>2, LeavingKeepsStory
<1>3. CASE /\ ~(needed /\ saw.place \notin disk[q])
           /\ client' = [client EXCEPT ![c].at = "move", ![c].seen = saw]
           /\ UNCHANGED lock
  <2>1. /\ client[c] \in Client /\ q \in Jobs
        /\ client[c].op \in {"delete", "restore"}
        /\ client[c].seen \in Row
        /\ OnPaper(c, q)
        /\ row[q] \in Row
        /\ Stored(q)
        /\ Story(q)
        /\ pc[q] \in {"move", "reconcile", "finish", "over"}
    BY <1>0, <1>1, RequestFinds
  <2>2. /\ saw \in Row
        /\ saw.place = row[q].place /\ saw.fileStamped = row[q].fileStamped
        /\ saw.status = client[c].seen.status /\ saw.stamped = client[c].seen.stamped
    BY <2>1 DEF Row
  <2> HIDE DEF saw
  <2>3. /\ client'[c] \in Client
        /\ client'[c].op = client[c].op /\ client'[c].paper = q
        /\ client'[c].at = "move" /\ client'[c].seen = saw
        /\ client'[c] # None
        /\ \A d \in Clients \ {c} : client'[d] = client[d]
    <3>1. client'[c] = [client[c] EXCEPT !.at = "move", !.seen = saw]
      BY <1>3 DEF InStory, InStep, TypeOK
    <3>2. [client[c] EXCEPT !.at = "move", !.seen = saw] \in Client
      BY <2>1, <2>2, RequestGoesOn DEF ClientPc
    <3> QED
      BY <1>0, <1>3, <2>1, <3>1, <3>2, NoneAssumption DEF Client, InStory, InStep, TypeOK
  <2>4. DeleteLocks'
    BY <1>1, <1>3, <2>3 DEF InStory, DeleteLocks
  <2>5. ASSUME NEW p \in Jobs, p # q
        PROVE  Story(p)'
    <3>1. ~OnPaper(c, p) /\ ~OnPaper(c, p)'
      BY <1>0, <2>3, <2>5 DEF OnPaper
    <3> QED
      BY <1>1, <2>3, <3>1, OtherPapers
  <2>6. Story(q)'
    <3>1. \A d \in Clients : OnPaper(d, q)' <=> OnPaper(d, q)
      BY <1>0, <1>1, <2>3 DEF OnPaper
    <3>2. pc[q] \in {"finish", "over"}
      <4>1. SUFFICES ASSUME pc[q] \in {"move", "reconcile"} PROVE FALSE
        BY <2>1
      <4>2. /\ row[q] = NewRow /\ disk[q] = {"temporary"} /\ q \notin overlapped
            /\ client[c].op = "delete"
        BY <2>1, <4>1 DEF Story, BeforeMove
      <4>3. saw.fileStamped = FALSE /\ saw.place = "originals"
        BY <2>2, <4>2 DEF NewRow
      <4> QED
        BY <1>3, <4>2, <4>3 DEF Selects
    <3>3. BeforeMove(q)'
      BY <1>1, <3>2 DEF BeforeMove
    <3>4. CASE q \notin overlapped
      <4>1. WholeRow(q) /\ WholeRow(q)'
        BY <1>1, <2>1, <3>4 DEF Story, WholeRow, Stored
      <4>2. DeleteSees(c, q) /\ RestoreSees(c, q)
        BY <2>1, <3>4 DEF Story
      <4>3. DeleteSees(c, q)'
        <5>1. client[c].op = "delete" => \A d \in Clients : OnPaper(d, q)' => client'[d].op = "delete"
          BY <2>3, <3>1, <4>2 DEF DeleteSees
        <5> QED
          BY <1>1, <2>2, <2>3, <4>2, <5>1 DEF DeleteSees
      <4>4. RestoreSees(c, q)'
        BY <1>1, <2>1, <2>2, <2>3, <4>1, <4>2 DEF RestoreSees, WholeRow, Row, Places
      <4>5. ASSUME NEW d \in Clients, d # c, OnPaper(d, q)'
            PROVE  DeleteSees(d, q)' /\ RestoreSees(d, q)'
        <5>1. client'[d] = client[d] /\ DeleteSees(d, q) /\ RestoreSees(d, q)
          BY <2>1, <2>3, <3>1, <3>4, <4>5 DEF Story
        <5>2. client[d].op = "delete" => \A b \in Clients : OnPaper(b, q)' => client'[b].op = "delete"
          BY <2>3, <3>1, <5>1 DEF DeleteSees
        <5> QED
          BY <1>1, <5>1, <5>2 DEF DeleteSees, RestoreSees
      <4>6. \A d \in Clients : InTransit(d, q)' <=> InTransit(d, q)
        BY <1>1, <2>3, <3>1 DEF InTransit, MovesFile, Selects
      <4>7. \A d \in Clients : InTransit(d, q) => client'[d] = client[d] /\ Target(d)' = Target(d)
        BY <1>1, <2>3 DEF InTransit, Target
      <4>8. q \notin torn' => FileInPlace(q)'
        BY <1>1, <2>1, <3>4, <4>6, <4>7 DEF Story, FileInPlace, Stored
      <4> QED
        BY <3>3, <4>1, <4>3, <4>4, <4>5, <4>8 DEF Story
    <3>5. CASE q \in overlapped
      BY <1>1, <3>3, <3>5 DEF Story
    <3> QED
      BY <3>4, <3>5
  <2> QED
    BY <2>4, <2>5, <2>6
<1> QED
  BY <1>1, <1>2, <1>3

\* A request moves the file: only one is on the way between a move and its commit.
LEMMA MoveFileKeepsStory ==
    ASSUME InStory, NEW c \in Clients, MoveFile(c)
    PROVE  DeleteLocks' /\ \A p \in Jobs : Story(p)'
<1>0. PICK q \in Jobs : q = client[c].paper
  BY RequestFinds DEF MoveFile
<1>1. /\ client[c] # None /\ client[c].at = "move"
      /\ client' = [client EXCEPT ![c].at = "commit"]
      /\ UNCHANGED <<pc, row, lock, torn, overlapped>>
  BY DEF MoveFile, importVars, historyVars
<1>2. /\ client[c] \in Client /\ q \in Jobs
      /\ client[c].op \in {"delete", "restore"}
      /\ client[c].seen \in Row
      /\ OnPaper(c, q)
      /\ row[q] \in Row
      /\ Stored(q)
      /\ Story(q)
      /\ pc[q] \in {"finish", "over"}
  BY <1>0, <1>1, RequestFinds
<1>3. /\ client'[c] # None
      /\ client'[c].op = client[c].op /\ client'[c].paper = q
      /\ client'[c].at = "commit" /\ client'[c].seen = client[c].seen
      /\ \A d \in Clients \ {c} : client'[d] = client[d]
  <2>1. client'[c] = [client[c] EXCEPT !.at = "commit"]
    BY <1>1 DEF InStory, InStep, TypeOK
  <2>2. [client[c] EXCEPT !.at = "commit"] \in Client
    BY <1>2, RequestGoesOn DEF ClientPc
  <2> QED
    BY <1>0, <1>1, <1>2, <2>1, <2>2, NoneAssumption DEF Client, InStory, InStep, TypeOK
<1>4. DeleteLocks'
  BY <1>1, <1>3 DEF InStory, DeleteLocks
<1>5. ASSUME NEW p \in Jobs, p # q
      PROVE  Story(p)'
  <2>1. ~OnPaper(c, p) /\ ~OnPaper(c, p)'
    BY <1>0, <1>3, <1>5 DEF OnPaper
  <2>2. disk'[p] = disk[p]
    BY <1>0, <1>5 DEF MoveFile, Moved, InStory, InStep, TypeOK
  <2> QED
    BY <1>1, <1>3, <2>1, <2>2, OtherPapers
<1>6. Story(q)'
  <2>1. BeforeMove(q)'
    BY <1>1, <1>2 DEF BeforeMove
  <2>2. CASE q \notin overlapped
    <3>1. \A d \in Clients : OnPaper(d, q)' <=> OnPaper(d, q)
      BY <1>1, <1>3 DEF OnPaper
    <3>2. \A d \in Clients : /\ client[d].op = client'[d].op
                             /\ client[d].seen = client'[d].seen
                             /\ client[d].at # "files" <=> client'[d].at # "files"
      BY <1>1, <1>3
    <3>3. WholeRow(q) /\ WholeRow(q)'
      BY <1>1, <1>2, <2>2 DEF Story, WholeRow, Stored
    <3>4. \A d \in Clients : OnPaper(d, q) => DeleteSees(d, q) /\ RestoreSees(d, q)
      BY <1>2, <2>2 DEF Story
    <3>5. \A d \in Clients : OnPaper(d, q)' => DeleteSees(d, q)' /\ RestoreSees(d, q)'
      BY <1>1, <3>1, <3>2, <3>4 DEF DeleteSees, RestoreSees
    <3>6. ASSUME q \notin torn'
          PROVE  FileInPlace(q)'
      <4>1. FileInPlace(q)
        BY <1>1, <1>2, <2>2, <3>6 DEF Story
      <4>2. \A d \in Clients : MovesFile(d)' <=> MovesFile(d)
        BY <3>2 DEF MovesFile, Selects
      <4>3. \A d \in Clients : Target(d)' = Target(d)
        BY <3>2 DEF Target
      <4>4. \A d \in Clients : InTransit(d, q)' <=> InTransit(d, q) \/ (d = c /\ MovesFile(c))
        BY <1>1, <1>2, <1>3, <3>1, <4>2 DEF InTransit
      <4>5. CASE ~MovesFile(c)
        <5>1. disk' = disk
          BY <4>5 DEF MoveFile
        <5> QED
          BY <1>1, <1>2, <3>2, <4>1, <4>3, <4>4, <4>5, <5>1 DEF FileInPlace, Stored
      <4>6. CASE MovesFile(c)
        <5>1. /\ client[c].seen.place \in disk[q]
              /\ disk'[q] = (disk[q] \ {client[c].seen.place}) \union {Target(c)}
          BY <1>0, <1>2, <4>6 DEF MoveFile, Moved, InStory, InStep, TypeOK
        <5>2. DeleteSees(c, q) /\ RestoreSees(c, q)
          BY <1>2, <3>4
        <5>3. CASE client[c].op = "delete"
          <6>1. \A d \in Clients : OnPaper(d, q) => d = c
            BY <1>2, <5>2, <5>3 DEF DeleteSees, InStory, DeleteLocks, OnPaper
          <6>2. \A d \in Clients : ~InTransit(d, q)
            BY <1>1, <6>1 DEF InTransit
          <6>3. row[q].place = client[c].seen.place /\ Target(c) = "trash"
            BY <1>1, <5>2, <5>3 DEF DeleteSees, Target
          <6>4. row[q].place # "trash"
            <7>1. ~client[c].seen.fileStamped
              BY <4>6, <5>3 DEF MovesFile, Selects
            <7>2. ~row[q].fileStamped
              BY <5>2, <5>3, <7>1 DEF DeleteSees
            <7> QED
              BY <1>2, <3>3, <7>2 DEF WholeRow
          <6>5. /\ "trash" \in disk'[q] /\ "originals" \notin disk'[q]
            BY <1>2, <4>1, <5>1, <6>3, <6>4 DEF FileInPlace, Row, Places
          <6>6. \A d \in Clients : InTransit(d, q)' <=> d = c
            BY <4>4, <4>6, <6>2
          <6> QED
            BY <1>1, <1>3, <4>3, <5>3, <6>3, <6>5, <6>6 DEF FileInPlace
        <5>4. CASE client[c].op = "restore"
          <6>1. client[c].seen.place = "trash" /\ Target(c) = "originals"
            BY <4>6, <5>4 DEF MovesFile, Target
          <6>2. row[q].place \in {"trash", "originals"}
            BY <1>1, <5>2, <5>4, <6>1 DEF RestoreSees
          <6>3. \A d \in Clients : ~InTransit(d, q)
            <7>1. ASSUME NEW d \in Clients, InTransit(d, q) PROVE FALSE
              <8>1. client[d].op = "restore" => "trash" \notin disk[q]
                BY <1>2, <4>1, <7>1 DEF FileInPlace
              <8>2. client[d].op # "delete"
                BY <1>2, <3>4, <5>4, <7>1 DEF InTransit, DeleteSees
              <8>3. client[d].op \in {"delete", "restore"}
                BY <7>1 DEF InTransit, OnPaper, InStory, InStep, TypeOK, Client
              <8> QED
                BY <5>1, <6>1, <8>1, <8>2, <8>3
            <7> QED
              BY <7>1
          <6>4. row[q].place = "trash"
            BY <1>2, <4>1, <5>1, <6>1, <6>2, <6>3 DEF FileInPlace
          <6>5. "originals" \in disk'[q] /\ "trash" \notin disk'[q]
            BY <5>1, <6>1
          <6>6. \A d \in Clients : InTransit(d, q)' <=> d = c
            BY <4>4, <4>6, <6>3
          <6> QED
            BY <1>1, <1>3, <4>3, <5>4, <6>1, <6>4, <6>5, <6>6 DEF FileInPlace
        <5> QED
          BY <1>2, <5>3, <5>4
      <4> QED
        BY <4>5, <4>6
    <3> QED
      BY <2>1, <3>3, <3>5, <3>6 DEF Story
  <2>3. CASE q \in overlapped
    BY <1>1, <2>1, <2>3 DEF Story
  <2> QED
    BY <2>2, <2>3
<1> QED
  BY <1>4, <1>5, <1>6

\* What the commit of a request that met no other kind leaves in the row.
LEMMA CommittedChange ==
    ASSUME InStory, NEW c \in Clients, NEW q \in Jobs, q = client[c].paper,
           CommitChange(c), q \notin overlapped
    PROVE  /\ WholeRow(q)'
           /\ client[c].op = "delete" => row'[q].status = "deleted"
           /\ client[c].op = "restore" => row'[q].status = "active"
           /\ row'[q].place = IF MovesFile(c) THEN Target(c) ELSE row[q].place
<1>1. /\ client[c] # None /\ client[c].at = "commit"
      /\ row'[q] = Merge(row[q], client[c].seen, Changed(c))
  BY DEF CommitChange, InStory, InStep, TypeOK
<1>2. /\ client[c].op \in {"delete", "restore"}
      /\ client[c].seen \in Row /\ row[q] \in Row /\ Stored(q)
      /\ WholeRow(q) /\ DeleteSees(c, q) /\ RestoreSees(c, q)
  BY <1>1, RequestFinds DEF Story
<1> DEFINE s == client[c].seen
           r == row[q]
<1>3. /\ r.status \in {"active", "deleted"} /\ r.place \in Places
      /\ r.stamped \in BOOLEAN /\ r.fileStamped \in BOOLEAN
      /\ s.status \in {"active", "deleted"} /\ s.place \in Places
      /\ s.stamped \in BOOLEAN /\ s.fileStamped \in BOOLEAN
  BY <1>2 DEF Row
<1>4. /\ r.stamped <=> r.status = "deleted"
      /\ r.fileStamped <=> r.status = "deleted"
      /\ r.place = "trash" <=> r.status = "deleted"
  BY <1>2 DEF WholeRow
<1>5. CASE client[c].op = "delete"
  <2>1. /\ s.status = r.status /\ s.stamped = r.stamped /\ s.fileStamped = r.fileStamped
        /\ s.place = r.place
    BY <1>1, <1>2, <1>5 DEF DeleteSees
  <2>2. Target(c) = "trash" /\ (MovesFile(c) <=> ~s.fileStamped)
    BY <1>5 DEF Target, MovesFile, Selects
  <2>3. /\ row'[q].status = "deleted" /\ row'[q].stamped = TRUE /\ row'[q].fileStamped = TRUE
        /\ row'[q].place = IF MovesFile(c) THEN "trash" ELSE r.place
    <3>1. /\ Changed(c).status = "deleted" /\ Changed(c).stamped = TRUE
          /\ Changed(c).fileStamped = TRUE
          /\ Changed(c).place = IF MovesFile(c) THEN "trash" ELSE s.place
      BY <1>5 DEF Changed
    <3>2. row'[q].status = IF Changed(c).status # s.status THEN Changed(c).status ELSE r.status
      BY <1>1 DEF Merge
    <3>3. row'[q].stamped = TRUE
      BY <1>1, <3>1 DEF Merge
    <3>4. row'[q].fileStamped =
             IF Changed(c).fileStamped # s.fileStamped THEN Changed(c).fileStamped ELSE r.fileStamped
      BY <1>1 DEF Merge
    <3>5. row'[q].place = IF Changed(c).place # s.place THEN Changed(c).place ELSE r.place
      BY <1>1 DEF Merge
    <3> QED
      BY <1>3, <2>1, <3>1, <3>2, <3>3, <3>4, <3>5
  <2>4. row'[q].place = "trash"
    BY <1>3, <1>4, <2>1, <2>2, <2>3
  <2> QED
    BY <1>5, <2>2, <2>3, <2>4 DEF WholeRow
<1>6. CASE client[c].op = "restore"
  <2>1. /\ s.status = "deleted" /\ s.stamped = TRUE
        /\ s.fileStamped <=> s.place = "trash"
        /\ s.place # "trash" => r.status = "active"
    BY <1>1, <1>2, <1>6 DEF RestoreSees
  <2>2. Target(c) = "originals" /\ (MovesFile(c) <=> s.place = "trash")
    BY <1>6 DEF Target, MovesFile, Selects
  <2>3. /\ Changed(c).status = "active" /\ Changed(c).stamped = FALSE
        /\ Changed(c).fileStamped = FALSE
        /\ Changed(c).place = IF MovesFile(c) THEN "originals" ELSE s.place
    BY <1>6 DEF Changed
  <2>4. row'[q].status = "active"
    BY <1>1, <2>1, <2>3 DEF Merge
  <2>5. row'[q].stamped = FALSE
    BY <1>1, <2>1, <2>3 DEF Merge
  <2>6. row'[q].fileStamped = FALSE
    <3>1. row'[q].fileStamped =
             IF Changed(c).fileStamped # s.fileStamped THEN Changed(c).fileStamped ELSE r.fileStamped
      BY <1>1 DEF Merge
    <3>2. s.fileStamped = FALSE => r.fileStamped = FALSE
      BY <1>3, <1>4, <2>1
    <3> QED
      BY <1>3, <2>3, <3>1, <3>2
  <2>7. row'[q].place = IF MovesFile(c) THEN "originals" ELSE r.place
    <3>1. row'[q].place = IF Changed(c).place # s.place THEN Changed(c).place ELSE r.place
      BY <1>1 DEF Merge
    <3> QED
      BY <2>2, <2>3, <3>1
  <2>8. row'[q].place # "trash"
    BY <1>4, <2>1, <2>2, <2>7
  <2> QED
    BY <1>6, <2>2, <2>4, <2>5, <2>6, <2>7, <2>8 DEF WholeRow
<1> QED
  BY <1>2, <1>5, <1>6

\* A request commits what it did: the row follows the file.
LEMMA CommitChangeKeepsStory ==
    ASSUME InStory, NEW c \in Clients, CommitChange(c)
    PROVE  DeleteLocks' /\ \A p \in Jobs : Story(p)'
<1>0. PICK q \in Jobs : q = client[c].paper
  BY RequestFinds DEF CommitChange
<1>1. /\ client[c] # None /\ client[c].at = "commit"
      /\ Leave(c)
      /\ UNCHANGED <<pc, disk, torn, overlapped>>
      /\ \A p \in Jobs \ {q} : row'[p] = row[p]
  BY <1>0 DEF CommitChange, importVars, historyVars, InStory, InStep, TypeOK
<1>2. /\ client[c].op \in {"delete", "restore"}
      /\ client[c].seen \in Row
      /\ OnPaper(c, q)
      /\ row[q] \in Row
      /\ Stored(q)
      /\ Story(q)
      /\ pc[q] \in {"finish", "over"}
  BY <1>0, <1>1, RequestFinds
<1>3. client'[c] = None /\ \A d \in Clients \ {c} : client'[d] = client[d]
  BY <1>1 DEF Leave, InStory, InStep, TypeOK
<1>4. DeleteLocks'
  BY <1>1, LeavingUnlocks DEF InStory, InStep
<1>5. ASSUME NEW p \in Jobs, p # q
      PROVE  Story(p)'
  <2>1. ~OnPaper(c, p) /\ ~OnPaper(c, p)'
    BY <1>0, <1>3, <1>5 DEF OnPaper
  <2> QED
    BY <1>1, <1>3, <1>5, <2>1, OtherPapers
<1>6. Story(q)'
  <2>1. BeforeMove(q)'
    BY <1>1, <1>2 DEF BeforeMove
  <2>2. CASE q \notin overlapped
    <3>1. /\ WholeRow(q)'
          /\ client[c].op = "delete" => row'[q].status = "deleted"
          /\ client[c].op = "restore" => row'[q].status = "active"
          /\ row'[q].place = IF MovesFile(c) THEN Target(c) ELSE row[q].place
      BY <1>0, <2>2, CommittedChange
    <3>2. \A d \in Clients : OnPaper(d, q) => DeleteSees(d, q) /\ RestoreSees(d, q)
      BY <1>2, <2>2 DEF Story
    <3>3. ASSUME NEW d \in Clients, OnPaper(d, q)'
          PROVE  /\ d # c /\ OnPaper(d, q) /\ client'[d] = client[d]
                 /\ client[d].op = "restore" /\ client[c].op = "restore"
      <4>1. d # c /\ OnPaper(d, q) /\ client'[d] = client[d]
        BY <1>3, <3>3 DEF OnPaper
      <4>2. client[d].op \in {"delete", "restore"}
        BY <4>1 DEF OnPaper, InStory, InStep, TypeOK, Client
      <4>3. client[d].op = "delete" \/ client[c].op = "delete" =>
               client[d].op = "delete" /\ client[c].op = "delete"
        BY <1>2, <3>2, <4>1 DEF DeleteSees
      <4>4. client[d].op = "delete" /\ client[c].op = "delete" => FALSE
        BY <1>1, <4>1 DEF InStory, DeleteLocks, OnPaper
      <4> QED
        BY <1>2, <4>1, <4>2, <4>3, <4>4
    <3>4. ASSUME NEW d \in Clients, OnPaper(d, q)'
          PROVE  DeleteSees(d, q)' /\ RestoreSees(d, q)'
      <4>1. /\ client'[d] = client[d] /\ client[d].op = "restore" /\ client[c].op = "restore"
            /\ RestoreSees(d, q)
        BY <3>2, <3>3, <3>4
      <4>2. row'[q].place \in {row[q].place, "originals"}
        BY <3>1, <4>1 DEF Target
      <4> QED
        BY <3>1, <4>1, <4>2 DEF DeleteSees, RestoreSees
    <3>5. ASSUME q \notin torn'
          PROVE  FileInPlace(q)'
      <4>1. FileInPlace(q) /\ WholeRow(q)
        BY <1>1, <1>2, <2>2, <3>5 DEF Story
      <4>2. \A d \in Clients : InTransit(d, q)' =>
               d # c /\ InTransit(d, q) /\ client[d].op = "restore" /\ client[c].op = "restore"
        BY <3>3 DEF InTransit, MovesFile, Selects
      <4>3. \A d \in Clients : ~InTransit(d, q)'
        <5>1. ASSUME NEW d \in Clients, InTransit(d, q)' PROVE FALSE
          <6>1. /\ d # c /\ InTransit(d, q)
                /\ client[d].op = "restore" /\ client[c].op = "restore"
            BY <4>2, <5>1
          <6>2. row[q].place = "trash" /\ ~InTransit(c, q)
            BY <1>2, <4>1, <6>1 DEF FileInPlace
          <6>3. client[c].seen.place # "trash"
            BY <1>1, <1>2, <6>1, <6>2 DEF InTransit, MovesFile, Selects
          <6>4. row[q].status = "active"
            BY <1>1, <1>2, <3>2, <6>1, <6>3 DEF RestoreSees
          <6> QED
            BY <1>2, <4>1, <6>2, <6>4 DEF WholeRow
        <5> QED
          BY <5>1
      <4>4. row'[q].place \in disk'[q]
        <5>1. CASE MovesFile(c)
          BY <1>1, <1>2, <3>1, <4>1, <5>1 DEF FileInPlace, InTransit
        <5>2. CASE ~MovesFile(c)
          <6>1. \A d \in Clients : ~InTransit(d, q)
            <7>1. ASSUME NEW d \in Clients, InTransit(d, q) PROVE FALSE
              <8>1. d # c /\ client'[d] = client[d]
                BY <1>3, <5>2, <7>1 DEF InTransit
              <8>2. InTransit(d, q)'
                BY <7>1, <8>1 DEF InTransit, OnPaper, MovesFile, Selects
              <8> QED
                BY <4>3, <8>2
            <7> QED
              BY <7>1
          <6> QED
            BY <1>1, <1>2, <3>1, <4>1, <5>2, <6>1 DEF FileInPlace
        <5> QED
          BY <5>1, <5>2
      <4>5. /\ ~({"originals", "trash"} \subseteq disk'[q])
            /\ row'[q].place = "temporary" => "originals" \notin disk'[q]
        BY <1>1, <1>2, <3>1, <4>1 DEF FileInPlace, Target
      <4> QED
        BY <4>3, <4>4, <4>5 DEF FileInPlace
    <3> QED
      BY <2>1, <3>1, <3>4, <3>5 DEF Story
  <2>3. CASE q \in overlapped
    BY <1>1, <2>1, <2>3 DEF Story
  <2> QED
    BY <2>2, <2>3
<1> QED
  BY <1>4, <1>5, <1>6

\* Every step keeps the story of every paper.
LEMMA StoryPreserved == InStory /\ [Next]_vars => InStory'
<1> SUFFICES ASSUME InStory, [Next]_vars
             PROVE  DeleteLocks' /\ \A p \in Jobs : Story(p)'
  BY InStepPreserved DEF InStory
<1>1. ASSUME NEW j \in Jobs, Import(j)
      PROVE  DeleteLocks' /\ \A p \in Jobs : Story(p)'
  BY <1>1, ImportKeepsStory, CommitAndMoveKeepStory DEF Import
<1>2. ASSUME NEW c \in Clients, NEW p \in Jobs, BeginDelete(c, p) \/ BeginRestore(c, p)
      PROVE  DeleteLocks' /\ \A q \in Jobs : Story(q)'
  BY <1>2, BeginDeleteKeepsStory, BeginRestoreKeepsStory
<1>3. ASSUME NEW c \in Clients, ReadFiles(c) \/ MoveFile(c) \/ CommitChange(c)
      PROVE  DeleteLocks' /\ \A p \in Jobs : Story(p)'
  BY <1>3, ReadFilesKeepsStory, MoveFileKeepsStory, CommitChangeKeepsStory
<1>4. ASSUME NEW c \in Clients, MoveFileFails(c)
      PROVE  DeleteLocks' /\ \A p \in Jobs : Story(p)'
  BY <1>4, LeavingKeepsStory DEF MoveFileFails, importVars, historyVars
<1>5. ASSUME NEW c \in Clients, CommitChangeFails(c)
      PROVE  DeleteLocks' /\ \A p \in Jobs : Story(p)'
  BY <1>5, LeavingKeepsStory DEF CommitChangeFails, importVars
<1>6. ASSUME UNCHANGED vars
      PROVE  DeleteLocks' /\ \A p \in Jobs : Story(p)'
  <2>1. UNCHANGED <<pc, row, disk, client, lock, torn, overlapped>>
    BY <1>6 DEF vars
  <2>2. DeleteLocks'
    BY <2>1 DEF InStory, DeleteLocks
  <2>3. ASSUME NEW p \in Jobs
        PROVE  Story(p)'
    <3>1. Story(p)
      BY DEF InStory
    <3>2. BeforeMove(p)'
      BY <2>1, <3>1 DEF Story, BeforeMove, OnPaper
    <3> QED
      BY <2>1, <3>1, <3>2, SameStory DEF OnPaper
  <2> QED
    BY <2>2, <2>3
<1> QED
  BY <1>1, <1>2, <1>3, <1>4, <1>5, <1>6 DEF Next, Request

\* The rows, the file and the requests keep telling one story, for any number of
\* uploads and request threads.
THEOREM StoryInvariant == Spec => []InStory
<1>1. Init => InStory
  <2> SUFFICES ASSUME Init
               PROVE  InStory
    OBVIOUS
  <2>1. InStep
    BY DEF Init, InStep, TypeOK, ImportPc, JobStatus, ImportInStep, RequestInStep,
           NoBytesLost, OneHolder, Stored
  <2>2. DeleteLocks
    BY DEF Init, DeleteLocks
  <2>3. ASSUME NEW p \in Jobs
        PROVE  Story(p)
    BY DEF Init, Story, BeforeMove, WholeRow, FileInPlace, OnPaper, Stored
  <2> QED
    BY <2>1, <2>2, <2>3 DEF InStory
<1> QED
  BY <1>1, StoryPreserved, PTL DEF Spec

\* The path in a row names a file that is there, unless a commit failed after a move
\* or a delete met a restore of the same paper.
THEOREM PlaceTold == Spec => []RowTellsPlace
<1>1. InStory => RowTellsPlace
  <2> SUFFICES ASSUME InStory, NEW p \in Jobs, p \notin torn \union overlapped,
                      Stored(p), ~Moving(p)
               PROVE  row[p].place \in disk[p]
    BY DEF RowTellsPlace
  <2>1. FileInPlace(p) /\ pc[p] \notin {"move", "reconcile"}
    BY DEF InStory, Story, Moving
  <2>2. \A c \in Clients : ~InTransit(c, p)
    BY DEF Moving, InTransit, OnPaper
  <2> QED
    BY <2>1, <2>2 DEF FileInPlace
<1> QED
  BY <1>1, StoryInvariant, PTL

\* Status, both stamps and the place of the file agree, unless a delete met a restore
\* of the same paper: identity/service.py writes all four or none.
THEOREM DeletionWhole == Spec => []DeletionIsWhole
<1>1. InStory => DeletionIsWhole
  BY DEF InStory, Story, WholeRow, DeletionIsWhole
<1> QED
  BY <1>1, StoryInvariant, PTL

-----------------------------------------------------------------------------
(* PaperReview.                                                            *)

\* The paper that a worker compares with the others, once its detection has read them.
Subject(w) == IF w \in Papers THEN w ELSE reconcile[w].paper
Detects(w) == IF w \in Papers THEN pipeline[w] = "detecting" ELSE At(w, "detecting")

\* Only imported papers are worked on, and what was once imported stays.
ImportsBegun ==
    /\ \A p \in Papers : pipeline[p] # "new" => status[p] # "absent"
    /\ \A c \in Clients : reconcile[c] # None => status[reconcile[c].paper] # "absent"

\* What detections have read: a paper that is fresh was there, and of two detections the
\* later one holds fresh whatever the earlier one does.
SnapshotsInPlace ==
    /\ \A w \in Workers : Detects(w) => seen[w] # None
    /\ \A w \in Workers : seen[w] # None =>
          \A p \in seen[w].fresh : status[p] # "absent" /\ seen[w].status[p] # "absent"
    /\ \A v, w \in Workers : seen[v] # None /\ seen[w] # None =>
          seen[v].fresh \subseteq seen[w].fresh \/ seen[w].fresh \subseteq seen[v].fresh

\* Some relation of the two papers was decided.
Decided(p, q) == \E t \in Types : relation[{p, q}][t] = "decided"

\* Nothing is left to find out about a pair as the papers look now.
Told(p, q) ==
    \/ likeness[{p, q}] = None
    \/ {p, q} \in skipped
    \/ relation[{p, q}][likeness[{p, q}]] # "absent"
    \/ Decided(p, q)

\* A paper that was compared is told from, or will be found by, each detection that
\* has still to commit.
DetectionsInPlace ==
    /\ \A p \in checked : status[p] # "absent"
    /\ \A p, q \in checked : p # q => Told(p, q)
    /\ \A w \in Workers : Detects(w) /\ Subject(w) \in seen[w].fresh =>
          \A p \in checked \ {Subject(w)} : Told(p, Subject(w)) \/ p \in seen[w].fresh

\* The inductive invariant of review.
InReview ==
    /\ ReviewTypeOK
    /\ ImportsBegun
    /\ SnapshotsInPlace
    /\ DetectionsInPlace
    /\ PendingHasReason

-----------------------------------------------------------------------------
(* Lemmas about pairs and detections.                                      *)

\* Two papers make a pair.
LEMMA PairOfPapers ==
    ASSUME NEW p \in Papers, NEW q \in Papers, p # q
    PROVE  {p, q} \in Pairs
<1>0. IsFiniteSet({p}) /\ Cardinality({p}) = 1
  BY FS_Singleton, Zenon
<1>1. Cardinality({p} \union {q}) = 2
  BY <1>0, FS_AddElement
<1>2. {p} \union {q} = {p, q}
  OBVIOUS
<1> QED
  BY <1>1, <1>2 DEF Pairs

\* A worker is a pipeline or a request, and detects for one paper.
LEMMA Detecting ==
    ASSUME InReview
    PROVE  /\ \A p \in Papers : Subject(p) = p /\ (Detects(p) <=> pipeline[p] = "detecting")
           /\ \A c \in Clients : /\ Subject(c) = reconcile[c].paper
                                 /\ Detects(c) <=> At(c, "detecting")
                                 /\ c \notin Papers
           /\ \A w \in Workers : Detects(w) => Subject(w) \in Papers /\ seen[w] \in Snapshot
BY ReviewAssumption
DEF InReview, ReviewTypeOK, SnapshotsInPlace, Subject, Detects, Workers, At

\* A step that compares nothing and reads nothing; a detection may be given up.
LEMMA QuietKeeps ==
    ASSUME InReview, ReviewTypeOK', UNCHANGED <<likeness, checked, skipped>>,
           \A pair \in Pairs, t \in Types :
               /\ relation[pair][t] # "absent" => \/ relation'[pair][t] # "absent"
                                                  \/ \E u \in Types : relation'[pair][u] = "decided"
               /\ relation[pair][t] = "decided" => \E u \in Types : relation'[pair][u] = "decided",
           \A p \in Papers : status[p] # "absent" => status'[p] # "absent",
           \A w \in Workers : seen'[w] = seen[w] \/ seen'[w] = None,
           \A w \in Workers : Detects(w)' =>
               Detects(w) /\ Subject(w)' = Subject(w) /\ seen'[w] = seen[w]
    PROVE  SnapshotsInPlace' /\ DetectionsInPlace'
<1>1. checked \subseteq Papers
  BY DEF InReview, ReviewTypeOK
<1>2. \A p, q \in Papers : p # q /\ Told(p, q) => Told(p, q)'
  <2> SUFFICES ASSUME NEW p \in Papers, NEW q \in Papers, p # q, Told(p, q)
               PROVE  Told(p, q)'
    OBVIOUS
  <2>1. {p, q} \in Pairs /\ likeness[{p, q}] \in Types \union {None}
    BY PairOfPapers DEF InReview, ReviewTypeOK
  <2> QED
    BY <2>1 DEF Told, Decided
<1>3. SnapshotsInPlace'
  <2>1. \A w \in Workers : Detects(w)' => seen'[w] # None
    BY DEF InReview, SnapshotsInPlace
  <2>2. ASSUME NEW w \in Workers, seen'[w] # None
        PROVE  \A p \in seen'[w].fresh : status'[p] # "absent" /\ seen'[w].status[p] # "absent"
    <3>1. seen[w] \in Snapshot /\ seen'[w] = seen[w]
      BY <2>2 DEF InReview, ReviewTypeOK
    <3> QED
      BY <2>2, <3>1 DEF InReview, SnapshotsInPlace, Snapshot
  <2>3. \A v, w \in Workers : seen'[v] # None /\ seen'[w] # None =>
            seen'[v].fresh \subseteq seen'[w].fresh \/ seen'[w].fresh \subseteq seen'[v].fresh
    BY DEF InReview, SnapshotsInPlace
  <2> QED
    BY <2>1, <2>2, <2>3 DEF SnapshotsInPlace
<1>4. DetectionsInPlace'
  <2>1. \A p \in checked' : status'[p] # "absent"
    BY <1>1 DEF InReview, DetectionsInPlace
  <2>2. \A p, q \in checked' : p # q => Told(p, q)'
    BY <1>1, <1>2 DEF InReview, DetectionsInPlace
  <2>3. ASSUME NEW w \in Workers, (Detects(w) /\ Subject(w) \in seen[w].fresh)',
               NEW p \in Papers, (p \in checked \ {Subject(w)})'
        PROVE  (Told(p, Subject(w)) \/ p \in seen[w].fresh)'
    <3>1. PICK q \in Papers : q = Subject(w)
      BY <2>3, Detecting
    <3>2. q = Subject(w)' /\ seen'[w] = seen[w] /\ p \in checked \ {q}
      BY <2>3, <3>1
    <3>3. Told(p, q) \/ p \in seen[w].fresh
      BY <2>3, <3>1, <3>2 DEF InReview, DetectionsInPlace
    <3>4. Told(p, q)' \/ p \in seen'[w].fresh
      BY <1>2, <3>2, <3>3
    <3> QED
      BY <3>2, <3>4 DEF Told, Decided
  <2> QED
    BY <1>1, <2>1, <2>2, <2>3 DEF DetectionsInPlace
<1> QED
  BY <1>3, <1>4

\* A detection reads the papers: what is fresh to others is fresh to it.
LEMMA ReadKeeps ==
    ASSUME InReview, ReviewTypeOK', NEW w \in Workers, NEW p \in Papers, ReadPapers(w),
           UNCHANGED <<likeness, checked, skipped, relation, status>>,
           Detects(w)', Subject(w)' = p,
           \A v \in Workers \ {w} : Detects(v)' => Detects(v) /\ Subject(v)' = Subject(v)
    PROVE  SnapshotsInPlace' /\ DetectionsInPlace'
<1>1. /\ seen'[w] = [status |-> status, fresh |-> {q \in Papers : status[q] # "absent"}]
      /\ \A v \in Workers \ {w} : seen'[v] = seen[v]
      /\ seen'[w] \in Snapshot /\ seen'[w] # None
  BY ReviewAssumption DEF InReview, ReviewTypeOK, ReadPapers, Snapshot
<1>2. seen'[w].status = status /\ seen'[w].fresh = {q \in Papers : status[q] # "absent"}
  BY <1>1
<1>3. \A v \in Workers \ {w} : seen[v] # None =>
          /\ \A q \in seen[v].fresh : q \in Papers /\ status[q] # "absent" /\ seen[v].status[q] # "absent"
          /\ seen[v].fresh \subseteq seen'[w].fresh
  <2> SUFFICES ASSUME NEW v \in Workers \ {w}, seen[v] # None
               PROVE  /\ \A q \in seen[v].fresh :
                            q \in Papers /\ status[q] # "absent" /\ seen[v].status[q] # "absent"
                      /\ seen[v].fresh \subseteq seen'[w].fresh
    OBVIOUS
  <2>1. seen[v].fresh \subseteq Papers
    BY DEF InReview, ReviewTypeOK, Snapshot
  <2> QED
    BY <1>2, <2>1 DEF InReview, SnapshotsInPlace
<1>4. SnapshotsInPlace'
  <2>1. \A v \in Workers : Detects(v)' => seen'[v] # None
    BY <1>1 DEF InReview, SnapshotsInPlace
  <2>2. \A v \in Workers : seen'[v] # None =>
            \A q \in seen'[v].fresh : status'[q] # "absent" /\ seen'[v].status[q] # "absent"
    BY <1>1, <1>2, <1>3 DEF InReview, ImportsBegun
  <2>3. \A v, u \in Workers : seen'[v] # None /\ seen'[u] # None =>
            seen'[v].fresh \subseteq seen'[u].fresh \/ seen'[u].fresh \subseteq seen'[v].fresh
    BY <1>1, <1>3 DEF InReview, SnapshotsInPlace
  <2> QED
    BY <2>1, <2>2, <2>3 DEF SnapshotsInPlace
<1>5. DetectionsInPlace'
  <2>1. \A q \in checked' : status'[q] # "absent"
    BY DEF InReview, DetectionsInPlace
  <2>2. \A q, r \in checked' : q # r => Told(q, r)'
    <3>1. \A q, r : Told(q, r) => Told(q, r)'
      BY DEF Told, Decided
    <3> QED
      BY <3>1 DEF InReview, DetectionsInPlace
  <2>3. ASSUME NEW v \in Workers, (Detects(v) /\ Subject(v) \in seen[v].fresh)',
               NEW q \in Papers, (q \in checked \ {Subject(v)})'
        PROVE  (Told(q, Subject(v)) \/ q \in seen[v].fresh)'
    <3>1. CASE v = w
      BY <1>2, <2>1, <2>3, <3>1
    <3>2. CASE v # w
      <4>1. PICK r \in Papers : r = Subject(v)
        BY <2>3, <3>2, Detecting
      <4>2. r = Subject(v)' /\ seen'[v] = seen[v] /\ q \in checked \ {r}
        BY <1>1, <2>3, <3>2, <4>1
      <4>3. Told(q, r) \/ q \in seen[v].fresh
        BY <2>3, <3>2, <4>1, <4>2 DEF InReview, DetectionsInPlace
      <4>4. Told(q, r)' \/ q \in seen'[v].fresh
        BY <4>2, <4>3 DEF Told, Decided
      <4> QED
        BY <4>2, <4>4 DEF Told, Decided
    <3> QED
      BY <3>1, <3>2
  <2> QED
    BY <2>1, <2>2, <2>3 DEF DetectionsInPlace, InReview, ReviewTypeOK
<1> QED
  BY <1>4, <1>5

\* What a detection leaves: the relations it created, papers that wait for a review,
\* and the history of what was compared.
LEMMA DetectionCommits ==
    ASSUME InReview, NEW w \in Workers, Detects(w), NEW p \in Papers, Subject(w) = p,
           NEW score \in Scores(w, p), CommitDetection(w, p, score), UNCHANGED likeness
    PROVE  /\ \A pair \in Pairs, t \in Types :
                 \/ relation'[pair][t] = relation[pair][t]
                 \/ relation'[pair][t] = "pending" /\ relation[pair][t] = "absent"
           /\ \A q \in Papers \ {p} : p \in seen[w].fresh /\ q \in seen[w].fresh => Told(p, q)'
           /\ \A q \in Papers : status'[q] # status[q] =>
                 /\ status'[q] = "duplicate_pending"
                 /\ \E r \in Papers \ {q}, t \in Types : relation'[{q, r}][t] = "pending"
<1>1. /\ seen[w] \in Snapshot /\ seen[w] # None
      /\ \A q \in seen[w].fresh : seen[w].status[q] # "absent"
  BY Detecting, ReviewAssumption DEF InReview, SnapshotsInPlace
<1>2. ASSUME NEW q \in Created(w, p, score)
      PROVE  /\ q \in Papers \ {p} /\ {p, q} \in Pairs
             /\ score[q] \in Types
             /\ relation[{p, q}][score[q]] = "absent"
             /\ relation'[{p, q}][score[q]] = "pending"
  <2>1. /\ q \in Compared(w, p) /\ q \in Papers \ {p} /\ score[q] # None
        /\ relation[{p, q}][score[q]] = "absent"
    BY <1>2 DEF Created, Compared
  <2>2. {p, q} \in Pairs
    BY <2>1, PairOfPapers
  <2>3. score[q] \in Types
    BY <2>1 DEF Scores
  <2> QED
    BY <1>2, <2>1, <2>2, <2>3 DEF CommitDetection
<1>3. ASSUME NEW pair \in Pairs, NEW t \in Types
      PROVE  \/ relation'[pair][t] = relation[pair][t]
             \/ relation'[pair][t] = "pending" /\ relation[pair][t] = "absent"
  <2>1. relation'[pair][t] = IF \E q \in Created(w, p, score) : pair = {p, q} /\ t = score[q]
                             THEN "pending" ELSE relation[pair][t]
    BY DEF CommitDetection
  <2> QED
    BY <1>2, <2>1
<1>4. ASSUME NEW q \in Papers \ {p}, p \in seen[w].fresh, q \in seen[w].fresh
      PROVE  Told(p, q)'
  <2>1. {p, q} \in Pairs
    BY PairOfPapers
  <2>2. CASE seen[w].status[q] = "deleted"
    <3>1. {p, q} \in skipped'
      BY <2>2 DEF CommitDetection
    <3> QED
      BY <3>1 DEF Told
  <2>3. CASE seen[w].status[q] # "deleted" /\ likeness[{p, q}] # None
    <3>1. q \in Compared(w, p)
      BY <1>1, <1>4, <2>3 DEF Compared
    <3>2. score[q] = likeness[{p, q}] /\ score[q] \in Types
      BY <1>4, <2>3, <3>1 DEF Scores
    <3>3. relation'[{p, q}][score[q]] # "absent"
      BY <1>2, <1>3, <2>1, <2>3, <3>1, <3>2 DEF Created
    <3> QED
      BY <3>2, <3>3 DEF Told
  <2> QED
    BY <2>2, <2>3 DEF Told
<1>5. ASSUME NEW q \in Papers, status'[q] # status[q]
      PROVE  /\ status'[q] = "duplicate_pending"
             /\ \E r \in Papers \ {q}, t \in Types : relation'[{q, r}][t] = "pending"
  <2>1. /\ status'[q] = "duplicate_pending"
        /\ Created(w, p, score) # {} /\ q \in Created(w, p, score) \union {p}
    BY <1>5 DEF CommitDetection
  <2>2. CASE q = p
    <3>1. PICK r \in Created(w, p, score) : TRUE
      BY <2>1
    <3>2. r \in Papers \ {q} /\ relation'[{q, r}][score[r]] = "pending"
          /\ score[r] \in Types
      BY <1>2, <2>2, <3>1
    <3> QED
      BY <2>1, <3>2
  <2>3. CASE q \in Created(w, p, score)
    <3>1. {p, q} = {q, p}
      OBVIOUS
    <3>2. p \in Papers \ {q} /\ relation'[{q, p}][score[q]] = "pending"
          /\ score[q] \in Types
      BY <1>2, <2>3, <3>1
    <3> QED
      BY <2>1, <3>2
  <2> QED
    BY <2>1, <2>2, <2>3
<1> QED
  BY <1>3, <1>4, <1>5

\* A detection commits: each paper compared before it is told from its own, and each
\* detection that goes on knows one that this one did not.
LEMMA CommitKeeps ==
    ASSUME InReview, ReviewTypeOK', NEW w \in Workers, Detects(w), ~Detects(w)',
           NEW p \in Papers, Subject(w) = p,
           NEW score \in Scores(w, p), CommitDetection(w, p, score), Forget(w),
           UNCHANGED likeness,
           \A v \in Workers \ {w} : Detects(v)' => Detects(v) /\ Subject(v)' = Subject(v)
    PROVE  SnapshotsInPlace' /\ DetectionsInPlace' /\ PendingHasReason'
<1>1. /\ \A v \in Workers \ {w} : seen'[v] = seen[v]
      /\ seen'[w] = None
  BY DEF InReview, ReviewTypeOK, Forget
<1>2. /\ \A pair \in Pairs, t \in Types :
            \/ relation'[pair][t] = relation[pair][t]
            \/ relation'[pair][t] = "pending" /\ relation[pair][t] = "absent"
      /\ \A q \in Papers \ {p} : p \in seen[w].fresh /\ q \in seen[w].fresh => Told(p, q)'
      /\ \A q \in Papers : status'[q] # status[q] =>
            /\ status'[q] = "duplicate_pending"
            /\ \E r \in Papers \ {q}, t \in Types : relation'[{q, r}][t] = "pending"
  BY DetectionCommits
<1>3. \A q, r \in Papers : q # r /\ Told(q, r) => Told(q, r)'
  <2> SUFFICES ASSUME NEW q \in Papers, NEW r \in Papers, q # r, Told(q, r)
               PROVE  Told(q, r)'
    OBVIOUS
  <2>1. {q, r} \in Pairs /\ skipped \subseteq skipped'
    BY PairOfPapers DEF CommitDetection
  <2>2. CASE likeness[{q, r}] = None \/ {q, r} \in skipped
    BY <2>1, <2>2 DEF Told
  <2>3. CASE likeness[{q, r}] # None /\ relation[{q, r}][likeness[{q, r}]] # "absent"
    <3>1. likeness[{q, r}] \in Types
      BY <2>1, <2>3 DEF InReview, ReviewTypeOK
    <3>2. relation'[{q, r}][likeness[{q, r}]] # "absent"
      BY <1>2, <2>1, <2>3, <3>1
    <3> QED
      BY <3>2 DEF Told
  <2>4. ASSUME NEW t \in Types, relation[{q, r}][t] = "decided"
        PROVE  Told(q, r)'
    <3>1. relation'[{q, r}][t] = "decided"
      BY <1>2, <2>1, <2>4
    <3> QED
      BY <3>1 DEF Told, Decided
  <2> QED
    BY <2>2, <2>3, <2>4 DEF Told, Decided
<1>4. \A q, r \in Papers : (Told(q, r) <=> Told(r, q)) /\ (Told(q, r)' <=> Told(r, q)')
  <2>1. \A q, r \in Papers : {q, r} = {r, q}
    OBVIOUS
  <2> QED
    BY <2>1 DEF Told, Decided
<1>5. \A q \in Papers : status[q] # "absent" => status'[q] # "absent"
  BY <1>2
<1>6. PendingHasReason'
  <2> SUFFICES ASSUME NEW q \in Papers, status'[q] = "duplicate_pending"
               PROVE  \E r \in Papers \ {q}, t \in Types : relation'[{q, r}][t] = "pending"
    BY DEF PendingHasReason, PendingTypes
  <2>1. CASE status[q] = "duplicate_pending"
    <3>1. PICK r \in Papers \ {q}, t \in Types : relation[{q, r}][t] = "pending"
      BY <2>1 DEF InReview, PendingHasReason, PendingTypes
    <3>2. relation'[{q, r}][t] = "pending"
      BY <1>2, <3>1, PairOfPapers
    <3> QED
      BY <3>2
  <2> QED
    BY <1>2, <2>1
<1>7. SnapshotsInPlace'
  <2>1. \A v \in Workers : Detects(v)' => seen'[v] # None
    BY <1>1 DEF InReview, SnapshotsInPlace
  <2>2. ASSUME NEW v \in Workers, seen'[v] # None
        PROVE  \A q \in seen'[v].fresh : status'[q] # "absent" /\ seen'[v].status[q] # "absent"
    <3>1. v # w /\ seen'[v] = seen[v] /\ seen[v] \in Snapshot
      BY <1>1, <2>2 DEF InReview, ReviewTypeOK
    <3> QED
      BY <1>5, <2>2, <3>1 DEF InReview, SnapshotsInPlace, Snapshot
  <2>3. \A v, u \in Workers : seen'[v] # None /\ seen'[u] # None =>
            seen'[v].fresh \subseteq seen'[u].fresh \/ seen'[u].fresh \subseteq seen'[v].fresh
    BY <1>1 DEF InReview, SnapshotsInPlace
  <2> QED
    BY <2>1, <2>2, <2>3 DEF SnapshotsInPlace
<1>8. checked \subseteq Papers /\ checked' = checked \union ({p} \intersect seen[w].fresh)
  BY DEF InReview, ReviewTypeOK, CommitDetection
<1>9. seen[w] \in Snapshot /\ seen[w] # None
  BY Detecting, ReviewAssumption DEF InReview, SnapshotsInPlace
<1>10. \A q \in checked \ {p} : p \in seen[w].fresh => Told(p, q)'
  <2>1. \A q \in checked \ {p} : p \in seen[w].fresh => Told(q, p) \/ q \in seen[w].fresh
    BY DEF InReview, DetectionsInPlace
  <2> QED
    BY <1>2, <1>3, <1>4, <1>8, <2>1
<1>11. DetectionsInPlace'
  <2>1. \A q \in checked' : status'[q] # "absent"
    BY <1>5, <1>8, <1>9 DEF InReview, DetectionsInPlace, SnapshotsInPlace
  <2>2. ASSUME NEW q \in checked', NEW r \in checked', q # r
        PROVE  Told(q, r)'
    <3>1. CASE q \in checked /\ r \in checked
      BY <1>3, <1>8, <2>2, <3>1 DEF InReview, DetectionsInPlace
    <3>2. CASE q = p \/ r = p
      BY <1>3, <1>4, <1>8, <1>10, <2>2, <3>2 DEF InReview, DetectionsInPlace
    <3> QED
      BY <1>8, <3>1, <3>2
  <2>3. ASSUME NEW v \in Workers, (Detects(v) /\ Subject(v) \in seen[v].fresh)',
               NEW q \in Papers, (q \in checked \ {Subject(v)})'
        PROVE  (Told(q, Subject(v)) \/ q \in seen[v].fresh)'
    <3>1. v # w /\ Detects(v) /\ seen'[v] = seen[v] /\ seen[v] # None
      BY <1>1, <2>3 DEF InReview, SnapshotsInPlace
    <3>2. PICK r \in Papers : r = Subject(v)
      BY <3>1, Detecting
    <3>3. r = Subject(v)' /\ q # r /\ r \in seen[v].fresh
      BY <2>3, <3>1, <3>2
    <3>4. Told(q, r)' \/ q \in seen[v].fresh
      <4>1. CASE q \in checked
        BY <1>3, <3>1, <3>2, <3>3, <4>1 DEF InReview, DetectionsInPlace
      <4>2. CASE q = p /\ p \in seen[w].fresh
        <5>1. seen[v].fresh \subseteq seen[w].fresh \/ seen[w].fresh \subseteq seen[v].fresh
          BY <1>9, <3>1 DEF InReview, SnapshotsInPlace
        <5> QED
          BY <1>2, <3>3, <4>2, <5>1
      <4> QED
        BY <1>8, <2>3, <4>1, <4>2
    <3> QED
      BY <3>1, <3>3, <3>4 DEF Told, Decided
  <2> QED
    BY <1>8, <2>1, <2>2, <2>3 DEF DetectionsInPlace
<1> QED
  BY <1>6, <1>7, <1>11

\* A decision about a pair: a paper that goes on waiting has a relation left.
LEMMA ConvergeKeeps ==
    ASSUME InReview, ReviewTypeOK', NEW pair \in Pairs, Converge(pair),
           \A other \in Pairs \ {pair} : relation'[other] = relation[other]
    PROVE  PendingHasReason'
<1> SUFFICES ASSUME NEW p \in Papers, status'[p] = "duplicate_pending"
             PROVE  \E q \in Papers \ {p}, t \in Types : relation'[{p, q}][t] = "pending"
  BY DEF PendingHasReason, PendingTypes
<1>1. status[p] = "duplicate_pending"
  BY DEF Converge
<1>2. CASE p \in pair
  BY <1>1, <1>2 DEF Converge
<1>3. CASE p \notin pair
  <2>1. PICK q \in Papers \ {p}, t \in Types : relation[{p, q}][t] = "pending"
    BY <1>1 DEF InReview, PendingHasReason, PendingTypes
  <2>2. {p, q} \in Pairs \ {pair}
    BY <1>3, PairOfPapers
  <2> QED
    BY <2>1, <2>2
<1> QED
  BY <1>2, <1>3

\* A step that neither compares nor reads nor touches relations and imports no paper anew.
LEMMA StepKeeps ==
    ASSUME InReview, ReviewTypeOK', UNCHANGED <<likeness, relation, checked, skipped>>,
           \A p \in Papers : /\ status[p] # "absent" => status'[p] # "absent"
                             /\ status'[p] = "duplicate_pending" => status[p] = "duplicate_pending"
                             /\ pipeline'[p] # "new" => status'[p] # "absent",
           \A c \in Clients : reconcile'[c] # None =>
               \/ status[reconcile'[c].paper] # "absent"
               \/ reconcile[c] # None /\ reconcile'[c].paper = reconcile[c].paper,
           \A w \in Workers : seen'[w] = seen[w] \/ seen'[w] = None,
           \A p \in Papers : pipeline'[p] = "detecting" =>
               pipeline[p] = "detecting" /\ seen'[p] = seen[p],
           \A c \in Clients : At(c, "detecting")' =>
               /\ At(c, "detecting") /\ seen'[c] = seen[c]
               /\ reconcile'[c].paper = reconcile[c].paper
    PROVE  InReview'
<1>1. \A w \in Workers : Detects(w)' =>
          Detects(w) /\ Subject(w)' = Subject(w) /\ seen'[w] = seen[w]
  BY DEF Workers, Detects, Subject, InReview, ReviewTypeOK
<1>2. SnapshotsInPlace' /\ DetectionsInPlace'
  BY <1>1, QuietKeeps
<1>3. ImportsBegun'
  <2>1. \A c \in Clients : reconcile'[c] # None => reconcile'[c].paper \in Papers
    BY DEF ReviewTypeOK
  <2> QED
    BY <2>1 DEF InReview, ImportsBegun
<1>4. PendingHasReason'
  BY DEF InReview, PendingHasReason, PendingTypes
<1> QED
  BY <1>2, <1>3, <1>4 DEF InReview

\* Pending statuses and relations that stay keep their reasons.
LEMMA UnchangedReasons ==
    ASSUME PendingHasReason, UNCHANGED <<status, relation>>
    PROVE  PendingHasReason'
BY DEF PendingHasReason, PendingTypes

\* The metadata of a paper change: nothing is claimed of it until it is compared anew,
\* and what was read of all others stays as good as it was.
LEMMA RewriteKeeps ==
    ASSUME InReview, NEW r \in Papers, Rewrite(r), UNCHANGED <<status, relation, skipped>>,
           \A w \in Workers : Detects(w)' => Detects(w) /\ Subject(w)' = Subject(w)
    PROVE  /\ likeness' \in [Pairs -> Types \union {None}]
           /\ checked' \subseteq Papers
           /\ seen' \in [Workers -> Snapshot \union {None}]
           /\ SnapshotsInPlace' /\ DetectionsInPlace'
<1>1. /\ likeness' \in [Pairs -> Types \union {None}]
      /\ \A pair \in Pairs : r \notin pair => likeness'[pair] = likeness[pair]
  BY DEF Rewrite
<1>2. checked' = checked \ {r} /\ checked \subseteq Papers
  BY DEF Rewrite, InReview, ReviewTypeOK
<1>3. ASSUME NEW w \in Workers, seen[w] # None
      PROVE  /\ seen[w] \in Snapshot
             /\ seen'[w] = [status |-> seen[w].status, fresh |-> seen[w].fresh \ {r}]
             /\ seen'[w] \in Snapshot /\ seen'[w] # None
             /\ seen'[w].status = seen[w].status /\ seen'[w].fresh = seen[w].fresh \ {r}
  <2>1. seen[w] \in Snapshot
    BY <1>3 DEF InReview, ReviewTypeOK
  <2>2. seen'[w] = [seen[w] EXCEPT !.fresh = seen[w].fresh \ {r}]
    BY <1>3 DEF Rewrite
  <2>3. seen'[w] = [status |-> seen[w].status, fresh |-> seen[w].fresh \ {r}]
    BY <2>1, <2>2 DEF Snapshot
  <2>4. seen'[w].status = seen[w].status /\ seen'[w].fresh = seen[w].fresh \ {r}
    BY <2>3
  <2>5. seen'[w] \in Snapshot
    BY <2>1, <2>3 DEF Snapshot
  <2>6. seen'[w] # None
    BY <2>5, ReviewAssumption
  <2> QED
    BY <2>1, <2>3, <2>4, <2>5, <2>6
<1>4. \A w \in Workers : seen[w] = None => seen'[w] = None
  BY DEF Rewrite
<1>5. seen' \in [Workers -> Snapshot \union {None}]
  <2>1. seen' = [w \in Workers |-> seen'[w]]
    BY DEF Rewrite
  <2> QED
    BY <1>3, <1>4, <2>1
<1>6. SnapshotsInPlace'
  <2>1. \A w \in Workers : Detects(w)' => seen'[w] # None
    BY <1>3 DEF InReview, SnapshotsInPlace
  <2>2. ASSUME NEW w \in Workers, seen'[w] # None
        PROVE  \A p \in seen'[w].fresh : status'[p] # "absent" /\ seen'[w].status[p] # "absent"
    <3>1. seen[w] # None
      BY <1>4, <2>2
    <3> QED
      BY <1>3, <3>1 DEF InReview, SnapshotsInPlace
  <2>3. ASSUME NEW v \in Workers, NEW w \in Workers, seen'[v] # None, seen'[w] # None
        PROVE  seen'[v].fresh \subseteq seen'[w].fresh \/ seen'[w].fresh \subseteq seen'[v].fresh
    <3>1. seen[v] # None /\ seen[w] # None
      BY <1>4, <2>3
    <3> QED
      BY <1>3, <3>1 DEF InReview, SnapshotsInPlace
  <2> QED
    BY <2>1, <2>2, <2>3 DEF SnapshotsInPlace
<1>7. ASSUME NEW p \in Papers \ {r}, NEW q \in Papers \ {r}, p # q, Told(p, q)
      PROVE  Told(p, q)'
  <2>1. {p, q} \in Pairs /\ r \notin {p, q}
    BY <1>7, PairOfPapers
  <2>2. likeness'[{p, q}] = likeness[{p, q}]
    BY <1>1, <2>1
  <2> QED
    BY <1>7, <2>2 DEF Told, Decided
<1>8. DetectionsInPlace'
  <2>1. \A p \in checked' : status'[p] # "absent"
    BY <1>2 DEF InReview, DetectionsInPlace
  <2>2. \A p, q \in checked' : p # q => Told(p, q)'
    BY <1>2, <1>7 DEF InReview, DetectionsInPlace
  <2>3. ASSUME NEW w \in Workers, (Detects(w) /\ Subject(w) \in seen[w].fresh)',
               NEW p \in Papers, (p \in checked \ {Subject(w)})'
        PROVE  (Told(p, Subject(w)) \/ p \in seen[w].fresh)'
    <3>1. Detects(w) /\ seen[w] # None
      BY <2>3 DEF InReview, SnapshotsInPlace
    <3>2. PICK q \in Papers : q = Subject(w)
      BY <3>1, Detecting
    <3>3. /\ q = Subject(w)' /\ seen'[w].fresh = seen[w].fresh \ {r}
          /\ p \in checked \ {q} /\ p # r /\ q \in seen[w].fresh \ {r}
      BY <1>2, <1>3, <2>3, <3>1, <3>2
    <3>4. Told(p, q) \/ p \in seen[w].fresh
      BY <3>1, <3>2, <3>3 DEF InReview, DetectionsInPlace
    <3>5. Told(p, q)' \/ p \in seen'[w].fresh
      BY <1>7, <3>3, <3>4
    <3> QED
      BY <3>3, <3>5 DEF Told, Decided
  <2> QED
    BY <1>2, <2>1, <2>2, <2>3 DEF DetectionsInPlace
<1> QED
  BY <1>1, <1>2, <1>5, <1>6, <1>8

\* A step that may rewrite a paper and otherwise only moves pipelines and requests on.
LEMMA RewriteStepKeeps ==
    ASSUME InReview, NEW r \in Papers, Rewrite(r),
           UNCHANGED <<libraryVars, relation, skipped>>,
           stage' \in [Papers -> Stage], converged' \in [Papers -> BOOLEAN],
           pipeline' \in [Papers -> Pc],
           reconcile' \in [Clients -> [paper : Papers, at : ReconcilePc] \union {None}],
           \A p \in Papers : /\ pipeline'[p] # "new" => status[p] # "absent"
                             /\ pipeline'[p] = "detecting" => pipeline[p] = "detecting",
           \A c \in Clients :
               /\ reconcile'[c] # None =>
                    reconcile[c] # None /\ reconcile'[c].paper = reconcile[c].paper
               /\ At(c, "detecting")' => At(c, "detecting")
    PROVE  InReview'
<1> USE DEF libraryVars
<1>1. \A w \in Workers : Detects(w)' => Detects(w) /\ Subject(w)' = Subject(w)
  BY ReviewAssumption DEF Workers, Detects, Subject, At
<1>2. /\ likeness' \in [Pairs -> Types \union {None}]
      /\ checked' \subseteq Papers
      /\ seen' \in [Workers -> Snapshot \union {None}]
      /\ SnapshotsInPlace' /\ DetectionsInPlace'
  BY <1>1, RewriteKeeps
<1>3. ReviewTypeOK'
  BY <1>2 DEF InReview, ReviewTypeOK
<1>4. ImportsBegun'
  BY DEF InReview, ImportsBegun
<1>5. PendingHasReason'
  BY UnchangedReasons DEF InReview
<1> QED
  BY <1>2, <1>3, <1>4, <1>5 DEF InReview

\* The steps of a pipeline before and after its detection.
LEMMA PipelineKeeps ==
    ASSUME InReview, NEW p \in Papers,
           \/ AcceptImport(p) \/ StartExtraction(p) \/ ExtractMetadata(p)
           \/ ExtractionFails(p) \/ NoDoi(p) \/ EnrichPaper(p)
           \/ DetectionFails(p) \/ PipelineStops(p)
    PROVE  InReview'
<1> USE DEF InReview, ReviewTypeOK, ImportsBegun, libraryVars, jobVars, detectionVars,
            Status, Stage, Pc
<1>0. p \in Workers /\ p \notin Clients
  BY ReviewAssumption DEF Workers
<1>1. CASE AcceptImport(p)
  <2>1. ReviewTypeOK'
    BY <1>1 DEF AcceptImport, SetStage, Go
  <2> QED
    BY <1>0, <1>1, <2>1, StepKeeps DEF AcceptImport, SetStage, Go, At
<1>2. CASE StartExtraction(p)
  <2>1. ReviewTypeOK'
    BY <1>2 DEF StartExtraction, SetStage, Go
  <2> QED
    BY <1>0, <1>2, <2>1, StepKeeps DEF StartExtraction, SetStage, Go, At
<1>3. CASE ExtractMetadata(p)
  <2>1. pipeline' \in [Papers -> Pc]
    BY <1>3 DEF ExtractMetadata, Go
  <2> QED
    BY <1>3, <2>1, RewriteStepKeeps DEF ExtractMetadata, Go, At
<1>4. CASE ExtractionFails(p)
  <2>1. pipeline' \in [Papers -> Pc] /\ stage' \in [Papers -> Stage]
    BY <1>4 DEF ExtractionFails, SetStage, Go
  <2>2. CASE Rewrite(p)
    BY <1>4, <2>1, <2>2, RewriteStepKeeps DEF ExtractionFails, Go, At
  <2>3. CASE UNCHANGED <<likeness, checked, seen>>
    <3>1. ReviewTypeOK'
      BY <1>4, <2>1, <2>3 DEF ExtractionFails
    <3> QED
      BY <1>0, <1>4, <2>3, <3>1, StepKeeps DEF ExtractionFails, Go, At
  <2> QED
    BY <1>4, <2>2, <2>3 DEF ExtractionFails
<1>5. CASE NoDoi(p)
  <2>1. ReviewTypeOK'
    BY <1>5 DEF NoDoi, SetStage, Go
  <2> QED
    BY <1>0, <1>5, <2>1, StepKeeps DEF NoDoi, SetStage, Go, At
<1>6. CASE EnrichPaper(p)
  <2>1. pipeline' \in [Papers -> Pc]
    BY <1>6 DEF EnrichPaper, Go
  <2>2. CASE Rewrite(p)
    BY <1>6, <2>1, <2>2, RewriteStepKeeps DEF EnrichPaper, Go, At
  <2>3. CASE UNCHANGED <<likeness, checked, seen>>
    <3>1. ReviewTypeOK'
      BY <1>6, <2>1, <2>3 DEF EnrichPaper
    <3> QED
      BY <1>0, <1>6, <2>3, <3>1, StepKeeps DEF EnrichPaper, Go, At
  <2> QED
    BY <1>6, <2>2, <2>3 DEF EnrichPaper, Enriched
<1>7. CASE DetectionFails(p)
  <2>1. ReviewTypeOK'
    BY <1>0, <1>7 DEF DetectionFails, Forget, Go
  <2> QED
    BY <1>0, <1>7, <2>1, StepKeeps DEF DetectionFails, Forget, Go, At
<1>8. CASE PipelineStops(p)
  <2>1. ReviewTypeOK'
    BY <1>0, <1>8 DEF PipelineStops, Forget, Go
  <2> QED
    BY <1>0, <1>8, <2>1, StepKeeps DEF PipelineStops, Forget, Go, At
<1> QED
  BY <1>1, <1>2, <1>3, <1>4, <1>5, <1>6, <1>7, <1>8

\* A detection writes its relations and statuses and keeps their types.
LEMMA CommitTypes ==
    ASSUME InReview, NEW w \in Workers, NEW p \in Papers, NEW score, CommitDetection(w, p, score),
           Forget(w)
    PROVE  /\ relation' \in [Pairs -> [Types -> RelationStatus]]
           /\ status' \in [Papers -> Status]
           /\ checked' \subseteq Papers
           /\ skipped' \subseteq Pairs
           /\ seen' \in [Workers -> Snapshot \union {None}]
           /\ \A q \in Papers : status[q] # "absent" => status'[q] # "absent"
<1>1. relation' \in [Pairs -> [Types -> RelationStatus]]
  BY DEF CommitDetection, InReview, ReviewTypeOK, RelationStatus
<1>2. /\ status' \in [Papers -> Status]
      /\ \A q \in Papers : status[q] # "absent" => status'[q] # "absent"
  BY DEF CommitDetection, InReview, ReviewTypeOK, Status
<1>3. checked' \subseteq Papers
  BY DEF CommitDetection, InReview, ReviewTypeOK
<1>4. skipped' \subseteq Pairs
  BY PairOfPapers DEF CommitDetection, InReview, ReviewTypeOK
<1>5. seen' \in [Workers -> Snapshot \union {None}]
  BY DEF Forget, InReview, ReviewTypeOK
<1> QED
  BY <1>1, <1>2, <1>3, <1>4, <1>5

\* What a worker reads is a snapshot.
LEMMA ReadTypes ==
    ASSUME InReview, NEW w \in Workers, ReadPapers(w)
    PROVE  seen' \in [Workers -> Snapshot \union {None}]
<1>1. [status |-> status, fresh |-> {p \in Papers : status[p] # "absent"}] \in Snapshot
  BY DEF InReview, ReviewTypeOK, Snapshot
<1> QED
  BY <1>1 DEF ReadPapers, InReview, ReviewTypeOK

\* The steps that begin and end the detection of a pipeline.
LEMMA PipelineDetects ==
    ASSUME InReview, NEW p \in Papers, StartDetection(p) \/ FinishDetection(p)
    PROVE  InReview'
<1> USE DEF InReview, ReviewTypeOK, libraryVars, jobVars, detectionVars
<1>0. /\ p \in Workers /\ p \notin Clients
      /\ \A v \in Workers : v \in Papers \/ (v \in Clients /\ v \notin Papers)
  BY ReviewAssumption DEF Workers
<1>1. CASE StartDetection(p) /\ status[p] = "deleted"
  <2>1. ReviewTypeOK'
    BY <1>1 DEF StartDetection, SetStage, Go, Stage, Pc
  <2> QED
    BY <1>0, <1>1, <2>1, StepKeeps DEF StartDetection, SetStage, Go, At, ImportsBegun
<1>2. CASE StartDetection(p) /\ status[p] # "deleted"
  <2>1. ReadPapers(p) /\ Go(p, "detecting") /\ SetStage(p, "open")
        /\ UNCHANGED <<likeness, status, trashed, converged, relation, reconcile,
                       checked, skipped>>
        /\ pipeline[p] = "enriched"
    BY <1>2 DEF StartDetection
  <2>2. ReviewTypeOK'
    <3>1. seen' \in [Workers -> Snapshot \union {None}]
      BY <1>0, <2>1, ReadTypes
    <3> QED
      BY <2>1, <3>1 DEF SetStage, Go, Stage, Pc
  <2>3. Detects(p)' /\ Subject(p)' = p
    BY <2>1 DEF Detects, Subject, Go
  <2>4. \A v \in Workers \ {p} : Detects(v)' => Detects(v) /\ Subject(v)' = Subject(v)
    BY <1>0, <2>1 DEF Detects, Subject, Go, At
  <2>5. SnapshotsInPlace' /\ DetectionsInPlace'
    BY <1>0, <2>1, <2>2, <2>3, <2>4, ReadKeeps
  <2>6. ImportsBegun'
    BY <2>1 DEF ImportsBegun, Go
  <2>7. PendingHasReason'
    BY <2>1 DEF PendingHasReason, PendingTypes
  <2> QED
    BY <2>2, <2>5, <2>6, <2>7
<1>3. CASE FinishDetection(p)
  <2>1. PICK score \in Scores(p, p) :
           /\ CommitDetection(p, p, score) /\ Forget(p) /\ Go(p, "over")
           /\ SetStage(p, IF Created(p, p, score) # {} THEN "open" ELSE "completed")
           /\ UNCHANGED <<likeness, trashed, converged, reconcile>>
           /\ pipeline[p] = "detecting"
    BY <1>3 DEF FinishDetection
  <2>2. ReviewTypeOK'
    <3>1. stage' \in [Papers -> Stage] /\ pipeline' \in [Papers -> Pc]
      BY <2>1 DEF SetStage, Go, Stage, Pc
    <3> QED
      BY <1>0, <2>1, <3>1, CommitTypes
  <2>3. Detects(p) /\ ~Detects(p)' /\ Subject(p) = p
    BY <2>1 DEF Detects, Subject, Go
  <2>4. \A v \in Workers \ {p} : Detects(v)' => Detects(v) /\ Subject(v)' = Subject(v)
    BY <1>0, <2>1 DEF Detects, Subject, Go, At
  <2>5. SnapshotsInPlace' /\ DetectionsInPlace' /\ PendingHasReason'
    BY <1>0, <2>1, <2>2, <2>3, <2>4, CommitKeeps
  <2>6. ImportsBegun'
    <3>1. \A q \in Papers : status[q] # "absent" => status'[q] # "absent"
      BY <1>0, <2>1, CommitTypes
    <3> QED
      BY <2>1, <3>1 DEF ImportsBegun, Go
  <2> QED
    BY <2>2, <2>5, <2>6
<1> QED
  BY <1>1, <1>2, <1>3

\* The steps of a reconcile request.
LEMMA ReconcileKeeps ==
    ASSUME InReview, NEW c \in Clients, Reconcile(c)
    PROVE  InReview'
<1> USE DEF InReview, ReviewTypeOK, libraryVars, jobVars, detectionVars
<1>0. /\ c \in Workers /\ c \notin Papers
      /\ \A v \in Workers : v \in Papers \/ (v \in Clients /\ v \notin Papers)
  BY ReviewAssumption DEF Workers
<1>1. ASSUME NEW p \in Papers, StartReconcile(c, p)
      PROVE  InReview'
  <2>1. ReviewTypeOK'
    BY <1>1 DEF StartReconcile, ReconcilePc
  <2>2. reconcile'[c].paper = p /\ reconcile'[c].at # "detecting"
        /\ \A d \in Clients \ {c} : reconcile'[d] = reconcile[d]
    BY <1>1 DEF StartReconcile
  <2> QED
    BY <1>0, <1>1, <2>1, <2>2, StepKeeps DEF StartReconcile, At, ImportsBegun
<1>2. ASSUME NEW at, reconcile[c] # None, Step(c, at)
      PROVE  /\ reconcile[c] \in [paper : Papers, at : ReconcilePc]
             /\ reconcile'[c] = [paper |-> reconcile[c].paper, at |-> at]
             /\ \A d \in Clients \ {c} : reconcile'[d] = reconcile[d]
             /\ at \in ReconcilePc =>
                  reconcile' \in [Clients -> [paper : Papers, at : ReconcilePc] \union {None}]
  <2>1. reconcile[c] \in [paper : Papers, at : ReconcilePc]
    BY <1>2
  <2>2. reconcile' = [reconcile EXCEPT ![c] = [paper |-> reconcile[c].paper, at |-> at]]
    <3>1. PICK r \in [paper : Papers, at : ReconcilePc] : r = reconcile[c]
      BY <2>1
    <3>2. [r EXCEPT !.at = at] = [paper |-> r.paper, at |-> at]
      OBVIOUS
    <3>3. reconcile' = [reconcile EXCEPT ![c] = [r EXCEPT !.at = at]]
      BY <1>2, <3>1 DEF Step
    <3> QED
      BY <3>1, <3>2, <3>3
  <2> QED
    BY <2>1, <2>2
<1>3. CASE ReconcileExtracts(c)
  <2>1. reconcile[c] # None /\ Step(c, "recording") /\ Rewrite(reconcile[c].paper)
    BY <1>3 DEF ReconcileExtracts, At
  <2>2. /\ reconcile[c].paper \in Papers
        /\ reconcile'[c] = [paper |-> reconcile[c].paper, at |-> "recording"]
        /\ \A d \in Clients \ {c} : reconcile'[d] = reconcile[d]
        /\ reconcile' \in [Clients -> [paper : Papers, at : ReconcilePc] \union {None}]
    BY <1>2, <2>1 DEF ReconcilePc
  <2>3. reconcile'[c].paper = reconcile[c].paper /\ reconcile'[c].at = "recording"
    BY <2>2
  <2>4. /\ UNCHANGED <<libraryVars, relation, skipped>>
        /\ stage' \in [Papers -> Stage] /\ converged' \in [Papers -> BOOLEAN]
        /\ pipeline' \in [Papers -> Pc] /\ UNCHANGED pipeline
    BY <1>3 DEF ReconcileExtracts
  <2> QED
    BY <2>1, <2>2, <2>3, <2>4, RewriteStepKeeps DEF At, ImportsBegun
<1>4. CASE RecordConvergence(c)
  <2>1. reconcile[c] # None /\ Step(c, "enriching") /\ reconcile[c].at = "recording"
    BY <1>4 DEF RecordConvergence, At
  <2>2. /\ reconcile[c].paper \in Papers
        /\ reconcile'[c] = [paper |-> reconcile[c].paper, at |-> "enriching"]
        /\ \A d \in Clients \ {c} : reconcile'[d] = reconcile[d]
        /\ reconcile' \in [Clients -> [paper : Papers, at : ReconcilePc] \union {None}]
    BY <1>2, <2>1 DEF ReconcilePc
  <2>3. ReviewTypeOK'
    BY <1>4, <2>2 DEF RecordConvergence
  <2>4. reconcile'[c].paper = reconcile[c].paper /\ reconcile'[c].at = "enriching"
    BY <2>2
  <2> QED
    BY <1>4, <2>1, <2>2, <2>3, <2>4, StepKeeps DEF RecordConvergence, At, ImportsBegun
<1>5. CASE ReconcileReads(c)
  <2>1. /\ reconcile[c] # None /\ Step(c, "detecting") /\ ReadPapers(c)
        /\ UNCHANGED <<likeness, status, trashed, stage, converged, relation, pipeline,
                       checked, skipped>>
    BY <1>5 DEF ReconcileReads, At
  <2>2. /\ reconcile[c].paper \in Papers
        /\ reconcile'[c] = [paper |-> reconcile[c].paper, at |-> "detecting"]
        /\ \A d \in Clients \ {c} : reconcile'[d] = reconcile[d]
        /\ reconcile' \in [Clients -> [paper : Papers, at : ReconcilePc] \union {None}]
    BY <1>2, <2>1 DEF ReconcilePc
  <2>3. PICK p \in Papers : p = reconcile[c].paper
    BY <2>2
  <2>4. ReviewTypeOK'
    BY <1>0, <2>1, <2>2, ReadTypes
  <2>5. reconcile'[c].paper = p /\ reconcile'[c].at = "detecting" /\ reconcile'[c] # None
    <3>1. [paper |-> p, at |-> "detecting"] \in [paper : Papers, at : ReconcilePc]
      BY DEF ReconcilePc
    <3> QED
      BY <2>2, <2>3, <3>1, ReviewAssumption
  <2>6. Detects(c)' /\ Subject(c)' = p
    BY <1>0, <2>5 DEF Detects, Subject, At
  <2>7. \A v \in Workers \ {c} : Detects(v)' => Detects(v) /\ Subject(v)' = Subject(v)
    BY <1>0, <2>1, <2>2 DEF Detects, Subject, At
  <2>8. SnapshotsInPlace' /\ DetectionsInPlace'
    BY <1>0, <2>1, <2>4, <2>6, <2>7, ReadKeeps
  <2>9. ImportsBegun'
    BY <2>1, <2>2, <2>3, <2>5 DEF ImportsBegun
  <2>10. PendingHasReason'
    BY <2>1 DEF PendingHasReason, PendingTypes
  <2> QED
    BY <2>4, <2>8, <2>9, <2>10
<1>6. CASE ReconcileDetects(c)
  <2>1. /\ At(c, "detecting") /\ Forget(c) /\ Return(c)
        /\ UNCHANGED <<likeness, trashed, stage, converged, pipeline>>
    BY <1>6 DEF ReconcileDetects
  <2>2. PICK p \in Papers : p = reconcile[c].paper
    BY <2>1 DEF At
  <2>9. PICK score \in Scores(c, p) : CommitDetection(c, p, score)
    BY <1>6, <2>2 DEF ReconcileDetects
  <2>3. /\ reconcile' \in [Clients -> [paper : Papers, at : ReconcilePc] \union {None}]
        /\ reconcile'[c] = None
        /\ \A d \in Clients \ {c} : reconcile'[d] = reconcile[d]
    BY <2>1 DEF Return
  <2>4. ReviewTypeOK'
    BY <1>0, <2>1, <2>2, <2>3, <2>9, CommitTypes
  <2>5. Detects(c) /\ ~Detects(c)' /\ Subject(c) = p
    BY <1>0, <2>1, <2>2, <2>3 DEF Detects, Subject, At
  <2>6. \A v \in Workers \ {c} : Detects(v)' => Detects(v) /\ Subject(v)' = Subject(v)
    BY <1>0, <2>1, <2>3 DEF Detects, Subject, At
  <2>7. SnapshotsInPlace' /\ DetectionsInPlace' /\ PendingHasReason'
    BY <1>0, <2>1, <2>2, <2>4, <2>5, <2>6, <2>9, CommitKeeps
  <2>8. ImportsBegun'
    <3>1. \A q \in Papers : status[q] # "absent" => status'[q] # "absent"
      BY <1>0, <2>1, <2>2, <2>9, CommitTypes
    <3> QED
      BY <2>1, <2>3, <3>1 DEF ImportsBegun
  <2> QED
    BY <2>4, <2>7, <2>8
<1>7. CASE ReconcileFails(c)
  <2>1. /\ reconcile' \in [Clients -> [paper : Papers, at : ReconcilePc] \union {None}]
        /\ reconcile'[c] = None
        /\ \A d \in Clients \ {c} : reconcile'[d] = reconcile[d]
    BY <1>7 DEF ReconcileFails, Return
  <2>2. /\ seen' \in [Workers -> Snapshot \union {None}]
        /\ seen'[c] = None
        /\ \A v \in Workers \ {c} : seen'[v] = seen[v]
    BY <1>0, <1>7 DEF ReconcileFails, Forget
  <2>3. ReviewTypeOK'
    BY <1>7, <2>1, <2>2 DEF ReconcileFails
  <2> QED
    BY <1>0, <1>7, <2>1, <2>2, <2>3, StepKeeps DEF ReconcileFails, At, ImportsBegun, Workers
<1>8. CASE ReconcileEnriches(c)
  <2>1. reconcile[c] # None /\ Step(c, "checking")
    BY <1>8 DEF ReconcileEnriches, At
  <2>2. /\ reconcile[c].paper \in Papers
        /\ reconcile'[c] = [paper |-> reconcile[c].paper, at |-> "checking"]
        /\ \A d \in Clients \ {c} : reconcile'[d] = reconcile[d]
        /\ reconcile' \in [Clients -> [paper : Papers, at : ReconcilePc] \union {None}]
    BY <1>2, <2>1 DEF ReconcilePc
  <2>3. reconcile'[c].paper = reconcile[c].paper /\ reconcile'[c].at = "checking"
    BY <2>2
  <2>4. /\ UNCHANGED <<libraryVars, relation, skipped, stage, converged>>
        /\ stage' \in [Papers -> Stage] /\ converged' \in [Papers -> BOOLEAN]
        /\ pipeline' \in [Papers -> Pc] /\ UNCHANGED pipeline
    BY <1>8 DEF ReconcileEnriches
  <2>5. CASE Rewrite(reconcile[c].paper)
    BY <2>1, <2>2, <2>3, <2>4, <2>5, RewriteStepKeeps DEF At, ImportsBegun
  <2>6. CASE UNCHANGED <<likeness, checked, seen>>
    <3>1. ReviewTypeOK'
      BY <2>2, <2>4, <2>6
    <3> QED
      BY <2>1, <2>2, <2>3, <2>4, <2>6, <3>1, StepKeeps DEF At, ImportsBegun
  <2> QED
    BY <1>8, <2>5, <2>6 DEF ReconcileEnriches, Enriched
<1> QED
  BY <1>1, <1>3, <1>4, <1>5, <1>6, <1>7, <1>8 DEF Reconcile

\* A decision changes the relations of one pair, and some relation of it is left.
LEMMA DecisionKeeps ==
    ASSUME InReview, NEW pair \in Pairs, NEW t \in Types,
           Resolve(pair, t) \/ ResolveDifferentVersion(pair, t)
    PROVE  InReview'
<1> USE DEF InReview, ReviewTypeOK, jobVars, detectionVars
<1>1. /\ relation' \in [Pairs -> [Types -> RelationStatus]]
      /\ \A other \in Pairs \ {pair} : relation'[other] = relation[other]
      /\ \E u \in Types : relation'[pair][u] = "decided"
      /\ \A u \in Types : relation'[pair][u] = "pending" => relation[pair][u] = "pending"
  <2>1. CASE Resolve(pair, t)
    <3>1. relation' = [relation EXCEPT ![pair] = [relation[pair] EXCEPT ![t] = "decided"]]
      BY <2>1 DEF Resolve
    <3>2. [relation[pair] EXCEPT ![t] = "decided"] \in [Types -> RelationStatus]
      BY DEF RelationStatus
    <3> QED
      BY <3>1, <3>2
  <2>2. CASE ResolveDifferentVersion(pair, t)
    <3>1. PICK r : r = [u \in Types |-> IF u = "possible_version" THEN "decided"
                                        ELSE IF u = t THEN "absent" ELSE relation[pair][u]]
      OBVIOUS
    <3>2. relation' = [relation EXCEPT ![pair] = r]
      BY <2>2, <3>1 DEF ResolveDifferentVersion
    <3>3. r \in [Types -> RelationStatus]
      BY <3>1 DEF RelationStatus
    <3>4. "possible_version" \in Types /\ r["possible_version"] = "decided"
      BY <3>1 DEF Types
    <3>5. \A u \in Types : r[u] = "pending" => relation[pair][u] = "pending"
      BY <3>1
    <3> QED
      BY <3>2, <3>3, <3>4, <3>5
  <2> QED
    BY <2>1, <2>2
<1>2. /\ Converge(pair)
      /\ UNCHANGED <<likeness, trashed, stage, converged, pipeline, reconcile, seen,
                     checked, skipped>>
  BY DEF Resolve, ResolveDifferentVersion
<1>3. /\ status' \in [Papers -> Status]
      /\ \A p \in Papers : status[p] # "absent" => status'[p] # "absent"
  BY <1>2 DEF Converge, Status
<1>4. ReviewTypeOK'
  BY <1>1, <1>2, <1>3
<1>5. \A w \in Workers : (Detects(w)' <=> Detects(w)) /\ Subject(w)' = Subject(w)
  BY <1>2 DEF Detects, Subject, At
<1>6. SnapshotsInPlace' /\ DetectionsInPlace'
  BY <1>1, <1>2, <1>3, <1>4, <1>5, QuietKeeps
<1>7. PendingHasReason'
  BY <1>1, <1>2, <1>4, ConvergeKeeps
<1>8. ImportsBegun'
  BY <1>2, <1>3 DEF ImportsBegun
<1> QED
  BY <1>4, <1>6, <1>7, <1>8

\* Deletes and restores compare nothing and let no paper wait.
LEMMA DeletionKeeps ==
    ASSUME InReview, NEW p \in Papers, SoftDelete(p) \/ Restore(p)
    PROVE  InReview'
<1> USE DEF InReview, ReviewTypeOK, jobVars, detectionVars, Status
<1>1. CASE SoftDelete(p)
  <2>1. ReviewTypeOK'
    BY <1>1 DEF SoftDelete
  <2> QED
    BY <1>1, <2>1, StepKeeps DEF SoftDelete, At, ImportsBegun
<1>2. CASE Restore(p)
  <2>1. ReviewTypeOK'
    BY <1>2 DEF Restore
  <2> QED
    BY <1>2, <2>1, StepKeeps DEF Restore, At, ImportsBegun
<1> QED
  BY <1>1, <1>2

\* In an empty library nothing was compared.
LEMMA ReviewBegins ==
    ASSUME ReviewInit
    PROVE  InReview
<1> USE DEF ReviewInit
<1>1. ReviewTypeOK
  BY DEF ReviewTypeOK, Status, Stage, Pc, RelationStatus
<1>2. ImportsBegun
  BY DEF ImportsBegun
<1>3. SnapshotsInPlace
  BY DEF SnapshotsInPlace, Detects, At, Workers
<1>4. DetectionsInPlace
  BY DEF DetectionsInPlace, Detects, At, Workers
<1>5. PendingHasReason
  BY DEF PendingHasReason
<1> QED
  BY <1>1, <1>2, <1>3, <1>4, <1>5 DEF InReview

\* Every step of pipelines, requests, edits and users keeps the invariant of the review.
LEMMA ReviewPreserved == InReview /\ [ReviewNext]_reviewVars => InReview'
<1> SUFFICES ASSUME InReview, [ReviewNext]_reviewVars
             PROVE  InReview'
  OBVIOUS
<1>1. ASSUME NEW p \in Papers, Pipeline(p)
      PROVE  InReview'
  BY <1>1, PipelineKeeps, PipelineDetects DEF Pipeline
<1>2. ASSUME NEW c \in Clients, Reconcile(c)
      PROVE  InReview'
  BY <1>2, ReconcileKeeps
<1>3. CASE Decide
  BY <1>3, DecisionKeeps DEF Decide
<1>4. ASSUME NEW p \in Papers, SoftDelete(p) \/ Restore(p)
      PROVE  InReview'
  BY <1>4, DeletionKeeps
<1>6. ASSUME NEW p \in Papers, ChangeMetadata(p)
      PROVE  InReview'
  BY <1>6, RewriteStepKeeps DEF ChangeMetadata, InReview, ReviewTypeOK, ImportsBegun, jobVars, At
<1>5. CASE UNCHANGED reviewVars
  <2> USE DEF reviewVars, libraryVars, jobVars, detectionVars
  <2>1. ReviewTypeOK'
    BY <1>5 DEF InReview, ReviewTypeOK
  <2> QED
    BY <1>5, <2>1, StepKeeps DEF InReview, ImportsBegun, At
<1> QED
  BY <1>1, <1>2, <1>3, <1>4, <1>5, <1>6 DEF ReviewNext

\* The inductive invariant of the review: of two detections the later one holds fresh
\* all that the earlier one does, and every two papers compared as they are now are told
\* apart or about to be.
THEOREM ReviewInvariant == ReviewSpec => []InReview
<1>1. ReviewInit => InReview
  BY ReviewBegins
<1>2. InReview /\ [ReviewNext]_reviewVars => InReview'
  BY ReviewPreserved
<1> QED
  BY <1>1, <1>2, PTL DEF ReviewSpec

\* The states of the library, of the pipelines and of the detections have their types.
THEOREM ReviewTypeCorrect == ReviewSpec => []ReviewTypeOK
<1>1. InReview => ReviewTypeOK
  BY DEF InReview
<1> QED
  BY <1>1, ReviewInvariant, PTL

\* A paper that waits for a review has a relation somebody can decide: a detection makes
\* papers wait together with a relation of theirs, and a decision that takes the last one
\* of a paper away lets it go.
THEOREM PendingIsReviewable == ReviewSpec => []PendingHasReason
<1>1. InReview => PendingHasReason
  BY DEF InReview
<1> QED
  BY <1>1, ReviewInvariant, PTL

\* Of two papers that look alike and were compared as they look now one has found the
\* other, and a critical pair is not ready before somebody has decided: its relation is
\* pending under the type that blocks.
THEOREM PairsFound == ReviewSpec => []NoPairMissed
<1>1. ASSUME InReview
      PROVE  NoPairMissed
  <2> SUFFICES ASSUME NEW p \in checked, NEW q \in checked,
                      p # q, {p, q} \notin skipped, likeness[{p, q}] # None
               PROVE  /\ \/ relation[{p, q}][likeness[{p, q}]] # "absent"
                         \/ Decided(p, q)
                      /\ likeness[{p, q}] \in Critical /\ Ready(p) /\ Ready(q) => Decided(p, q)
    BY DEF NoPairMissed, Decided
  <2>1. p \in Papers /\ q \in Papers /\ {p, q} \in Pairs
    BY <1>1, PairOfPapers DEF InReview, ReviewTypeOK
  <2>2. relation[{p, q}][likeness[{p, q}]] # "absent" \/ Decided(p, q)
    BY <1>1 DEF InReview, DetectionsInPlace, Told
  <2>3. ASSUME likeness[{p, q}] \in Critical, Ready(p),
               relation[{p, q}][likeness[{p, q}]] # "absent"
        PROVE  Decided(p, q)
    <3>1. likeness[{p, q}] \in Types
      BY <1>1, <2>1 DEF InReview, ReviewTypeOK
    <3>2. relation[{p, q}][likeness[{p, q}]] # "pending"
      BY <2>1, <2>3, <3>1 DEF Ready, PendingTypes
    <3>3. relation[{p, q}][likeness[{p, q}]] \in RelationStatus
      BY <1>1, <2>1, <3>1 DEF InReview, ReviewTypeOK
    <3> QED
      BY <2>3, <3>1, <3>2, <3>3 DEF Decided, RelationStatus
  <2> QED
    BY <2>2, <2>3
<1> QED
  BY <1>1, ReviewInvariant, PTL

-----------------------------------------------------------------------------
(* PaperMetadata.                                                          *)

\* What the columns of a record will be once an UPDATE is committed.
Becomes(f, p, v) == IF v = None THEN f[p] ELSE v

\* An UPDATE leaves the record within its budget, and with some of it left for a request.
Affords(p, update, next) ==
    LET a == Becomes(attempts, p, update.attempts) IN
    /\ a <= MaxAttempts
    /\ Becomes(waiting, p, update.waiting) => a < MaxAttempts
    /\ next = "request" => a < MaxAttempts

\* Unless requests have crowded, one at most is under way, and its answer will count
\* as an attempt the budget still has.
BudgetInPlace ==
    \A p \in Providers : ~crowded[p] =>
        /\ \A c, d \in Clients : Busy(c, p) /\ Busy(d, p) => c = d
        /\ \A c \in Clients : Busy(c, p) /\ Does(c, "request") => attempts[p] < MaxAttempts
        /\ \A c \in Clients : Busy(c, p) /\ Does(c, "update") =>
              Affords(p, request[c].update, request[c].next)

\* A paper that had a title, or a candidate to take it from, has one.
Titled ==
    /\ confirmed # <<>> \/ (\E p \in Providers : offered[p] # <<>>) => title # None
    /\ \A c \in Clients : request[c].at \in {"extract", "edit", "merge"} =>
          (request[c].seen # None => title # None)

\* What a merge will insert are titles.
MergesTitles ==
    \A c \in Clients : Does(c, "merge") =>
        \A p \in request[c].add : request[c].parsed[p] \in Titles

\* The inductive invariant of metadata.
InMetadata ==
    /\ MetadataTypeOK
    /\ BudgetInPlace
    /\ BudgetKept
    /\ MergesTitles
    /\ Titled
    /\ TitleIsSelected

-----------------------------------------------------------------------------
(* Lemmas about the selection.                                             *)

\* A set of ranks that is not empty has a smallest one.
LEMMA MinExists ==
    ASSUME NEW S \in SUBSET Nat, S # {}
    PROVE  \E m \in S : \A x \in S : m <= x
<1>1. \E m \in S : \A y \in S : ~(<<y, m>> \in OpToRel(<, Nat))
  BY NatLessThanWellFounded, WFMin, Zenon
<1>2. \A x, y \in Nat : x < y => <<x, y>> \in OpToRel(<, Nat)
  BY DEF OpToRel
<1>3. \A x, y \in Nat : ~(x < y) => y <= x
  OBVIOUS
<1> QED
  BY <1>1, <1>2, <1>3

\* The smallest of some ranks is one of them.
LEMMA MinIn ==
    ASSUME NEW S \in SUBSET Nat, S # {}
    PROVE  Min(S) \in S
BY MinExists DEF Min

\* The best ranked candidate of a source is one of its values.
LEMMA LastIn ==
    ASSUME NEW T, NEW s \in Seq(T), s # <<>>
    PROVE  Last(s) \in T
BY DEF Last

\* A candidate that is inserted leaves a source of titles, and not an empty one.
LEMMA InsertedTitles ==
    ASSUME NEW s \in Seq(Titles), NEW t \in Titles, NEW r \in Inserted(s, t)
    PROVE  r \in Seq(Titles) /\ r # <<>>
<1>1. CASE r = Append(s, t)
  BY <1>1
<1>2. CASE s # <<>> /\ r = Append(Front(s), t) \o <<Last(s)>>
  <2>1. Last(s) \in Titles
    BY <1>2, LastIn
  <2>2. Front(s) \in Seq(Titles)
    BY <1>2 DEF Front
  <2>3. Append(Front(s), t) \in Seq(Titles) /\ <<Last(s)>> \in Seq(Titles) /\ Len(<<Last(s)>>) = 1
    BY <2>1, <2>2
  <2>4. PICK u \in Seq(Titles), v \in Seq(Titles) : r = u \o v /\ Len(v) = 1
    BY <1>2, <2>3
  <2>5. r \in Seq(Titles) /\ Len(r) = Len(u) + Len(v)
    BY <2>4, ConcatProperties
  <2> QED
    BY <2>4, <2>5
<1> QED
  BY <1>1, <1>2 DEF Inserted

\* The best candidate is a title once the user or a provider has given one.
LEMMA BestTitle ==
    ASSUME NEW manual \in Seq(Titles), NEW byProvider \in [Providers -> Seq(Titles)],
           NEW fromPdf, NEW t \in Best(manual, byProvider, fromPdf)
    PROVE  /\ t \in Titles \union {None}
           /\ manual # <<>> \/ (\E p \in Providers : byProvider[p] # <<>>) => t \in Titles
<1>1. CASE manual # <<>>
  BY <1>1, LastIn DEF Best
<1>2. CASE manual = <<>>
  <2> DEFINE ranks == {i \in DOMAIN Cascade : byProvider[Cascade[i]] # <<>>}
  <2>1. Cascade \in Seq(Providers) /\ DOMAIN Cascade \subseteq Nat
    BY MetadataAssumption
  <2>2. CASE ranks # {}
    <3>1. Min(ranks) \in ranks
      BY <2>1, <2>2, MinIn
    <3>2. Last(byProvider[Cascade[Min(ranks)]]) \in Titles
      <4>1. PICK i \in DOMAIN Cascade : i = Min(ranks) /\ byProvider[Cascade[i]] # <<>>
        BY <3>1
      <4>2. Cascade[i] \in Providers
        BY <2>1
      <4>3. byProvider[Cascade[i]] \in Seq(Titles)
        BY <4>2
      <4> QED
        BY <4>1, <4>3, LastIn
    <3> QED
      BY <1>2, <2>2, <3>2 DEF Best
  <2>3. CASE ranks = {}
    <3>1. \A p \in Providers : byProvider[p] = <<>>
      BY <2>3 DEF Providers, ToSet
    <3> QED
      BY <1>2, <2>3, <3>1 DEF Best
  <2> QED
    BY <2>2, <2>3
<1> QED
  BY <1>1, <1>2

\* Where the best candidate comes from is not affected by the candidates of the PDF.
LEMMA BestWithoutPdf ==
    ASSUME NEW manual, NEW byProvider \in [Providers -> Seq(Titles)], NEW one, NEW other,
           manual # <<>> \/ (\E p \in Providers : byProvider[p] # <<>>)
    PROVE  Best(manual, byProvider, one) = Best(manual, byProvider, other)
<1> DEFINE ranks == {i \in DOMAIN Cascade : byProvider[Cascade[i]] # <<>>}
<1>1. manual # <<>> \/ ranks # {}
  BY DEF Providers, ToSet
<1> QED
  BY <1>1 DEF Best

-----------------------------------------------------------------------------
(* The inductive invariant of metadata.                                    *)

\* What a request knows, by what it does.
LEMMA RequestKinds ==
    ASSUME MetadataTypeOK, NEW c \in Clients
    PROVE  /\ request[c].at \in {"ask", "request", "parse"} => request[c] \in Asking
           /\ request[c].at = "update" => request[c] \in Updating
           /\ request[c].at = "extract" => request[c] \in Extracting
           /\ request[c].at = "edit" => request[c] \in Editing
           /\ request[c].at = "merge" => request[c] \in Merging
<1>1. request[c] \in Requests
  BY DEF MetadataTypeOK
<1>2. /\ Idle.at = "idle"
      /\ \A x \in Asking : x.at \in {"ask", "request", "parse"}
      /\ \A x \in Updating : x.at = "update"
      /\ \A x \in Extracting : x.at = "extract"
      /\ \A x \in Editing : x.at = "edit"
      /\ \A x \in Merging : x.at = "merge"
  BY DEF Idle, Asking, Updating, Extracting, Editing, Merging
<1> QED
  BY <1>1, <1>2 DEF Requests

\* Records that stay, but for a retry that comes due, and no new request: the budget is
\* kept, and what is under way can still be afforded.
LEMMA BudgetStays ==
    ASSUME InMetadata, UNCHANGED <<attempts, crowded>>,
           waiting' \in [Providers -> BOOLEAN], \A p \in Providers : waiting'[p] => waiting[p],
           \A c \in Clients : request'[c].at \in {"update", "request"} => request'[c] = request[c]
    PROVE  BudgetInPlace' /\ BudgetKept'
<1>1. ASSUME NEW p \in Providers, NEW update, NEW next, Affords(p, update, next)
      PROVE  Affords(p, update, next)'
  BY <1>1 DEF Affords, Becomes
<1>2. \A c \in Clients, p \in Providers : Busy(c, p)' => Busy(c, p) /\ request'[c] = request[c]
  BY DEF Busy
<1>3. BudgetInPlace'
  BY <1>1, <1>2 DEF InMetadata, BudgetInPlace, Does
<1>4. BudgetKept'
  BY DEF InMetadata, BudgetKept
<1> QED
  BY <1>3, <1>4

\* A title that is written stays, and the selection without new candidates is right, or
\* the session was blind.
LEMMA SelectionKeeps ==
    ASSUME InMetadata, NEW loaded \in Titles \union {None}, NEW chosen \in Titles \union {None},
           NEW astray \in BOOLEAN, Materialize(loaded, chosen, astray)
    PROVE  /\ title' \in Titles \union {None}
           /\ blind' \in BOOLEAN
           /\ title # None => title' # None
           /\ chosen # None /\ (loaded # None => title # None) => title' # None
           /\ ~blind' => /\ ~astray
                         /\ chosen \in {None, loaded} => ~blind /\ title' = title
                         /\ chosen \notin {None, loaded} => title' = chosen
BY MetadataAssumption DEF InMetadata, MetadataTypeOK, Materialize, Written

\* A request that goes on without writing a title, a candidate or a record.
LEMMA LookKeeps ==
    ASSUME InMetadata, MetadataTypeOK', UNCHANGED <<title, confirmed, offered, heuristic, blind>>,
           UNCHANGED <<attempts, crowded>>,
           \A p \in Providers : waiting'[p] => waiting[p],
           \A c \in Clients : request'[c].at \in {"update", "request"} => request'[c] = request[c],
           \A c \in Clients : \/ request'[c] = request[c]
                              \/ request'[c].at \in {"idle", "ask", "request", "parse"}
                              \/ /\ request'[c].seen = title
                                 /\ request'[c].at = "merge" =>
                                      \A p \in request'[c].add : request'[c].parsed[p] \in Titles
    PROVE  InMetadata'
<1>1. BudgetInPlace' /\ BudgetKept'
  BY BudgetStays DEF MetadataTypeOK
<1>2. Titled'
  BY DEF InMetadata, Titled
<1>3. MergesTitles'
  BY DEF InMetadata, MergesTitles, Does
<1>4. TitleIsSelected'
  BY DEF InMetadata, TitleIsSelected
<1> QED
  BY <1>1, <1>2, <1>3, <1>4 DEF InMetadata

\* A request that writes and ends: titles stay, and the others go on as they were.
LEMMA WriteKeeps ==
    ASSUME InMetadata, MetadataTypeOK', NEW c \in Clients, Goes(c, Idle),
           UNCHANGED <<recordVars, crowded>>,
           title # None => title' # None,
           confirmed' # <<>> \/ (\E p \in Providers : offered'[p] # <<>>) => title' # None,
           TitleIsSelected'
    PROVE  InMetadata'
<1>1. request'[c].at = "idle" /\ \A d \in Clients \ {c} : request'[d] = request[d]
  BY DEF Goes, Idle, InMetadata, MetadataTypeOK
<1>2. BudgetInPlace' /\ BudgetKept'
  BY <1>1, BudgetStays DEF recordVars, InMetadata, MetadataTypeOK
<1>3. Titled'
  BY <1>1 DEF InMetadata, Titled
<1>4. MergesTitles'
  BY <1>1 DEF InMetadata, MergesTitles, Does
<1> QED
  BY <1>2, <1>3, <1>4 DEF InMetadata

-----------------------------------------------------------------------------
(* The steps of the requests.                                              *)

\* A request that goes on to what it may be about keeps the types; the others stay.
LEMMA GoesTypes ==
    ASSUME MetadataTypeOK, NEW c \in Clients, NEW x, Goes(c, x),
           x \in Requests
    PROVE  /\ request' \in [Clients -> Requests]
           /\ request'[c] = x
           /\ \A d \in Clients \ {c} : request'[d] = request[d]
BY DEF MetadataTypeOK, Goes

\* Extractions and edits begin, and requests fail.
LEMMA BeginKeeps ==
    ASSUME InMetadata, NEW c \in Clients,
           \/ BeginExtraction(c)
           \/ \E t \in Titles : BeginEdit(c, t)
           \/ \E force \in BOOLEAN : BeginEnrichment(c, force)
           \/ Fails(c)
    PROVE  InMetadata'
<1> USE DEF InMetadata, MetadataTypeOK, paperVars, candidateVars, recordVars
<1>1. CASE BeginExtraction(c)
  <2> DEFINE x == [at |-> "extract", seen |-> title]
  <2>1. x \in Extracting /\ x.at = "extract" /\ x.seen = title
    BY DEF Extracting
  <2>2. Goes(c, x)
    BY <1>1 DEF BeginExtraction
  <2> HIDE DEF x
  <2>3. /\ request' \in [Clients -> Requests]
        /\ request'[c] = x
        /\ \A d \in Clients \ {c} : request'[d] = request[d]
    BY <2>1, <2>2, GoesTypes DEF Requests
  <2>4. MetadataTypeOK'
    BY <1>1, <2>3 DEF BeginExtraction
  <2> QED
    BY <1>1, <2>1, <2>3, <2>4, LookKeeps DEF BeginExtraction
<1>2. ASSUME NEW t \in Titles, BeginEdit(c, t)
      PROVE  InMetadata'
  <2>1. PICK new \in BOOLEAN : /\ ~new => t \in ToSet(confirmed)
                               /\ Goes(c, [at |-> "edit", seen |-> title, value |-> t, add |-> new,
                                           chosen |-> IF new THEN None ELSE Last(confirmed)])
    BY <1>2 DEF BeginEdit
  <2>2. PICK chosen \in Titles \union {None} :
            chosen = IF new THEN None ELSE Last(confirmed)
    <3>1. CASE new = FALSE
      <4>1. PICK i \in DOMAIN confirmed : t = confirmed[i]
        BY <2>1, <3>1 DEF ToSet
      <4>2. confirmed # <<>>
        BY <4>1
      <4> QED
        BY <3>1, <4>2, LastIn
    <3> QED
      BY <2>1, <3>1
  <2>3. PICK x : x = [at |-> "edit", seen |-> title, value |-> t, add |-> new, chosen |-> chosen]
    OBVIOUS
  <2>4. x \in Editing /\ x.at = "edit" /\ x.seen = title
    BY <2>3 DEF Editing
  <2>5. Goes(c, x)
    BY <2>1, <2>2, <2>3
  <2>6. /\ request' \in [Clients -> Requests]
        /\ request'[c] = x
        /\ \A d \in Clients \ {c} : request'[d] = request[d]
    BY <2>4, <2>5, GoesTypes DEF Requests
  <2>7. MetadataTypeOK'
    BY <1>2, <2>6 DEF BeginEdit
  <2> QED
    BY <1>2, <2>4, <2>6, <2>7, LookKeeps DEF BeginEdit
<1>3. ASSUME NEW force \in BOOLEAN, BeginEnrichment(c, force)
      PROVE  InMetadata'
  <2>1. PICK x : x = [at |-> "ask", force |-> force, index |-> 1,
                      parsed |-> [p \in Providers |-> None]]
    OBVIOUS
  <2>2. x \in Asking /\ x.at = "ask"
    BY <2>1 DEF Asking, Answers
  <2>3. Goes(c, x)
    BY <1>3, <2>1 DEF BeginEnrichment
  <2>4. /\ request' \in [Clients -> Requests]
        /\ request'[c] = x
        /\ \A d \in Clients \ {c} : request'[d] = request[d]
    BY <2>2, <2>3, GoesTypes DEF Requests
  <2>5. MetadataTypeOK'
    BY <1>3, <2>4 DEF BeginEnrichment
  <2> QED
    BY <1>3, <2>2, <2>4, <2>5, LookKeeps DEF BeginEnrichment
<1>4. CASE Fails(c)
  <2>1. /\ request' \in [Clients -> Requests]
        /\ request'[c] = Idle
        /\ \A d \in Clients \ {c} : request'[d] = request[d]
    BY <1>4, GoesTypes DEF Fails, Requests
  <2>2. MetadataTypeOK'
    BY <1>4, <2>1 DEF Fails
  <2>3. Idle.at = "idle"
    BY DEF Idle
  <2> QED
    BY <1>4, <2>1, <2>2, <2>3, LookKeeps DEF Fails
<1> QED
  BY <1>1, <1>2, <1>3, <1>4

\* The cascade goes on: what is on record is parsed.
LEMMA ParseKeeps ==
    ASSUME InMetadata, NEW c \in Clients, NEW p \in Providers, Reuse(c, p) \/ Parse(c, p)
    PROVE  InMetadata'
<1> USE DEF InMetadata, MetadataTypeOK, paperVars, candidateVars, recordVars
<1>1. request[c] \in Asking
  BY RequestKinds DEF Reuse, Parse, Asks, Does
<1>2. NextProvider(c, p) /\ UNCHANGED <<paperVars, recordVars, crowded>>
  BY DEF Reuse, Parse
<1>3. PICK x : x = [at |-> "ask", force |-> request[c].force, index |-> request[c].index + 1,
                    parsed |-> [request[c].parsed EXCEPT ![p] = raw[p]]]
  OBVIOUS
<1>4. x \in Asking /\ x.at = "ask"
  BY <1>1, <1>3 DEF Asking
<1>5. Goes(c, x)
  BY <1>2, <1>3 DEF NextProvider
<1>6. /\ request' \in [Clients -> Requests]
      /\ request'[c] = x
      /\ \A d \in Clients \ {c} : request'[d] = request[d]
  BY <1>4, <1>5, GoesTypes DEF Requests
<1>7. MetadataTypeOK'
  BY <1>2, <1>6
<1> QED
  BY <1>2, <1>4, <1>6, <1>7, LookKeeps

\* A request sets attributes it can afford, unless others are at the record as well.
LEMMA SetsKeeps ==
    ASSUME InMetadata, NEW c \in Clients, NEW p \in Providers, NEW update \in Update,
           NEW next \in {"request", "parse"}, Sets(c, p, update, next),
           request[c].at \in {"ask", "request"}, p = Cascade[request[c].index],
           ~crowded[p] /\ Alone(c, p) => Affords(p, update, next)
    PROVE  InMetadata'
<1> USE DEF InMetadata, MetadataTypeOK, paperVars, candidateVars, recordVars
<1>1. request[c] \in Asking
  BY RequestKinds
<1>2. PICK x : x = [at |-> "update", force |-> request[c].force, index |-> request[c].index,
                    parsed |-> request[c].parsed, update |-> update, next |-> next]
  OBVIOUS
<1>3. /\ x \in Updating /\ x.at = "update" /\ x.index = request[c].index
      /\ x.update = update /\ x.next = next
  BY <1>1, <1>2 DEF Asking, Updating
<1>4. /\ Goes(c, x)
      /\ UNCHANGED <<paperVars, recordVars>>
      /\ crowded' = [crowded EXCEPT ![p] = crowded[p] \/ ~Alone(c, p)]
  BY <1>2 DEF Sets
<1>5. /\ request' \in [Clients -> Requests]
      /\ request'[c] = x
      /\ \A d \in Clients \ {c} : request'[d] = request[d]
  BY <1>3, <1>4, GoesTypes DEF Requests
<1>6. /\ crowded' \in [Providers -> BOOLEAN]
      /\ ~crowded'[p] => ~crowded[p] /\ Alone(c, p)
      /\ \A q \in Providers \ {p} : crowded'[q] = crowded[q]
  <2>1. PICK v \in BOOLEAN : v <=> (crowded[p] \/ ~Alone(c, p))
    OBVIOUS
  <2>2. crowded' = [crowded EXCEPT ![p] = v]
    BY <1>4, <2>1 DEF Alone
  <2> QED
    BY <2>1, <2>2
<1>7. MetadataTypeOK'
  BY <1>4, <1>5, <1>6
<1>8. BudgetKept'
  BY <1>4, <1>6 DEF BudgetKept
<1>9. /\ Busy(c, p)' /\ \A q \in Providers \ {p} : ~Busy(c, q)'
      /\ \A d \in Clients \ {c}, q \in Providers : Busy(d, q)' <=> Busy(d, q)
  BY <1>3, <1>5 DEF Busy
<1>10. \A q \in Providers : \A u, n : Affords(q, u, n) => Affords(q, u, n)'
  BY <1>4 DEF Affords, Becomes
<1>11. BudgetInPlace'
  <2> SUFFICES ASSUME NEW q \in Providers, ~crowded'[q]
               PROVE  /\ \A d, e \in Clients : Busy(d, q)' /\ Busy(e, q)' => d = e
                      /\ \A d \in Clients : Busy(d, q)' /\ Does(d, "request")' =>
                            attempts'[q] < MaxAttempts
                      /\ \A d \in Clients : Busy(d, q)' /\ Does(d, "update")' =>
                            Affords(q, request[d].update, request[d].next)'
    BY DEF BudgetInPlace
  <2>1. CASE q = p
    <3>1. ~crowded[p] /\ Alone(c, p) /\ Affords(p, update, next)
      BY <1>6, <2>1
    <3>2. \A d \in Clients : Busy(d, p)' => d = c
      BY <1>9, <3>1 DEF Alone
    <3>3. ~Does(c, "request")' /\ Affords(p, request[c].update, request[c].next)'
      BY <1>3, <1>5, <1>10, <3>1 DEF Does
    <3> QED
      BY <2>1, <3>2, <3>3
  <2>2. CASE q # p
    <3>1. ~crowded[q]
      BY <1>6, <2>2
    <3>2. \A d \in Clients : Busy(d, q)' => d # c /\ Busy(d, q) /\ request'[d] = request[d]
      BY <1>5, <1>9, <2>2
    <3> QED
      BY <1>4, <1>10, <3>1, <3>2 DEF BudgetInPlace, Does
  <2> QED
    BY <2>1, <2>2
<1>12. Titled'
  BY <1>3, <1>4, <1>5 DEF Titled
<1>13. MergesTitles'
  BY <1>3, <1>5 DEF MergesTitles, Does
<1>14. TitleIsSelected'
  BY <1>4 DEF TitleIsSelected
<1> QED
  BY <1>7, <1>8, <1>11, <1>12, <1>13, <1>14

\* A provider is about to be asked, or would be were it not for the network: what is left
\* of its budget, or a new one, affords it.
LEMMA AskKeeps ==
    ASSUME InMetadata, NEW c \in Clients, NEW p \in Providers,
           NetworkOff(c, p) \/ AskProvider(c, p)
    PROVE  InMetadata'
<1>1. /\ request[c].at = "ask" /\ Cascade[request[c].index] = p /\ ~Spared(c, p)
      /\ request[c] \in Asking
  BY RequestKinds DEF NetworkOff, AskProvider, Asks, Does, InMetadata
<1>2. /\ attempts[p] \in Nat /\ waiting[p] \in BOOLEAN /\ request[c].force \in BOOLEAN
      /\ MaxAttempts \in Nat \ {0} /\ None \notin Nat \union BOOLEAN /\ None \in Answers
  BY <1>1, MetadataAssumption DEF InMetadata, MetadataTypeOK, Asking, Answers
<1>3. PICK a \in Nat \union {None} : a = FreshBudget(c, p)
  BY DEF FreshBudget
<1>4. Becomes(attempts, p, a) \in Nat /\ Becomes(attempts, p, a) < MaxAttempts
  BY <1>1, <1>2, <1>3 DEF FreshBudget, Becomes, Spared, Exhausted
<1>5. ASSUME NEW f \in BOOLEAN \union {None}, NEW w \in BOOLEAN \union {None},
             NEW next \in {"request", "parse"},
             Sets(c, p, [attempts |-> a, fetched |-> f, raw |-> None, waiting |-> w], next)
      PROVE  InMetadata'
  <2>1. PICK update : update = [attempts |-> a, fetched |-> f, raw |-> None, waiting |-> w]
    OBVIOUS
  <2>2. update \in Update /\ update.attempts = a
    BY <1>2, <2>1 DEF Update
  <2>3. Affords(p, update, next)
    BY <1>2, <1>4, <2>2 DEF Affords
  <2> QED
    BY <1>1, <1>5, <2>1, <2>2, <2>3, SetsKeeps
<1>6. CASE NetworkOff(c, p)
  <2>1. PICK f \in Unfetch(p), w \in Unschedule(p) :
            Sets(c, p, [attempts |-> a, fetched |-> f, raw |-> None, waiting |-> w], "parse")
    BY <1>3, <1>6 DEF NetworkOff
  <2>2. f \in BOOLEAN \union {None} /\ w \in BOOLEAN \union {None}
    BY <2>1 DEF Unfetch, Unschedule
  <2> QED
    BY <1>5, <2>1, <2>2
<1>7. CASE AskProvider(c, p)
  <2>1. PICK f \in Unfetch(p) :
            Sets(c, p, [attempts |-> a, fetched |-> f, raw |-> None, waiting |-> None], "request")
    BY <1>3, <1>7 DEF AskProvider
  <2>2. f \in BOOLEAN \union {None}
    BY <2>1 DEF Unfetch
  <2> QED
    BY <1>5, <2>1, <2>2
<1> QED
  BY <1>6, <1>7

\* A provider answers or fails to: the request that was out can be counted.
LEMMA AnswerKeeps ==
    ASSUME InMetadata, NEW c \in Clients, NEW p \in Providers,
           Fetch(c, p) \/ FetchFails(c, p)
    PROVE  InMetadata'
<1>1. request[c].at = "request" /\ Cascade[request[c].index] = p
  BY DEF Fetch, FetchFails, Answered, Does
<1>2. /\ attempts[p] \in Nat /\ waiting[p] \in BOOLEAN
      /\ MaxAttempts \in Nat \ {0} /\ None \notin Nat \union BOOLEAN /\ None \in Answers
  BY MetadataAssumption DEF InMetadata, MetadataTypeOK, Answers
<1>3. ~crowded[p] => attempts[p] < MaxAttempts
  BY <1>1 DEF InMetadata, BudgetInPlace, Busy, Does
<1>4. ASSUME NEW f \in BOOLEAN \union {None}, NEW r \in Answers, NEW w \in BOOLEAN \union {None},
             Becomes(waiting, p, w) => attempts[p] + 1 < MaxAttempts,
             Sets(c, p, [attempts |-> attempts[p] + 1, fetched |-> f, raw |-> r,
                         waiting |-> w], "parse")
      PROVE  InMetadata'
  <2>1. PICK update : update = [attempts |-> attempts[p] + 1, fetched |-> f, raw |-> r,
                                waiting |-> w]
    OBVIOUS
  <2>2. /\ update \in Update /\ update.attempts = attempts[p] + 1 /\ update.waiting = w
        /\ attempts[p] + 1 \in Nat
    BY <1>2, <2>1 DEF Update
  <2>3. Becomes(attempts, p, update.attempts) = attempts[p] + 1
    BY <1>2, <2>2 DEF Becomes
  <2>4. ~crowded[p] => Affords(p, update, "parse")
    <3>1. ~crowded[p] => attempts[p] + 1 <= MaxAttempts
      BY <1>2, <1>3
    <3> QED
      BY <1>4, <2>2, <2>3, <3>1 DEF Affords
  <2> QED
    BY <1>1, <1>4, <2>1, <2>2, <2>4, SetsKeeps
<1>5. \A w \in Unschedule(p) : w \in BOOLEAN \union {None} /\ ~Becomes(waiting, p, w)
  BY <1>2 DEF Unschedule, Becomes
<1>6. CASE Fetch(c, p)
  <2>1. PICK answer \in Titles \union {NoTitle}, w \in Unschedule(p) :
            Sets(c, p, [attempts |-> attempts[p] + 1,
                        fetched |-> IF fetched[p] THEN None ELSE TRUE,
                        raw |-> IF answer = raw[p] THEN None ELSE answer,
                        waiting |-> w], "parse")
    BY <1>6 DEF Fetch
  <2>2. PICK f \in BOOLEAN \union {None} : f = IF fetched[p] THEN None ELSE TRUE
    OBVIOUS
  <2>3. PICK r \in Answers : r = IF answer = raw[p] THEN None ELSE answer
    BY DEF Answers
  <2>4. Sets(c, p, [attempts |-> attempts[p] + 1, fetched |-> f, raw |-> r,
                    waiting |-> w], "parse")
    BY <2>1, <2>2, <2>3
  <2> QED
    BY <1>4, <1>5, <2>1, <2>4
<1>7. CASE FetchFails(c, p)
  <2>1. PICK f \in Unfetch(p),
             w \in Unschedule(p) \union {again \in {TRUE} : attempts[p] + 1 < MaxAttempts} :
            Sets(c, p, [attempts |-> attempts[p] + 1, fetched |-> f, raw |-> None,
                        waiting |-> w], "parse")
    BY <1>7 DEF FetchFails
  <2>2. f \in BOOLEAN \union {None} /\ w \in BOOLEAN \union {None}
    BY <1>5, <2>1 DEF Unfetch
  <2>3. Becomes(waiting, p, w) => attempts[p] + 1 < MaxAttempts
    BY <1>5, <2>1
  <2> QED
    BY <1>2, <1>4, <2>1, <2>2, <2>3
<1> QED
  BY <1>6, <1>7

\* An UPDATE is committed: what could be afforded is on record.
LEMMA CommitKeepsBudget ==
    ASSUME InMetadata, NEW c \in Clients, NEW p \in Providers, CommitRecord(c, p)
    PROVE  InMetadata'
<1> USE DEF InMetadata, MetadataTypeOK, paperVars, candidateVars
<1>1. request[c] \in Updating /\ request[c].at = "update" /\ p = Cascade[request[c].index]
  BY RequestKinds DEF CommitRecord, Does
<1>2. PICK u \in Update, next \in {"request", "parse"} :
          u = request[c].update /\ next = request[c].next
  BY <1>1 DEF Updating
<1>3. PICK x : x = [at |-> next, force |-> request[c].force, index |-> request[c].index,
                    parsed |-> request[c].parsed]
  OBVIOUS
<1>4. x \in Asking /\ x.at = next /\ x.index = request[c].index
  BY <1>1, <1>2, <1>3 DEF Asking, Updating
<1>5. /\ Goes(c, x) /\ UNCHANGED paperVars
      /\ attempts' = Put(attempts, p, u.attempts)
      /\ fetched' = Put(fetched, p, u.fetched)
      /\ raw' = Put(raw, p, u.raw)
      /\ waiting' = Put(waiting, p, u.waiting)
      /\ crowded' = [crowded EXCEPT
                          ![p] = crowded[p] /\ ~(u.attempts = 0 /\ Alone(c, p))]
  BY <1>2, <1>3 DEF CommitRecord
<1>6. /\ request' \in [Clients -> Requests]
      /\ request'[c] = x
      /\ \A d \in Clients \ {c} : request'[d] = request[d]
  BY <1>4, <1>5, GoesTypes DEF Requests
<1>7. /\ attempts' \in [Providers -> Nat]
      /\ attempts'[p] = Becomes(attempts, p, u.attempts)
      /\ \A q \in Providers \ {p} : attempts'[q] = attempts[q]
  BY <1>5 DEF Put, Becomes, Update
<1>8. /\ waiting' \in [Providers -> BOOLEAN]
      /\ waiting'[p] = Becomes(waiting, p, u.waiting)
      /\ \A q \in Providers \ {p} : waiting'[q] = waiting[q]
  BY <1>5 DEF Put, Becomes, Update
<1>9. fetched' \in [Providers -> BOOLEAN]
  BY <1>5 DEF Put, Update
<1>10. raw' \in [Providers -> Answers]
  BY <1>5 DEF Put, Update
<1>11. /\ crowded' \in [Providers -> BOOLEAN]
       /\ ~crowded'[p] => ~crowded[p] \/ (u.attempts = 0 /\ Alone(c, p))
       /\ \A q \in Providers \ {p} : crowded'[q] = crowded[q]
  <2>1. PICK v \in BOOLEAN : v <=> (crowded[p] /\ ~(u.attempts = 0 /\ Alone(c, p)))
    OBVIOUS
  <2>2. crowded' = [crowded EXCEPT ![p] = v]
    BY <1>5, <2>1 DEF Alone
  <2> QED
    BY <2>1, <2>2
<1>12. MetadataTypeOK'
  BY <1>5, <1>6, <1>7, <1>8, <1>9, <1>10, <1>11
<1>13. ASSUME ~crowded'[p]
       PROVE  /\ \A d \in Clients \ {c} : ~Busy(d, p)
              /\ attempts'[p] <= MaxAttempts
              /\ waiting'[p] => attempts'[p] < MaxAttempts
              /\ next = "request" => attempts'[p] < MaxAttempts
  <2>1. CASE ~crowded[p]
    <3>1. Busy(c, p) /\ Does(c, "update")
      BY <1>1 DEF Busy, Does
    <3>2. Affords(p, u, next) /\ \A d \in Clients \ {c} : ~Busy(d, p)
      BY <1>2, <2>1, <3>1 DEF BudgetInPlace
    <3> QED
      BY <1>7, <1>8, <3>2 DEF Affords
  <2>2. CASE u.attempts = 0 /\ Alone(c, p)
    <3>1. attempts'[p] = 0
      BY <1>7, <2>2, MetadataAssumption DEF Becomes
    <3>2. MaxAttempts \in Nat \ {0}
      BY MetadataAssumption
    <3> QED
      BY <2>2, <3>1, <3>2 DEF Alone
  <2> QED
    BY <1>11, <1>13, <2>1, <2>2
<1>14. BudgetKept'
  BY <1>7, <1>8, <1>11, <1>13 DEF BudgetKept
<1>15. /\ Busy(c, p)' <=> next = "request"
       /\ \A q \in Providers \ {p} : ~Busy(c, q)'
       /\ \A d \in Clients \ {c}, q \in Providers : Busy(d, q)' <=> Busy(d, q)
  BY <1>1, <1>4, <1>6 DEF Busy
<1>16. \A q \in Providers \ {p} : \A v, n : Affords(q, v, n) => Affords(q, v, n)'
  BY <1>7, <1>8 DEF Affords, Becomes
<1>17. BudgetInPlace'
  <2> SUFFICES ASSUME NEW q \in Providers, ~crowded'[q]
               PROVE  /\ \A d, e \in Clients : Busy(d, q)' /\ Busy(e, q)' => d = e
                      /\ \A d \in Clients : Busy(d, q)' /\ Does(d, "request")' =>
                            attempts'[q] < MaxAttempts
                      /\ \A d \in Clients : Busy(d, q)' /\ Does(d, "update")' =>
                            Affords(q, request[d].update, request[d].next)'
    BY DEF BudgetInPlace
  <2>1. CASE q = p
    <3>1. \A d \in Clients : Busy(d, p)' => d = c
      BY <1>13, <1>15, <2>1
    <3>2. /\ ~Does(c, "update")'
          /\ Does(c, "request")' => attempts'[p] < MaxAttempts
      BY <1>4, <1>6, <1>13, <2>1 DEF Does
    <3> QED
      BY <2>1, <3>1, <3>2
  <2>2. CASE q # p
    <3>1. ~crowded[q] /\ attempts'[q] = attempts[q]
      BY <1>7, <1>11, <2>2
    <3>2. \A d \in Clients : Busy(d, q)' => d # c /\ Busy(d, q) /\ request'[d] = request[d]
      BY <1>6, <1>15, <2>2
    <3> QED
      BY <1>16, <2>2, <3>1, <3>2 DEF BudgetInPlace, Does
  <2> QED
    BY <2>1, <2>2
<1>18. Titled'
  BY <1>4, <1>5, <1>6 DEF Titled
<1>19. MergesTitles'
  BY <1>4, <1>6 DEF MergesTitles, Does
<1>20. TitleIsSelected'
  BY <1>5 DEF TitleIsSelected
<1> QED
  BY <1>12, <1>14, <1>17, <1>18, <1>19, <1>20

\* An extraction commits: a title it gives to a paper that was without one when it was
\* loaded is a blind one if there is another by now.
LEMMA ExtractionKeeps ==
    ASSUME InMetadata, NEW c \in Clients, CommitExtraction(c)
    PROVE  InMetadata'
<1> USE DEF InMetadata, MetadataTypeOK, recordVars
<1>1. request[c] \in Extracting
  BY RequestKinds DEF CommitExtraction, Does
<1>2. PICK loaded \in Titles \union {None} : loaded = request[c].seen
  BY <1>1 DEF Extracting
<1>3. PICK t \in Titles \union {None} :
          Materialize(loaded, t, t # None /\ title # None)
  BY <1>2 DEF CommitExtraction
<1>4. PICK astray \in BOOLEAN : astray = (t # None /\ title # None)
  OBVIOUS
<1>5. Materialize(loaded, t, astray)
  BY <1>3, <1>4
<1>6. /\ title' \in Titles \union {None}
      /\ blind' \in BOOLEAN
      /\ title # None => title' # None
      /\ ~blind' => /\ ~astray
                    /\ t \in {None, loaded} => ~blind /\ title' = title
                    /\ t \notin {None, loaded} => title' = t
  BY <1>5, SelectionKeeps
<1>7. /\ request' \in [Clients -> Requests]
      /\ Goes(c, Idle)
  BY GoesTypes DEF CommitExtraction, Requests
<1>8. /\ UNCHANGED <<confirmed, offered, fetched, raw, attempts, waiting, crowded, network>>
      /\ heuristic' = TRUE
  BY DEF CommitExtraction
<1>9. MetadataTypeOK'
  BY <1>6, <1>7, <1>8
<1>10. confirmed' # <<>> \/ (\E p \in Providers : offered'[p] # <<>>) => title' # None
  BY <1>6, <1>8 DEF Titled
<1>11. TitleIsSelected'
  <2> SUFFICES ASSUME ~blind', confirmed # <<>> \/ \E p \in Providers : offered[p] # <<>>
               PROVE  title' \in Best(confirmed, offered, heuristic')
    BY <1>8 DEF TitleIsSelected
  <2>1. title # None
    BY DEF Titled
  <2>2. title' = title /\ ~blind
    BY <1>4, <1>6, <2>1
  <2>3. title \in Best(confirmed, offered, heuristic)
    BY <2>2 DEF TitleIsSelected
  <2>4. Best(confirmed, offered, heuristic) = Best(confirmed, offered, heuristic')
    BY BestWithoutPdf
  <2> QED
    BY <2>2, <2>3, <2>4
<1> QED
  BY <1>6, <1>7, <1>8, <1>9, <1>10, <1>11, WriteKeeps

\* A selection that was made without the lock is written: it is still the best, or blind.
LEMMA LateSelectionKeeps ==
    ASSUME InMetadata, NEW c \in Clients,
           NEW loaded \in Titles \union {None}, NEW chosen \in Titles \union {None},
           Materialize(loaded, chosen, Outdated(loaded, chosen)), Goes(c, Idle),
           UNCHANGED <<candidateVars, recordVars, crowded, network>>
    PROVE  InMetadata'
<1> USE DEF InMetadata, MetadataTypeOK, candidateVars, recordVars
<1>1. PICK astray \in BOOLEAN : astray <=> Outdated(loaded, chosen)
  OBVIOUS
<1>2. Materialize(loaded, chosen, astray)
  BY <1>1 DEF Materialize, Outdated
<1>3. /\ title' \in Titles \union {None}
      /\ blind' \in BOOLEAN
      /\ title # None => title' # None
      /\ ~blind' => /\ ~astray
                    /\ chosen \in {None, loaded} => ~blind /\ title' = title
                    /\ chosen \notin {None, loaded} => title' = chosen
  BY <1>2, SelectionKeeps
<1>4. MetadataTypeOK'
  BY <1>3, GoesTypes DEF Requests
<1>5. confirmed' # <<>> \/ (\E p \in Providers : offered'[p] # <<>>) => title' # None
  BY <1>3 DEF Titled
<1>6. TitleIsSelected'
  BY <1>1, <1>3 DEF TitleIsSelected, Outdated
<1> QED
  BY <1>3, <1>4, <1>5, <1>6, WriteKeeps

\* A selection that was made under the lock, after a candidate was inserted: it is the
\* best, or what was loaded was mistaken for what is there.
LEMMA FreshSelectionKeeps ==
    ASSUME InMetadata, NEW c \in Clients,
           NEW loaded \in Titles \union {None}, NEW chosen \in Titles,
           loaded # None => title # None,
           Materialize(loaded, chosen, Mistaken(loaded, chosen)), Goes(c, Idle),
           confirmed' \in Seq(Titles), offered' \in [Providers -> Seq(Titles)],
           chosen \in Best(confirmed', offered', heuristic),
           UNCHANGED <<heuristic, recordVars, crowded, network>>
    PROVE  InMetadata'
<1> USE DEF InMetadata, MetadataTypeOK, recordVars
<1>1. PICK astray \in BOOLEAN : astray <=> Mistaken(loaded, chosen)
  OBVIOUS
<1>2. Materialize(loaded, chosen, astray)
  BY <1>1 DEF Materialize, Mistaken
<1>3. chosen # None
  BY MetadataAssumption
<1>4. /\ title' \in Titles \union {None}
      /\ blind' \in BOOLEAN
      /\ title # None => title' # None
      /\ chosen # None /\ (loaded # None => title # None) => title' # None
      /\ ~blind' => /\ ~astray
                    /\ chosen \in {None, loaded} => ~blind /\ title' = title
                    /\ chosen \notin {None, loaded} => title' = chosen
  BY <1>2, SelectionKeeps
<1>5. MetadataTypeOK'
  BY <1>4, GoesTypes DEF Requests
<1>6. ~blind' => title' = chosen
  BY <1>1, <1>3, <1>4 DEF Mistaken
<1>7. TitleIsSelected'
  BY <1>6 DEF TitleIsSelected
<1> QED
  BY <1>3, <1>4, <1>5, <1>7, WriteKeeps

\* An edit commits, with a new candidate or without one.
LEMMA EditKeeps ==
    ASSUME InMetadata, NEW c \in Clients, CommitEdit(c)
    PROVE  InMetadata'
<1>1. request[c].at = "edit" /\ request[c] \in Editing
  BY RequestKinds DEF CommitEdit, Does, InMetadata
<1>2. PICK loaded \in Titles \union {None}, chosen \in Titles \union {None}, t \in Titles :
          loaded = request[c].seen /\ chosen = request[c].chosen /\ t = request[c].value
  BY <1>1 DEF Editing
<1>3. loaded # None => title # None
  BY <1>1, <1>2 DEF InMetadata, Titled
<1>4. Goes(c, Idle) /\ UNCHANGED <<heuristic, offered, recordVars, crowded, network>>
  BY DEF CommitEdit
<1>5. CASE request[c].add
  <2>1. /\ confirmed' \in Inserted(confirmed, t)
        /\ Materialize(loaded, Last(confirmed'), Mistaken(loaded, Last(confirmed')))
    BY <1>2, <1>5 DEF CommitEdit
  <2>2. confirmed' \in Seq(Titles) /\ confirmed' # <<>>
    BY <2>1, InsertedTitles DEF InMetadata, MetadataTypeOK
  <2>3. PICK best \in Titles : best = Last(confirmed')
    BY <2>2, LastIn
  <2>4. best \in Best(confirmed', offered', heuristic)
    BY <2>2, <2>3 DEF Best
  <2>5. offered' \in [Providers -> Seq(Titles)]
    BY <1>4 DEF InMetadata, MetadataTypeOK
  <2>6. Materialize(loaded, best, Mistaken(loaded, best))
    BY <2>1, <2>3
  <2> QED
    BY <1>3, <1>4, <2>2, <2>4, <2>5, <2>6, FreshSelectionKeeps
<1>6. CASE ~request[c].add
  <2>1. Materialize(loaded, chosen, Outdated(loaded, chosen)) /\ UNCHANGED confirmed
    BY <1>2, <1>6 DEF CommitEdit
  <2> QED
    BY <1>4, <2>1, LateSelectionKeeps DEF candidateVars
<1> QED
  BY <1>5, <1>6

\* A merge loads the paper and decides what it will insert.
LEMMA MergeBegins ==
    ASSUME InMetadata, NEW c \in Clients, BeginMerge(c)
    PROVE  InMetadata'
<1> USE DEF InMetadata, MetadataTypeOK, paperVars, candidateVars, recordVars
<1>1. request[c] \in Asking
  BY RequestKinds DEF BeginMerge, Does
<1>2. PICK parsed \in [Providers -> Answers] : parsed = request[c].parsed
  BY <1>1 DEF Asking
<1>3. PICK new \in SUBSET Providers :
          new = {p \in Providers : parsed[p] \in Titles \ ToSet(offered[p])}
  OBVIOUS
<1>4. PICK t \in IF new = {} THEN Best(confirmed, offered, heuristic) ELSE {None} :
          Goes(c, [at |-> "merge", seen |-> title, parsed |-> parsed, add |-> new, chosen |-> t])
  BY <1>2, <1>3 DEF BeginMerge
<1>5. t \in Titles \union {None}
  BY BestTitle
<1>6. PICK x : x = [at |-> "merge", seen |-> title, parsed |-> parsed, add |-> new, chosen |-> t]
  OBVIOUS
<1>7. /\ x \in Merging /\ x.at = "merge" /\ x.seen = title
      /\ \A p \in x.add : x.parsed[p] \in Titles
  BY <1>3, <1>5, <1>6 DEF Merging
<1>8. /\ request' \in [Clients -> Requests]
      /\ request'[c] = x
      /\ \A d \in Clients \ {c} : request'[d] = request[d]
  BY <1>4, <1>6, <1>7, GoesTypes DEF Requests
<1>9. UNCHANGED <<title, confirmed, offered, heuristic, blind, fetched, raw, attempts, waiting,
                crowded, network>>
  BY DEF BeginMerge
<1>10. MetadataTypeOK'
  BY <1>8, <1>9
<1>11. attempts' = attempts /\ \A q \in Providers : waiting'[q] => waiting[q]
  BY <1>9
<1> QED
  BY <1>7, <1>8, <1>9, <1>10, <1>11, LookKeeps

\* A merge commits what was missing, or what it had selected.
LEMMA MergeCommits ==
    ASSUME InMetadata, NEW c \in Clients, CommitCandidates(c) \/ CommitSelection(c)
    PROVE  InMetadata'
<1>1. request[c].at = "merge" /\ request[c] \in Merging
  BY RequestKinds DEF CommitCandidates, CommitSelection, Does, InMetadata
<1>2. PICK loaded \in Titles \union {None}, chosen \in Titles \union {None} :
          loaded = request[c].seen /\ chosen = request[c].chosen
  BY <1>1 DEF Merging
<1>3. loaded # None => title # None
  BY <1>1, <1>2 DEF InMetadata, Titled
<1>4. CASE CommitCandidates(c)
  <2>1. PICK add \in SUBSET Providers, parsed \in [Providers -> Answers] :
            add = request[c].add /\ parsed = request[c].parsed
    BY <1>1 DEF Merging
  <2>2. /\ add # {}
        /\ \A p \in add : parsed[p] \in Titles
    BY <1>1, <1>4, <2>1 DEF CommitCandidates, InMetadata, MergesTitles, Does
  <2>3. PICK f \in [add -> UNION {Inserted(offered[p], parsed[p]) : p \in add}] :
            /\ \A p \in add : f[p] \in Inserted(offered[p], parsed[p])
            /\ offered' = [p \in Providers |-> IF p \in add THEN f[p] ELSE offered[p]]
    BY <1>4, <2>1 DEF CommitCandidates
  <2>4. \A p \in Providers : offered[p] \in Seq(Titles)
    BY DEF InMetadata, MetadataTypeOK
  <2>5. \A p \in add : f[p] \in Seq(Titles) /\ f[p] # <<>>
    BY <2>2, <2>3, <2>4, InsertedTitles
  <2>6. /\ offered' \in [Providers -> Seq(Titles)]
        /\ \E p \in Providers : offered'[p] # <<>>
    BY <2>2, <2>3, <2>4, <2>5
  <2>7. /\ confirmed' = confirmed /\ confirmed \in Seq(Titles)
        /\ Goes(c, Idle) /\ UNCHANGED <<heuristic, recordVars, crowded, network>>
    BY <1>4 DEF CommitCandidates, InMetadata, MetadataTypeOK
  <2>8. PICK t \in Best(confirmed, offered', heuristic) :
            Materialize(loaded, t, Mistaken(loaded, t))
    BY <1>2, <1>4 DEF CommitCandidates
  <2>9. t \in Titles
    BY <2>6, <2>7, <2>8, BestTitle
  <2> QED
    BY <1>3, <2>6, <2>7, <2>8, <2>9, FreshSelectionKeeps
<1>5. CASE CommitSelection(c)
  <2>1. /\ Materialize(loaded, chosen, Outdated(loaded, chosen))
        /\ Goes(c, Idle) /\ UNCHANGED <<candidateVars, recordVars, crowded, network>>
    BY <1>2, <1>5 DEF CommitSelection
  <2> QED
    BY <2>1, LateSelectionKeeps
<1> QED
  BY <1>4, <1>5

\* Time passes, and the process stops and starts again with idle requests.
LEMMA ClockKeeps ==
    ASSUME InMetadata, (\E p \in Providers : TimePasses(p)) \/ Restart
    PROVE  InMetadata'
<1> USE DEF InMetadata, MetadataTypeOK, paperVars, candidateVars, recordVars
<1>1. ASSUME NEW p \in Providers, TimePasses(p)
      PROVE  InMetadata'
  <2>1. MetadataTypeOK'
    BY <1>1 DEF TimePasses
  <2>2. attempts' = attempts /\ \A q \in Providers : waiting'[q] => waiting[q]
    BY <1>1 DEF TimePasses
  <2> QED
    BY <1>1, <2>1, <2>2, LookKeeps DEF TimePasses
<1>2. CASE Restart
  <2>1. MetadataTypeOK'
    BY <1>2 DEF Restart, Requests
  <2>2. attempts' = attempts /\ \A q \in Providers : waiting'[q] => waiting[q]
    BY <1>2 DEF Restart
  <2>3. \A c \in Clients : request'[c].at = "idle"
    BY <1>2 DEF Restart, Idle
  <2> QED
    BY <1>2, <2>1, <2>2, <2>3, LookKeeps DEF Restart
<1> QED
  BY <1>1, <1>2

\* A paper without candidates has no title, and nobody was asked.
LEMMA MetadataBegins ==
    ASSUME MetadataInit
    PROVE  InMetadata
<1> USE DEF MetadataInit
<1>0. \A c \in Clients : request[c].at = "idle"
  BY DEF Idle
<1>1. MetadataTypeOK
  <2>1. <<>> \in Seq(Titles)
    OBVIOUS
  <2>2. offered \in [Providers -> Seq(Titles)]
    BY <2>1
  <2>3. raw \in [Providers -> Answers]
    BY DEF Answers
  <2>4. /\ fetched \in [Providers -> BOOLEAN]
        /\ waiting \in [Providers -> BOOLEAN]
        /\ crowded \in [Providers -> BOOLEAN]
        /\ attempts \in [Providers -> Nat]
    OBVIOUS
  <2>5. request \in [Clients -> Requests]
    BY DEF Requests
  <2> QED
    BY <2>1, <2>2, <2>3, <2>4, <2>5 DEF MetadataTypeOK
<1>2. BudgetInPlace /\ BudgetKept
  BY <1>0, MetadataAssumption DEF BudgetInPlace, BudgetKept, Busy
<1>3. Titled
  BY <1>0 DEF Titled
<1>4. MergesTitles
  BY <1>0 DEF MergesTitles, Does
<1>5. TitleIsSelected
  BY DEF TitleIsSelected
<1> QED
  BY <1>1, <1>2, <1>3, <1>4, <1>5 DEF InMetadata

\* Every step of extractions, edits and enrichments keeps the invariant of the metadata.
LEMMA MetadataPreserved == InMetadata /\ [MetadataNext]_metadataVars => InMetadata'
<1> SUFFICES ASSUME InMetadata, [MetadataNext]_metadataVars
             PROVE  InMetadata'
  OBVIOUS
<1>1. ASSUME NEW c \in Clients,
             \/ BeginExtraction(c) \/ (\E t \in Titles : BeginEdit(c, t))
             \/ (\E force \in BOOLEAN : BeginEnrichment(c, force)) \/ Fails(c)
      PROVE  InMetadata'
  BY <1>1, BeginKeeps
<1>2. ASSUME NEW c \in Clients, NEW p \in Providers,
             \/ Reuse(c, p) \/ NetworkOff(c, p) \/ AskProvider(c, p)
             \/ Fetch(c, p) \/ FetchFails(c, p) \/ CommitRecord(c, p) \/ Parse(c, p)
      PROVE  InMetadata'
  BY <1>2, ParseKeeps, AskKeeps, AnswerKeeps, CommitKeepsBudget
<1>3. ASSUME NEW c \in Clients,
             \/ CommitExtraction(c) \/ CommitEdit(c) \/ BeginMerge(c)
             \/ CommitCandidates(c) \/ CommitSelection(c)
      PROVE  InMetadata'
  BY <1>3, ExtractionKeeps, EditKeeps, MergeBegins, MergeCommits
<1>4. CASE (\E p \in Providers : TimePasses(p)) \/ Restart
  BY <1>4, ClockKeeps
<1>5. CASE UNCHANGED metadataVars
  <2> USE DEF metadataVars, paperVars, candidateVars, recordVars
  <2>1. MetadataTypeOK' /\ \A q \in Providers : waiting'[q] => waiting[q]
    BY <1>5 DEF InMetadata, MetadataTypeOK
  <2> QED
    BY <1>5, <2>1, LookKeeps
<1> QED
  BY <1>1, <1>2, <1>3, <1>4, <1>5 DEF MetadataNext

\* The inductive invariant of the metadata: a request that is under way alone can be
\* afforded, and a paper that had a title or a candidate for one has a title.
THEOREM MetadataInvariant == MetadataSpec => []InMetadata
<1>1. MetadataInit => InMetadata
  BY MetadataBegins
<1>2. InMetadata /\ [MetadataNext]_metadataVars => InMetadata'
  BY MetadataPreserved
<1> QED
  BY <1>1, <1>2, PTL DEF MetadataSpec

\* The title, the candidates, the records and the requests have their types.
THEOREM MetadataTypeCorrect == MetadataSpec => []MetadataTypeOK
<1>1. InMetadata => MetadataTypeOK
  BY DEF InMetadata
<1> QED
  BY <1>1, MetadataInvariant, PTL

\* materialize_selection leaves the best candidate as the title, unless the session could
\* not know better.
THEOREM BestTitleShown == MetadataSpec => []TitleIsSelected
<1>1. InMetadata => TitleIsSelected
  BY DEF InMetadata
<1> QED
  BY <1>1, MetadataInvariant, PTL

\* _run_one_provider keeps attempt_count, and the retries it schedules, within the budget
\* as long as it is at one provider of a paper once at a time.
THEOREM AttemptsBounded == MetadataSpec => []BudgetKept
<1>1. InMetadata => BudgetKept
  BY DEF InMetadata
<1> QED
  BY <1>1, MetadataInvariant, PTL
=============================================================================

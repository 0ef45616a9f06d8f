----------------------- MODULE WorkspaceLibraryProofs -----------------------
(***************************************************************************)
(* Proofs about WorkspaceLibrary, for any sets of workspaces, papers,      *)
(* requests and runs.                                                      *)
(*                                                                         *)
(* Archive, delete and the creation of a run take no lock, so a revision   *)
(* may be written that was computed from a stale row.  That a run is still *)
(* safe rests on two facts: the commands that leave a workspace active     *)
(* exclude one another by the lock, and the others leave it for good.      *)
(***************************************************************************)
EXTENDS WorkspaceLibrary, TLAPS

\* The steps of a request that holds the lock.
Locked == {"add", "add_loaded", "remove", "remove_loaded", "soft_delete",
        "soft_delete_checked"}

\* What a request holds and works on while it is under way.
RequestInPlace(c) ==
    /\ at[c] \in Locked => lock = c /\ paper[c] \in Papers
    /\ at[c] \notin {"idle", "soft_delete", "soft_delete_checked"} => target[c] \in
        Workspaces

\* What a request has read still holds at its commit, or the workspace was left.
StillTrue(c) ==
    /\ at[c] \in {"add_loaded", "remove_loaded"} =>
          (status[target[c]] = "active" => sawRevision[c] = revision[target[c]])
    /\ at[c] = "add_loaded" => paper[c] \notin deleted
    /\ at[c] = "soft_delete_checked" =>
          \A w \in Workspaces : status[w] = "active" => paper[c] \notin members[w]
    /\ at[c] \in {"revoked", "cleaned"} => status[target[c]] # "active"
    /\ at[c] = "delete_loaded" /\ sawStatus[c] = "deleting" => status[target[c]] # "active"

\* A workspace that is still active has not gone back behind the revision of a run.
RunInPlace(r) ==
    runAt[r] # "absent" =>
        /\ runOf[r] \in Workspaces
        /\ status[runOf[r]] = "active" =>
              /\ runRevision[r] <= revision[runOf[r]]
              /\ runRevision[r] = revision[runOf[r]] => members[runOf[r]] = runMembers[r]

\* The inductive invariant.
InPlace ==
    /\ TypeOK
    /\ \A c \in Requests : RequestInPlace(c)
    /\ \A c \in Requests : StillTrue(c)
    /\ \A r \in Runs : RunInPlace(r)
    /\ NoDeletedMember
    /\ CleanedNeverActive

-----------------------------------------------------------------------------
(* Each part of the invariant, kept by every step.                         *)

\* Every step keeps the types.
LEMMA TypePreserved == InPlace /\ [Next]_vars => TypeOK'
<1> SUFFICES ASSUME InPlace, [Next]_vars
             PROVE  TypeOK'
  OBVIOUS
<1> USE NoneAssumption DEF InPlace, TypeOK, At, Status, Locked, RequestInPlace, vars,
        workspaceVars, loadedVars, runVars
<1>1. ASSUME NEW c \in Requests, NEW a \in {"add", "remove"}, NEW w \in Workspaces,
             NEW p \in Papers, StartMembership(c, a, w, p)
      PROVE  TypeOK'
  BY <1>1 DEF StartMembership, Begin, Acquire
<1>2. ASSUME NEW c \in Requests, LoadForAdd(c)
      PROVE  TypeOK'
  BY <1>2 DEF LoadForAdd, Load, Goes
<1>3. ASSUME NEW c \in Requests, CommitAdd(c)
      PROVE  TypeOK'
  BY <1>3 DEF CommitAdd, AdvanceRevision, Ends
<1>4. ASSUME NEW c \in Requests, LoadForRemove(c)
      PROVE  TypeOK'
  BY <1>4 DEF LoadForRemove, Load, Goes
<1>5. ASSUME NEW c \in Requests, CommitRemove(c)
      PROVE  TypeOK'
  BY <1>5 DEF CommitRemove, AdvanceRevision, Ends
<1>6. ASSUME NEW c \in Requests, NEW a \in {"archive", "delete"}, NEW w \in Workspaces,
             StartLifecycle(c, a, w)
      PROVE  TypeOK'
  BY <1>6 DEF StartLifecycle, Begin
<1>7. ASSUME NEW c \in Requests, LoadForArchive(c)
      PROVE  TypeOK'
  BY <1>7 DEF LoadForArchive, Load, Goes
<1>8. ASSUME NEW c \in Requests, CommitArchive(c)
      PROVE  TypeOK'
  BY <1>8 DEF CommitArchive, AdvanceRevision, Ends
<1>9. ASSUME NEW c \in Requests, LoadForDelete(c)
      PROVE  TypeOK'
  BY <1>9 DEF LoadForDelete, Load, Goes
<1>10. ASSUME NEW c \in Requests, CommitRevocation(c)
      PROVE  TypeOK'
  BY <1>10 DEF CommitRevocation, AdvanceRevision, Goes
<1>11. ASSUME NEW c \in Requests, RemoveStorage(c)
      PROVE  TypeOK'
  BY <1>11 DEF RemoveStorage, Load, Goes
<1>12. ASSUME NEW c \in Requests, Settle(c)
      PROVE  TypeOK'
  BY <1>12 DEF Settle, AdvanceRevision, Ends
<1>13. ASSUME NEW c \in Requests, NEW p \in Papers, StartSoftDelete(c, p)
      PROVE  TypeOK'
  BY <1>13 DEF StartSoftDelete, Begin, Acquire
<1>14. ASSUME NEW c \in Requests, CheckUse(c)
      PROVE  TypeOK'
  BY <1>14 DEF CheckUse, Goes
<1>15. ASSUME NEW c \in Requests, CommitSoftDelete(c)
      PROVE  TypeOK'
  BY <1>15 DEF CommitSoftDelete, Ends
<1>16. ASSUME NEW p \in Papers, Restore(p)
      PROVE  TypeOK'
  BY <1>16 DEF Restore
<1>17. ASSUME NEW c \in Requests, Refused(c)
      PROVE  TypeOK'
  BY <1>17 DEF Refused, Ends
<1>18. ASSUME NEW r \in Runs, NEW w \in Workspaces, CreateRun(r, w)
      PROVE  TypeOK'
  BY <1>18 DEF CreateRun
<1>19. ASSUME NEW r \in Runs, EndRun(r)
      PROVE  TypeOK'
  BY <1>19 DEF EndRun
<1>20. ASSUME UNCHANGED vars
      PROVE  TypeOK'
  BY <1>20
<1> QED
  BY <1>1, <1>2, <1>3, <1>4, <1>5, <1>6, <1>7, <1>8, <1>9, <1>10, <1>11, <1>12, <1>13,
     <1>14, <1>15, <1>16, <1>17, <1>18, <1>19, <1>20
     DEF Next, Membership, Lifecycle, SoftDelete

\* Every step leaves the requests where they may be.
LEMMA RequestPreserved == InPlace /\ [Next]_vars => (\A d \in Requests : RequestInPlace(d))'
<1> SUFFICES ASSUME InPlace, [Next]_vars
             PROVE  (\A d \in Requests : RequestInPlace(d))'
  OBVIOUS
<1> USE NoneAssumption DEF InPlace, TypeOK, At, Status, Locked, RequestInPlace, vars,
        workspaceVars, loadedVars, runVars
<1>1. ASSUME NEW c \in Requests, NEW a \in {"add", "remove"}, NEW w \in Workspaces,
             NEW p \in Papers, StartMembership(c, a, w, p)
      PROVE  (\A d \in Requests : RequestInPlace(d))'
  BY <1>1 DEF StartMembership, Begin, Acquire
<1>2. ASSUME NEW c \in Requests, LoadForAdd(c)
      PROVE  (\A d \in Requests : RequestInPlace(d))'
  BY <1>2 DEF LoadForAdd, Load, Goes
<1>3. ASSUME NEW c \in Requests, CommitAdd(c)
      PROVE  (\A d \in Requests : RequestInPlace(d))'
  BY <1>3 DEF CommitAdd, AdvanceRevision, Ends
<1>4. ASSUME NEW c \in Requests, LoadForRemove(c)
      PROVE  (\A d \in Requests : RequestInPlace(d))'
  BY <1>4 DEF LoadForRemove, Load, Goes
<1>5. ASSUME NEW c \in Requests, CommitRemove(c)
      PROVE  (\A d \in Requests : RequestInPlace(d))'
  BY <1>5 DEF CommitRemove, AdvanceRevision, Ends
<1>6. ASSUME NEW c \in Requests, NEW a \in {"archive", "delete"}, NEW w \in Workspaces,
             StartLifecycle(c, a, w)
      PROVE  (\A d \in Requests : RequestInPlace(d))'
  BY <1>6 DEF StartLifecycle, Begin
<1>7. ASSUME NEW c \in Requests, LoadForArchive(c)
      PROVE  (\A d \in Requests : RequestInPlace(d))'
  BY <1>7 DEF LoadForArchive, Load, Goes
<1>8. ASSUME NEW c \in Requests, CommitArchive(c)
      PROVE  (\A d \in Requests : RequestInPlace(d))'
  BY <1>8 DEF CommitArchive, AdvanceRevision, Ends
<1>9. ASSUME NEW c \in Requests, LoadForDelete(c)
      PROVE  (\A d \in Requests : RequestInPlace(d))'
  BY <1>9 DEF LoadForDelete, Load, Goes
<1>10. ASSUME NEW c \in Requests, CommitRevocation(c)
      PROVE  (\A d \in Requests : RequestInPlace(d))'
  BY <1>10 DEF CommitRevocation, AdvanceRevision, Goes
<1>11. ASSUME NEW c \in Requests, RemoveStorage(c)
      PROVE  (\A d \in Requests : RequestInPlace(d))'
  BY <1>11 DEF RemoveStorage, Load, Goes
<1>12. ASSUME NEW c \in Requests, Settle(c)
      PROVE  (\A d \in Requests : RequestInPlace(d))'
  BY <1>12 DEF Settle, AdvanceRevision, Ends
<1>13. ASSUME NEW c \in Requests, NEW p \in Papers, StartSoftDelete(c, p)
      PROVE  (\A d \in Requests : RequestInPlace(d))'
  BY <1>13 DEF StartSoftDelete, Begin, Acquire
<1>14. ASSUME NEW c \in Requests, CheckUse(c)
      PROVE  (\A d \in Requests : RequestInPlace(d))'
  BY <1>14 DEF CheckUse, Goes
<1>15. ASSUME NEW c \in Requests, CommitSoftDelete(c)
      PROVE  (\A d \in Requests : RequestInPlace(d))'
  BY <1>15 DEF CommitSoftDelete, Ends
<1>16. ASSUME NEW p \in Papers, Restore(p)
      PROVE  (\A d \in Requests : RequestInPlace(d))'
  BY <1>16 DEF Restore
<1>17. ASSUME NEW c \in Requests, Refused(c)
      PROVE  (\A d \in Requests : RequestInPlace(d))'
  BY <1>17 DEF Refused, Ends
<1>18. ASSUME NEW r \in Runs, NEW w \in Workspaces, CreateRun(r, w)
      PROVE  (\A d \in Requests : RequestInPlace(d))'
  BY <1>18 DEF CreateRun
<1>19. ASSUME NEW r \in Runs, EndRun(r)
      PROVE  (\A d \in Requests : RequestInPlace(d))'
  BY <1>19 DEF EndRun
<1>20. ASSUME UNCHANGED vars
      PROVE  (\A d \in Requests : RequestInPlace(d))'
  BY <1>20
<1> QED
  BY <1>1, <1>2, <1>3, <1>4, <1>5, <1>6, <1>7, <1>8, <1>9, <1>10, <1>11, <1>12, <1>13,
     <1>14, <1>15, <1>16, <1>17, <1>18, <1>19, <1>20
     DEF Next, Membership, Lifecycle, SoftDelete

\* What the requests have read stays true at every step.
LEMMA ReadingPreserved == InPlace /\ [Next]_vars => (\A d \in Requests : StillTrue(d))'
<1> SUFFICES ASSUME InPlace, [Next]_vars
             PROVE  (\A d \in Requests : StillTrue(d))'
  OBVIOUS
<1> USE NoneAssumption DEF InPlace, TypeOK, Locked, RequestInPlace, StillTrue, vars,
        workspaceVars, loadedVars, runVars
<1>1. ASSUME NEW c \in Requests, NEW a \in {"add", "remove"}, NEW w \in Workspaces,
             NEW p \in Papers, StartMembership(c, a, w, p)
      PROVE  (\A d \in Requests : StillTrue(d))'
  BY <1>1 DEF StartMembership, Begin, Acquire
<1>2. ASSUME NEW c \in Requests, LoadForAdd(c)
      PROVE  (\A d \in Requests : StillTrue(d))'
  BY <1>2 DEF LoadForAdd, Load, Goes
<1>3. ASSUME NEW c \in Requests, CommitAdd(c)
      PROVE  (\A d \in Requests : StillTrue(d))'
  BY <1>3 DEF CommitAdd, AdvanceRevision, Ends
<1>4. ASSUME NEW c \in Requests, LoadForRemove(c)
      PROVE  (\A d \in Requests : StillTrue(d))'
  BY <1>4 DEF LoadForRemove, Load, Goes
<1>5. ASSUME NEW c \in Requests, CommitRemove(c)
      PROVE  (\A d \in Requests : StillTrue(d))'
  BY <1>5 DEF CommitRemove, AdvanceRevision, Ends
<1>6. ASSUME NEW c \in Requests, NEW a \in {"archive", "delete"}, NEW w \in Workspaces,
             StartLifecycle(c, a, w)
      PROVE  (\A d \in Requests : StillTrue(d))'
  BY <1>6 DEF StartLifecycle, Begin
<1>7. ASSUME NEW c \in Requests, LoadForArchive(c)
      PROVE  (\A d \in Requests : StillTrue(d))'
  BY <1>7 DEF LoadForArchive, Load, Goes
<1>8. ASSUME NEW c \in Requests, CommitArchive(c)
      PROVE  (\A d \in Requests : StillTrue(d))'
  BY <1>8 DEF CommitArchive, AdvanceRevision, Ends
<1>9. ASSUME NEW c \in Requests, LoadForDelete(c)
      PROVE  (\A d \in Requests : StillTrue(d))'
  BY <1>9 DEF LoadForDelete, Load, Goes
<1>10. ASSUME NEW c \in Requests, CommitRevocation(c)
      PROVE  (\A d \in Requests : StillTrue(d))'
  BY <1>10 DEF CommitRevocation, AdvanceRevision, Goes
<1>11. ASSUME NEW c \in Requests, RemoveStorage(c)
      PROVE  (\A d \in Requests : StillTrue(d))'
  BY <1>11 DEF RemoveStorage, Load, Goes
<1>12. ASSUME NEW c \in Requests, Settle(c)
      PROVE  (\A d \in Requests : StillTrue(d))'
  BY <1>12 DEF Settle, AdvanceRevision, Ends
<1>13. ASSUME NEW c \in Requests, NEW p \in Papers, StartSoftDelete(c, p)
      PROVE  (\A d \in Requests : StillTrue(d))'
  BY <1>13 DEF StartSoftDelete, Begin, Acquire
<1>14. ASSUME NEW c \in Requests, CheckUse(c)
      PROVE  (\A d \in Requests : StillTrue(d))'
  BY <1>14 DEF CheckUse, Goes
<1>15. ASSUME NEW c \in Requests, CommitSoftDelete(c)
      PROVE  (\A d \in Requests : StillTrue(d))'
  BY <1>15 DEF CommitSoftDelete, Ends
<1>16. ASSUME NEW p \in Papers, Restore(p)
      PROVE  (\A d \in Requests : StillTrue(d))'
  BY <1>16 DEF Restore
<1>17. ASSUME NEW c \in Requests, Refused(c)
      PROVE  (\A d \in Requests : StillTrue(d))'
  BY <1>17 DEF Refused, Ends
<1>18. ASSUME NEW r \in Runs, NEW w \in Workspaces, CreateRun(r, w)
      PROVE  (\A d \in Requests : StillTrue(d))'
  BY <1>18 DEF CreateRun
<1>19. ASSUME NEW r \in Runs, EndRun(r)
      PROVE  (\A d \in Requests : StillTrue(d))'
  BY <1>19 DEF EndRun
<1>20. ASSUME UNCHANGED vars
      PROVE  (\A d \in Requests : StillTrue(d))'
  BY <1>20
<1> QED
  BY <1>1, <1>2, <1>3, <1>4, <1>5, <1>6, <1>7, <1>8, <1>9, <1>10, <1>11, <1>12, <1>13,
     <1>14, <1>15, <1>16, <1>17, <1>18, <1>19, <1>20
     DEF Next, Membership, Lifecycle, SoftDelete

\* Every step keeps the runs and their workspaces together.
LEMMA RunPreserved == InPlace /\ [Next]_vars => (\A s \in Runs : RunInPlace(s))'
<1> SUFFICES ASSUME InPlace, [Next]_vars
             PROVE  (\A s \in Runs : RunInPlace(s))'
  OBVIOUS
<1> USE NoneAssumption DEF InPlace, TypeOK, RequestInPlace, StillTrue, RunInPlace, Locked,
        vars, workspaceVars, loadedVars, runVars
<1>1. ASSUME NEW c \in Requests, NEW a \in {"add", "remove"}, NEW w \in Workspaces,
             NEW p \in Papers, StartMembership(c, a, w, p)
      PROVE  (\A s \in Runs : RunInPlace(s))'
  BY <1>1 DEF StartMembership, Begin, Acquire
<1>2. ASSUME NEW c \in Requests, LoadForAdd(c)
      PROVE  (\A s \in Runs : RunInPlace(s))'
  BY <1>2 DEF LoadForAdd, Load, Goes
<1>3. ASSUME NEW c \in Requests, CommitAdd(c)
      PROVE  (\A s \in Runs : RunInPlace(s))'
  BY <1>3 DEF CommitAdd, AdvanceRevision, Ends
<1>4. ASSUME NEW c \in Requests, LoadForRemove(c)
      PROVE  (\A s \in Runs : RunInPlace(s))'
  BY <1>4 DEF LoadForRemove, Load, Goes
<1>5. ASSUME NEW c \in Requests, CommitRemove(c)
      PROVE  (\A s \in Runs : RunInPlace(s))'
  BY <1>5 DEF CommitRemove, AdvanceRevision, Ends
<1>6. ASSUME NEW c \in Requests, NEW a \in {"archive", "delete"}, NEW w \in Workspaces,
             StartLifecycle(c, a, w)
      PROVE  (\A s \in Runs : RunInPlace(s))'
  BY <1>6 DEF StartLifecycle, Begin
<1>7. ASSUME NEW c \in Requests, LoadForArchive(c)
      PROVE  (\A s \in Runs : RunInPlace(s))'
  BY <1>7 DEF LoadForArchive, Load, Goes
<1>8. ASSUME NEW c \in Requests, CommitArchive(c)
      PROVE  (\A s \in Runs : RunInPlace(s))'
  BY <1>8 DEF CommitArchive, AdvanceRevision, Ends
<1>9. ASSUME NEW c \in Requests, LoadForDelete(c)
      PROVE  (\A s \in Runs : RunInPlace(s))'
  BY <1>9 DEF LoadForDelete, Load, Goes
<1>10. ASSUME NEW c \in Requests, CommitRevocation(c)
      PROVE  (\A s \in Runs : RunInPlace(s))'
  BY <1>10 DEF CommitRevocation, AdvanceRevision, Goes
<1>11. ASSUME NEW c \in Requests, RemoveStorage(c)
      PROVE  (\A s \in Runs : RunInPlace(s))'
  BY <1>11 DEF RemoveStorage, Load, Goes
<1>12. ASSUME NEW c \in Requests, Settle(c)
      PROVE  (\A s \in Runs : RunInPlace(s))'
  BY <1>12 DEF Settle, AdvanceRevision, Ends
<1>13. ASSUME NEW c \in Requests, NEW p \in Papers, StartSoftDelete(c, p)
      PROVE  (\A s \in Runs : RunInPlace(s))'
  BY <1>13 DEF StartSoftDelete, Begin, Acquire
<1>14. ASSUME NEW c \in Requests, CheckUse(c)
      PROVE  (\A s \in Runs : RunInPlace(s))'
  BY <1>14 DEF CheckUse, Goes
<1>15. ASSUME NEW c \in Requests, CommitSoftDelete(c)
      PROVE  (\A s \in Runs : RunInPlace(s))'
  BY <1>15 DEF CommitSoftDelete, Ends
<1>16. ASSUME NEW p \in Papers, Restore(p)
      PROVE  (\A s \in Runs : RunInPlace(s))'
  BY <1>16 DEF Restore
<1>17. ASSUME NEW c \in Requests, Refused(c)
      PROVE  (\A s \in Runs : RunInPlace(s))'
  BY <1>17 DEF Refused, Ends
<1>18. ASSUME NEW r \in Runs, NEW w \in Workspaces, CreateRun(r, w)
      PROVE  (\A s \in Runs : RunInPlace(s))'
  BY <1>18 DEF CreateRun
<1>19. ASSUME NEW r \in Runs, EndRun(r)
      PROVE  (\A s \in Runs : RunInPlace(s))'
  BY <1>19 DEF EndRun
<1>20. ASSUME UNCHANGED vars
      PROVE  (\A s \in Runs : RunInPlace(s))'
  BY <1>20
<1> QED
  BY <1>1, <1>2, <1>3, <1>4, <1>5, <1>6, <1>7, <1>8, <1>9, <1>10, <1>11, <1>12, <1>13,
     <1>14, <1>15, <1>16, <1>17, <1>18, <1>19, <1>20
     DEF Next, Membership, Lifecycle, SoftDelete

\* No step gives an active workspace a deleted paper.
LEMMA MembersPreserved == InPlace /\ [Next]_vars => NoDeletedMember'
<1> SUFFICES ASSUME InPlace, [Next]_vars
             PROVE  NoDeletedMember'
  OBVIOUS
<1> USE NoneAssumption DEF InPlace, TypeOK, RequestInPlace, StillTrue, Locked,
        NoDeletedMember, vars, workspaceVars, loadedVars, runVars
<1>1. ASSUME NEW c \in Requests, NEW a \in {"add", "remove"}, NEW w \in Workspaces,
             NEW p \in Papers, StartMembership(c, a, w, p)
      PROVE  NoDeletedMember'
  BY <1>1 DEF StartMembership, Begin, Acquire
<1>2. ASSUME NEW c \in Requests, LoadForAdd(c)
      PROVE  NoDeletedMember'
  BY <1>2 DEF LoadForAdd, Load, Goes
<1>3. ASSUME NEW c \in Requests, CommitAdd(c)
      PROVE  NoDeletedMember'
  BY <1>3 DEF CommitAdd, AdvanceRevision, Ends
<1>4. ASSUME NEW c \in Requests, LoadForRemove(c)
      PROVE  NoDeletedMember'
  BY <1>4 DEF LoadForRemove, Load, Goes
<1>5. ASSUME NEW c \in Requests, CommitRemove(c)
      PROVE  NoDeletedMember'
  BY <1>5 DEF CommitRemove, AdvanceRevision, Ends
<1>6. ASSUME NEW c \in Requests, NEW a \in {"archive", "delete"}, NEW w \in Workspaces,
             StartLifecycle(c, a, w)
      PROVE  NoDeletedMember'
  BY <1>6 DEF StartLifecycle, Begin
<1>7. ASSUME NEW c \in Requests, LoadForArchive(c)
      PROVE  NoDeletedMember'
  BY <1>7 DEF LoadForArchive, Load, Goes
<1>8. ASSUME NEW c \in Requests, CommitArchive(c)
      PROVE  NoDeletedMember'
  BY <1>8 DEF CommitArchive, AdvanceRevision, Ends
<1>9. ASSUME NEW c \in Requests, LoadForDelete(c)
      PROVE  NoDeletedMember'
  BY <1>9 DEF LoadForDelete, Load, Goes
<1>10. ASSUME NEW c \in Requests, CommitRevocation(c)
      PROVE  NoDeletedMember'
  BY <1>10 DEF CommitRevocation, AdvanceRevision, Goes
<1>11. ASSUME NEW c \in Requests, RemoveStorage(c)
      PROVE  NoDeletedMember'
  BY <1>11 DEF RemoveStorage, Load, Goes
<1>12. ASSUME NEW c \in Requests, Settle(c)
      PROVE  NoDeletedMember'
  BY <1>12 DEF Settle, AdvanceRevision, Ends
<1>13. ASSUME NEW c \in Requests, NEW p \in Papers, StartSoftDelete(c, p)
      PROVE  NoDeletedMember'
  BY <1>13 DEF StartSoftDelete, Begin, Acquire
<1>14. ASSUME NEW c \in Requests, CheckUse(c)
      PROVE  NoDeletedMember'
  BY <1>14 DEF CheckUse, Goes
<1>15. ASSUME NEW c \in Requests, CommitSoftDelete(c)
      PROVE  NoDeletedMember'
  BY <1>15 DEF CommitSoftDelete, Ends
<1>16. ASSUME NEW p \in Papers, Restore(p)
      PROVE  NoDeletedMember'
  BY <1>16 DEF Restore
<1>17. ASSUME NEW c \in Requests, Refused(c)
      PROVE  NoDeletedMember'
  BY <1>17 DEF Refused, Ends
<1>18. ASSUME NEW r \in Runs, NEW w \in Workspaces, CreateRun(r, w)
      PROVE  NoDeletedMember'
  BY <1>18 DEF CreateRun
<1>19. ASSUME NEW r \in Runs, EndRun(r)
      PROVE  NoDeletedMember'
  BY <1>19 DEF EndRun
<1>20. ASSUME UNCHANGED vars
      PROVE  NoDeletedMember'
  BY <1>20
<1> QED
  BY <1>1, <1>2, <1>3, <1>4, <1>5, <1>6, <1>7, <1>8, <1>9, <1>10, <1>11, <1>12, <1>13,
     <1>14, <1>15, <1>16, <1>17, <1>18, <1>19, <1>20
     DEF Next, Membership, Lifecycle, SoftDelete

\* No step shows a workspace as active whose storage was removed.
LEMMA CleanedPreserved == InPlace /\ [Next]_vars => CleanedNeverActive'
<1> SUFFICES ASSUME InPlace, [Next]_vars
             PROVE  CleanedNeverActive'
  OBVIOUS
<1> USE NoneAssumption DEF InPlace, TypeOK, RequestInPlace, StillTrue, Locked,
        CleanedNeverActive, vars, workspaceVars, loadedVars, runVars
<1>1. ASSUME NEW c \in Requests, NEW a \in {"add", "remove"}, NEW w \in Workspaces,
             NEW p \in Papers, StartMembership(c, a, w, p)
      PROVE  CleanedNeverActive'
  BY <1>1 DEF StartMembership, Begin, Acquire
<1>2. ASSUME NEW c \in Requests, LoadForAdd(c)
      PROVE  CleanedNeverActive'
  BY <1>2 DEF LoadForAdd, Load, Goes
<1>3. ASSUME NEW c \in Requests, CommitAdd(c)
      PROVE  CleanedNeverActive'
  BY <1>3 DEF CommitAdd, AdvanceRevision, Ends
<1>4. ASSUME NEW c \in Requests, LoadForRemove(c)
      PROVE  CleanedNeverActive'
  BY <1>4 DEF LoadForRemove, Load, Goes
<1>5. ASSUME NEW c \in Requests, CommitRemove(c)
      PROVE  CleanedNeverActive'
  BY <1>5 DEF CommitRemove, AdvanceRevision, Ends
<1>6. ASSUME NEW c \in Requests, NEW a \in {"archive", "delete"}, NEW w \in Workspaces,
             StartLifecycle(c, a, w)
      PROVE  CleanedNeverActive'
  BY <1>6 DEF StartLifecycle, Begin
<1>7. ASSUME NEW c \in Requests, LoadForArchive(c)
      PROVE  CleanedNeverActive'
  BY <1>7 DEF LoadForArchive, Load, Goes
<1>8. ASSUME NEW c \in Requests, CommitArchive(c)
      PROVE  CleanedNeverActive'
  BY <1>8 DEF CommitArchive, AdvanceRevision, Ends
<1>9. ASSUME NEW c \in Requests, LoadForDelete(c)
      PROVE  CleanedNeverActive'
  BY <1>9 DEF LoadForDelete, Load, Goes
<1>10. ASSUME NEW c \in Requests, CommitRevocation(c)
      PROVE  CleanedNeverActive'
  BY <1>10 DEF CommitRevocation, AdvanceRevision, Goes
<1>11. ASSUME NEW c \in Requests, RemoveStorage(c)
      PROVE  CleanedNeverActive'
  BY <1>11 DEF RemoveStorage, Load, Goes
<1>12. ASSUME NEW c \in Requests, Settle(c)
      PROVE  CleanedNeverActive'
  BY <1>12 DEF Settle, AdvanceRevision, Ends
<1>13. ASSUME NEW c \in Requests, NEW p \in Papers, StartSoftDelete(c, p)
      PROVE  CleanedNeverActive'
  BY <1>13 DEF StartSoftDelete, Begin, Acquire
<1>14. ASSUME NEW c \in Requests, CheckUse(c)
      PROVE  CleanedNeverActive'
  BY <1>14 DEF CheckUse, Goes
<1>15. ASSUME NEW c \in Requests, CommitSoftDelete(c)
      PROVE  CleanedNeverActive'
  BY <1>15 DEF CommitSoftDelete, Ends
<1>16. ASSUME NEW p \in Papers, Restore(p)
      PROVE  CleanedNeverActive'
  BY <1>16 DEF Restore
<1>17. ASSUME NEW c \in Requests, Refused(c)
      PROVE  CleanedNeverActive'
  BY <1>17 DEF Refused, Ends
<1>18. ASSUME NEW r \in Runs, NEW w \in Workspaces, CreateRun(r, w)
      PROVE  CleanedNeverActive'
  BY <1>18 DEF CreateRun
<1>19. ASSUME NEW r \in Runs, EndRun(r)
      PROVE  CleanedNeverActive'
  BY <1>19 DEF EndRun
<1>20. ASSUME UNCHANGED vars
      PROVE  CleanedNeverActive'
  BY <1>20
<1> QED
  BY <1>1, <1>2, <1>3, <1>4, <1>5, <1>6, <1>7, <1>8, <1>9, <1>10, <1>11, <1>12, <1>13,
     <1>14, <1>15, <1>16, <1>17, <1>18, <1>19, <1>20
     DEF Next, Membership, Lifecycle, SoftDelete

-----------------------------------------------------------------------------
(* The theorems.                                                           *)

\* The invariant holds in every state: the library starts with it and each step
\* keeps it.
THEOREM LibraryInvariant == Spec => []InPlace
<1>1. Init => InPlace
  BY NoneAssumption
     DEF Init, InPlace, TypeOK, At, Status, RequestInPlace, Locked, StillTrue,
         RunInPlace, NoDeletedMember, CleanedNeverActive
<1>2. InPlace /\ [Next]_vars => InPlace'
  BY TypePreserved, RequestPreserved, ReadingPreserved, RunPreserved, MembersPreserved,
     CleanedPreserved
     DEF InPlace
<1> QED
  BY <1>1, <1>2, PTL DEF Spec

\* Every variable keeps its type, for any number of requests and runs.
THEOREM LibraryTypeCorrect == Spec => []TypeOK
<1>1. InPlace => TypeOK
  BY DEF InPlace
<1> QED
  BY <1>1, LibraryInvariant, PTL

\* A run the gateway lets read sees the papers of the moment it was created: an
\* active workspace that came back to the run's revision would have lost a commit
\* made under the lock.
THEOREM RunReadsPinnedMembers == Spec => []RevisionPinsMembers
<1>1. InPlace => RevisionPinsMembers
  BY DEF InPlace, RunInPlace, RevisionPinsMembers, MayRead
<1> QED
  BY <1>1, LibraryInvariant, PTL

\* An addition and a soft delete of one paper never both succeed.
THEOREM MembersAreLive == Spec => []NoDeletedMember
<1>1. InPlace => NoDeletedMember
  BY DEF InPlace
<1> QED
  BY <1>1, LibraryInvariant, PTL

\* Once the storage of a workspace is gone, no command shows the workspace as
\* active, whatever it had loaded before.
THEOREM RemovedStorageStaysInactive == Spec => []CleanedNeverActive
<1>1. InPlace => CleanedNeverActive
  BY DEF InPlace
<1> QED
  BY <1>1, LibraryInvariant, PTL
=============================================================================

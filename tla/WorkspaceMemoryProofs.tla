------------------------ MODULE WorkspaceMemoryProofs ------------------------
(***************************************************************************)
(* Proofs about WorkspaceMemory, for any sets of papers and runs.          *)
(*                                                                         *)
(* As long as the workspace is there, the worker has in memory what is in  *)
(* the files: it loads them when it takes a run and is their only writer.  *)
(* So a write of everything it has forgets nothing.                        *)
(***************************************************************************)
EXTENDS WorkspaceMemory, TLAPS

\* What the worker does, and for which run.
WorkInPlace ==
    /\ (worker = None) <=> (at = "idle")
    /\ at \in {"opened", "session"} => runAt[worker] = "running"
    /\ at \in {"episode", "promotion"} => runAt[worker] = "completed"
    /\ delete \in {"revoked", "removed"} => status # "active"

\* In a workspace that is there, the worker knows the files.
WorkerKnows ==
    status = "active" /\ worker # None =>
        /\ myEpisodes = episodes
        /\ myCycles = cycles
        /\ myEntries = entries

\* No run was created at a later revision than that of now.
RevisionsPast == \A r \in Runs : runRevision[r] <= revision

\* An episode is there before the cycle of its run.
EpisodeFirst == at = "promotion" /\ status = "active" => worker \in episodes

\* The inductive invariant.
InPlace ==
    /\ TypeOK
    /\ WorkInPlace
    /\ WorkerKnows
    /\ RevisionsPast
    /\ EpisodeFirst
    /\ SessionReadsLiveEntries
    /\ EvolutionFollowsCompletion

-----------------------------------------------------------------------------
(* Entries.                                                                *)

\* The health pass keeps the type of an entry, and what it is about.
LEMMA StaleEntry ==
    ASSUME NEW e \in Entry
    PROVE  /\ [e EXCEPT !.state = "stale"] \in Entry
           /\ [e EXCEPT !.state = "stale"].papers = e.papers
           /\ [e EXCEPT !.state = "stale"].by = e.by
           /\ [e EXCEPT !.state = "stale"].state = "stale"
BY DEF Entry

\* What the health pass leaves is healthy, and the same entries are there.
LEMMA MaintainedEntries ==
    ASSUME TypeOK
    PROVE  /\ Maintained \in [Runs -> Entry]
           /\ \A r \in Runs : Healthy(Maintained[r])
           /\ \A r \in Runs : Maintained[r].by = myEntries[r].by
           /\ \A r \in Runs :
                 Maintained[r].state # "absent" <=> myEntries[r].state # "absent"
<1> SUFFICES ASSUME NEW r \in Runs
             PROVE  /\ Maintained[r] \in Entry
                    /\ Healthy(Maintained[r])
                    /\ Maintained[r].by = myEntries[r].by
                    /\ Maintained[r].state # "absent" <=> myEntries[r].state # "absent"
  BY DEF Maintained
<1>1. myEntries[r] \in Entry
  BY DEF TypeOK
<1>2. CASE Healthy(myEntries[r])
  BY <1>1, <1>2 DEF Maintained
<1>3. CASE ~Healthy(myEntries[r])
  <2>1. myEntries[r].state # "absent"
    BY <1>3 DEF Healthy
  <2>2. Maintained[r] = [myEntries[r] EXCEPT !.state = "stale"]
    BY <1>3 DEF Maintained
  <2> QED
    BY <1>1, <2>1, <2>2, StaleEntry DEF Healthy
<1> QED
  BY <1>2, <1>3

\* A proposal leaves the entries as they are but for one, which is of the worker.
LEMMA ProposedEntries ==
    ASSUME TypeOK, worker \in Runs, NEW proposed \in Proposals
    PROVE  /\ proposed \in [Runs -> Entry]
           /\ \A r \in Runs :
                 \/ proposed[r] = myEntries[r]
                 \/ proposed[r].state = "active" /\ proposed[r].by = worker
<1>1. CASE proposed = myEntries
  BY <1>1 DEF TypeOK
<1>2. ASSUME NEW t \in Targets, NEW on \in (SUBSET evidence[worker]) \ {{}},
             proposed = [myEntries EXCEPT ![t] = [state |-> "active", papers |-> on, by
        |-> worker]]
      PROVE  /\ proposed \in [Runs -> Entry]
             /\ \A r \in Runs :
                   \/ proposed[r] = myEntries[r]
                   \/ proposed[r].state = "active" /\ proposed[r].by = worker
  <2>1. t \in Runs
    BY DEF Targets
  <2>2. [state |-> "active", papers |-> on, by |-> worker] \in Entry
    BY DEF Entry, TypeOK
  <2> QED
    BY <1>2, <2>1, <2>2 DEF TypeOK
<1> QED
  BY <1>1, <1>2 DEF Proposals

-----------------------------------------------------------------------------
(* Each part of the invariant, kept by every step.                         *)

\* Every step keeps the types.
LEMMA TypePreserved == InPlace /\ [Next]_vars => TypeOK'
<1> SUFFICES ASSUME InPlace, [Next]_vars
             PROVE  TypeOK'
  OBVIOUS
<1> USE NoneAssumption DEF InPlace, TypeOK, WorkInPlace, vars, workspaceVars, runVars,
        fileVars, myVars
<1>1. ASSUME NEW p \in Papers, AdmitChange(p)
      PROVE  TypeOK'
  BY <1>1 DEF AdmitChange
<1>2. ASSUME CommitChange
      PROVE  TypeOK'
  BY <1>2 DEF CommitChange
<1>3. ASSUME AdmitDelete
      PROVE  TypeOK'
  BY <1>3 DEF AdmitDelete
<1>4. ASSUME CommitRevocation
      PROVE  TypeOK'
  BY <1>4 DEF CommitRevocation
<1>5. ASSUME RemoveStorage
      PROVE  TypeOK'
  <2>1. NoEntries \in [Runs -> Entry]
    BY DEF NoEntries, NoEntry, Entry
  <2> QED
    BY <1>5, <2>1 DEF RemoveStorage
<1>6. ASSUME Settle
      PROVE  TypeOK'
  BY <1>6 DEF Settle
<1>7. ASSUME NEW r \in Runs, CreateRun(r)
      PROVE  TypeOK'
  BY <1>7 DEF CreateRun
<1>8. ASSUME NEW r \in Runs, OpenScope(r)
      PROVE  TypeOK'
  BY <1>8 DEF OpenScope
<1>9. ASSUME StartSession
      PROVE  TypeOK'
  <2>1. Maintained \in [Runs -> Entry]
    BY MaintainedEntries
  <2> QED
    BY <1>9, <2>1 DEF StartSession
<1>10. ASSUME EndSession
      PROVE  TypeOK'
  BY <1>10 DEF EndSession
<1>11. ASSUME NEW p \in Papers, Support(p)
      PROVE  TypeOK'
  BY <1>11 DEF Support
<1>12. ASSUME NEW outcome \in {"paused", "failed"}, LeaveRun(outcome)
      PROVE  TypeOK'
  BY <1>12 DEF LeaveRun
<1>13. ASSUME Complete
      PROVE  TypeOK'
  BY <1>13 DEF Complete
<1>14. ASSUME PutEpisode
      PROVE  TypeOK'
  BY <1>14 DEF PutEpisode
<1>15. ASSUME CommitPromotion
      PROVE  TypeOK'
  <2>1. worker \in Runs
    BY <1>15 DEF CommitPromotion
  <2>2. myEntries' \in [Runs -> Entry]
    BY <1>15, <2>1, ProposedEntries DEF CommitPromotion
  <2> QED
    BY <1>15, <2>1, <2>2 DEF CommitPromotion
<1>16. ASSUME EvolutionFails
      PROVE  TypeOK'
  BY <1>16 DEF EvolutionFails
<1>17. ASSUME Restart
      PROVE  TypeOK'
  <2>1. NoEntries \in [Runs -> Entry]
    BY DEF NoEntries, NoEntry, Entry
  <2> QED
    BY <1>17, <2>1 DEF Restart
<1>18. ASSUME UNCHANGED vars
      PROVE  TypeOK'
  BY <1>18
<1> QED
  BY <1>1, <1>2, <1>3, <1>4, <1>5, <1>6, <1>7, <1>8, <1>9, <1>10, <1>11, <1>12, <1>13,
     <1>14, <1>15, <1>16, <1>17, <1>18
     DEF Next, Request, Work

\* Every step leaves the worker with the run it executes.
LEMMA WorkPreserved == InPlace /\ [Next]_vars => WorkInPlace'
<1> SUFFICES ASSUME InPlace, [Next]_vars
             PROVE  WorkInPlace'
  OBVIOUS
<1> USE NoneAssumption DEF InPlace, TypeOK, WorkInPlace, vars, workspaceVars, runVars,
        fileVars, myVars
<1>1. ASSUME NEW p \in Papers, AdmitChange(p)
      PROVE  WorkInPlace'
  BY <1>1 DEF AdmitChange
<1>2. ASSUME CommitChange
      PROVE  WorkInPlace'
  BY <1>2 DEF CommitChange
<1>3. ASSUME AdmitDelete
      PROVE  WorkInPlace'
  BY <1>3 DEF AdmitDelete
<1>4. ASSUME CommitRevocation
      PROVE  WorkInPlace'
  BY <1>4 DEF CommitRevocation
<1>5. ASSUME RemoveStorage
      PROVE  WorkInPlace'
  BY <1>5 DEF RemoveStorage
<1>6. ASSUME Settle
      PROVE  WorkInPlace'
  BY <1>6 DEF Settle
<1>7. ASSUME NEW r \in Runs, CreateRun(r)
      PROVE  WorkInPlace'
  BY <1>7 DEF CreateRun
<1>8. ASSUME NEW r \in Runs, OpenScope(r)
      PROVE  WorkInPlace'
  BY <1>8 DEF OpenScope
<1>9. ASSUME StartSession
      PROVE  WorkInPlace'
  BY <1>9 DEF StartSession
<1>10. ASSUME EndSession
      PROVE  WorkInPlace'
  BY <1>10 DEF EndSession
<1>11. ASSUME NEW p \in Papers, Support(p)
      PROVE  WorkInPlace'
  BY <1>11 DEF Support
<1>12. ASSUME NEW outcome \in {"paused", "failed"}, LeaveRun(outcome)
      PROVE  WorkInPlace'
  BY <1>12 DEF LeaveRun
<1>13. ASSUME Complete
      PROVE  WorkInPlace'
  BY <1>13 DEF Complete
<1>14. ASSUME PutEpisode
      PROVE  WorkInPlace'
  BY <1>14 DEF PutEpisode
<1>15. ASSUME CommitPromotion
      PROVE  WorkInPlace'
  BY <1>15 DEF CommitPromotion
<1>16. ASSUME EvolutionFails
      PROVE  WorkInPlace'
  BY <1>16 DEF EvolutionFails
<1>17. ASSUME Restart
      PROVE  WorkInPlace'
  BY <1>17 DEF Restart
<1>18. ASSUME UNCHANGED vars
      PROVE  WorkInPlace'
  BY <1>18
<1> QED
  BY <1>1, <1>2, <1>3, <1>4, <1>5, <1>6, <1>7, <1>8, <1>9, <1>10, <1>11, <1>12, <1>13,
     <1>14, <1>15, <1>16, <1>17, <1>18
     DEF Next, Request, Work

\* Every write goes to memory and file alike.
LEMMA KnowledgePreserved == InPlace /\ [Next]_vars => WorkerKnows'
<1> SUFFICES ASSUME InPlace, [Next]_vars
             PROVE  WorkerKnows'
  OBVIOUS
<1> USE NoneAssumption DEF InPlace, TypeOK, WorkInPlace, WorkerKnows, vars, workspaceVars,
        runVars, fileVars, myVars
<1>1. ASSUME NEW p \in Papers, AdmitChange(p)
      PROVE  WorkerKnows'
  BY <1>1 DEF AdmitChange
<1>2. ASSUME CommitChange
      PROVE  WorkerKnows'
  BY <1>2 DEF CommitChange
<1>3. ASSUME AdmitDelete
      PROVE  WorkerKnows'
  BY <1>3 DEF AdmitDelete
<1>4. ASSUME CommitRevocation
      PROVE  WorkerKnows'
  BY <1>4 DEF CommitRevocation
<1>5. ASSUME RemoveStorage
      PROVE  WorkerKnows'
  BY <1>5 DEF RemoveStorage
<1>6. ASSUME Settle
      PROVE  WorkerKnows'
  BY <1>6 DEF Settle
<1>7. ASSUME NEW r \in Runs, CreateRun(r)
      PROVE  WorkerKnows'
  BY <1>7 DEF CreateRun
<1>8. ASSUME NEW r \in Runs, OpenScope(r)
      PROVE  WorkerKnows'
  BY <1>8 DEF OpenScope
<1>9. ASSUME StartSession
      PROVE  WorkerKnows'
  BY <1>9 DEF StartSession
<1>10. ASSUME EndSession
      PROVE  WorkerKnows'
  BY <1>10 DEF EndSession
<1>11. ASSUME NEW p \in Papers, Support(p)
      PROVE  WorkerKnows'
  BY <1>11 DEF Support
<1>12. ASSUME NEW outcome \in {"paused", "failed"}, LeaveRun(outcome)
      PROVE  WorkerKnows'
  BY <1>12 DEF LeaveRun
<1>13. ASSUME Complete
      PROVE  WorkerKnows'
  BY <1>13 DEF Complete
<1>14. ASSUME PutEpisode
      PROVE  WorkerKnows'
  BY <1>14 DEF PutEpisode
<1>15. ASSUME CommitPromotion
      PROVE  WorkerKnows'
  BY <1>15 DEF CommitPromotion
<1>16. ASSUME EvolutionFails
      PROVE  WorkerKnows'
  BY <1>16 DEF EvolutionFails
<1>17. ASSUME Restart
      PROVE  WorkerKnows'
  BY <1>17 DEF Restart
<1>18. ASSUME UNCHANGED vars
      PROVE  WorkerKnows'
  BY <1>18
<1> QED
  BY <1>1, <1>2, <1>3, <1>4, <1>5, <1>6, <1>7, <1>8, <1>9, <1>10, <1>11, <1>12, <1>13,
     <1>14, <1>15, <1>16, <1>17, <1>18
     DEF Next, Request, Work

\* Revisions only grow.
LEMMA RevisionsPreserved == InPlace /\ [Next]_vars => RevisionsPast'
<1> SUFFICES ASSUME InPlace, [Next]_vars
             PROVE  RevisionsPast'
  OBVIOUS
<1> USE NoneAssumption DEF InPlace, TypeOK, WorkInPlace, RevisionsPast, vars,
        workspaceVars, runVars, fileVars, myVars
<1>1. ASSUME NEW p \in Papers, AdmitChange(p)
      PROVE  RevisionsPast'
  BY <1>1 DEF AdmitChange
<1>2. ASSUME CommitChange
      PROVE  RevisionsPast'
  BY <1>2 DEF CommitChange
<1>3. ASSUME AdmitDelete
      PROVE  RevisionsPast'
  BY <1>3 DEF AdmitDelete
<1>4. ASSUME CommitRevocation
      PROVE  RevisionsPast'
  BY <1>4 DEF CommitRevocation
<1>5. ASSUME RemoveStorage
      PROVE  RevisionsPast'
  BY <1>5 DEF RemoveStorage
<1>6. ASSUME Settle
      PROVE  RevisionsPast'
  BY <1>6 DEF Settle
<1>7. ASSUME NEW r \in Runs, CreateRun(r)
      PROVE  RevisionsPast'
  BY <1>7 DEF CreateRun
<1>8. ASSUME NEW r \in Runs, OpenScope(r)
      PROVE  RevisionsPast'
  BY <1>8 DEF OpenScope
<1>9. ASSUME StartSession
      PROVE  RevisionsPast'
  BY <1>9 DEF StartSession
<1>10. ASSUME EndSession
      PROVE  RevisionsPast'
  BY <1>10 DEF EndSession
<1>11. ASSUME NEW p \in Papers, Support(p)
      PROVE  RevisionsPast'
  BY <1>11 DEF Support
<1>12. ASSUME NEW outcome \in {"paused", "failed"}, LeaveRun(outcome)
      PROVE  RevisionsPast'
  BY <1>12 DEF LeaveRun
<1>13. ASSUME Complete
      PROVE  RevisionsPast'
  BY <1>13 DEF Complete
<1>14. ASSUME PutEpisode
      PROVE  RevisionsPast'
  BY <1>14 DEF PutEpisode
<1>15. ASSUME CommitPromotion
      PROVE  RevisionsPast'
  BY <1>15 DEF CommitPromotion
<1>16. ASSUME EvolutionFails
      PROVE  RevisionsPast'
  BY <1>16 DEF EvolutionFails
<1>17. ASSUME Restart
      PROVE  RevisionsPast'
  BY <1>17 DEF Restart
<1>18. ASSUME UNCHANGED vars
      PROVE  RevisionsPast'
  BY <1>18
<1> QED
  BY <1>1, <1>2, <1>3, <1>4, <1>5, <1>6, <1>7, <1>8, <1>9, <1>10, <1>11, <1>12, <1>13,
     <1>14, <1>15, <1>16, <1>17, <1>18
     DEF Next, Request, Work

\* The promotion waits for the episode.
LEMMA EpisodePreserved == InPlace /\ [Next]_vars => EpisodeFirst'
<1> SUFFICES ASSUME InPlace, [Next]_vars
             PROVE  EpisodeFirst'
  OBVIOUS
<1> USE NoneAssumption DEF InPlace, TypeOK, WorkInPlace, WorkerKnows, EpisodeFirst, vars,
        workspaceVars, runVars, fileVars, myVars
<1>1. ASSUME NEW p \in Papers, AdmitChange(p)
      PROVE  EpisodeFirst'
  BY <1>1 DEF AdmitChange
<1>2. ASSUME CommitChange
      PROVE  EpisodeFirst'
  BY <1>2 DEF CommitChange
<1>3. ASSUME AdmitDelete
      PROVE  EpisodeFirst'
  BY <1>3 DEF AdmitDelete
<1>4. ASSUME CommitRevocation
      PROVE  EpisodeFirst'
  BY <1>4 DEF CommitRevocation
<1>5. ASSUME RemoveStorage
      PROVE  EpisodeFirst'
  BY <1>5 DEF RemoveStorage
<1>6. ASSUME Settle
      PROVE  EpisodeFirst'
  BY <1>6 DEF Settle
<1>7. ASSUME NEW r \in Runs, CreateRun(r)
      PROVE  EpisodeFirst'
  BY <1>7 DEF CreateRun
<1>8. ASSUME NEW r \in Runs, OpenScope(r)
      PROVE  EpisodeFirst'
  BY <1>8 DEF OpenScope
<1>9. ASSUME StartSession
      PROVE  EpisodeFirst'
  BY <1>9 DEF StartSession
<1>10. ASSUME EndSession
      PROVE  EpisodeFirst'
  BY <1>10 DEF EndSession
<1>11. ASSUME NEW p \in Papers, Support(p)
      PROVE  EpisodeFirst'
  BY <1>11 DEF Support
<1>12. ASSUME NEW outcome \in {"paused", "failed"}, LeaveRun(outcome)
      PROVE  EpisodeFirst'
  BY <1>12 DEF LeaveRun
<1>13. ASSUME Complete
      PROVE  EpisodeFirst'
  BY <1>13 DEF Complete
<1>14. ASSUME PutEpisode
      PROVE  EpisodeFirst'
  BY <1>14 DEF PutEpisode
<1>15. ASSUME CommitPromotion
      PROVE  EpisodeFirst'
  BY <1>15 DEF CommitPromotion
<1>16. ASSUME EvolutionFails
      PROVE  EpisodeFirst'
  BY <1>16 DEF EvolutionFails
<1>17. ASSUME Restart
      PROVE  EpisodeFirst'
  BY <1>17 DEF Restart
<1>18. ASSUME UNCHANGED vars
      PROVE  EpisodeFirst'
  BY <1>18
<1> QED
  BY <1>1, <1>2, <1>3, <1>4, <1>5, <1>6, <1>7, <1>8, <1>9, <1>10, <1>11, <1>12, <1>13,
     <1>14, <1>15, <1>16, <1>17, <1>18
     DEF Next, Request, Work

\* What a session may read stays healthy.
LEMMA ReadingPreserved == InPlace /\ [Next]_vars => SessionReadsLiveEntries'
<1> SUFFICES ASSUME InPlace, [Next]_vars
             PROVE  SessionReadsLiveEntries'
  OBVIOUS
<1> USE NoneAssumption DEF InPlace, TypeOK, WorkInPlace, RevisionsPast,
        SessionReadsLiveEntries, MayRead, Healthy, vars, workspaceVars, runVars, fileVars,
        myVars
<1>1. ASSUME NEW p \in Papers, AdmitChange(p)
      PROVE  SessionReadsLiveEntries'
  BY <1>1 DEF AdmitChange
<1>2. ASSUME CommitChange
      PROVE  SessionReadsLiveEntries'
  BY <1>2 DEF CommitChange
<1>3. ASSUME AdmitDelete
      PROVE  SessionReadsLiveEntries'
  BY <1>3 DEF AdmitDelete
<1>4. ASSUME CommitRevocation
      PROVE  SessionReadsLiveEntries'
  BY <1>4 DEF CommitRevocation
<1>5. ASSUME RemoveStorage
      PROVE  SessionReadsLiveEntries'
  BY <1>5 DEF RemoveStorage
<1>6. ASSUME Settle
      PROVE  SessionReadsLiveEntries'
  BY <1>6 DEF Settle
<1>7. ASSUME NEW r \in Runs, CreateRun(r)
      PROVE  SessionReadsLiveEntries'
  BY <1>7 DEF CreateRun
<1>8. ASSUME NEW r \in Runs, OpenScope(r)
      PROVE  SessionReadsLiveEntries'
  BY <1>8 DEF OpenScope
<1>9. ASSUME StartSession
      PROVE  SessionReadsLiveEntries'
  <2>1. \A r \in Runs : Healthy(Maintained[r])
    BY MaintainedEntries
  <2>2. SUFFICES ASSUME status = "active", NEW r \in Runs
                 PROVE  Healthy(entries'[r])
    BY <1>9 DEF StartSession, Healthy
  <2>3. entries' = Maintained
    BY <1>9, <2>2 DEF StartSession, WorkerKnows
  <2> QED
    BY <1>9, <2>1, <2>3 DEF Healthy
<1>10. ASSUME EndSession
      PROVE  SessionReadsLiveEntries'
  BY <1>10 DEF EndSession
<1>11. ASSUME NEW p \in Papers, Support(p)
      PROVE  SessionReadsLiveEntries'
  BY <1>11 DEF Support
<1>12. ASSUME NEW outcome \in {"paused", "failed"}, LeaveRun(outcome)
      PROVE  SessionReadsLiveEntries'
  BY <1>12 DEF LeaveRun
<1>13. ASSUME Complete
      PROVE  SessionReadsLiveEntries'
  BY <1>13 DEF Complete
<1>14. ASSUME PutEpisode
      PROVE  SessionReadsLiveEntries'
  BY <1>14 DEF PutEpisode
<1>15. ASSUME CommitPromotion
      PROVE  SessionReadsLiveEntries'
  BY <1>15 DEF CommitPromotion
<1>16. ASSUME EvolutionFails
      PROVE  SessionReadsLiveEntries'
  BY <1>16 DEF EvolutionFails
<1>17. ASSUME Restart
      PROVE  SessionReadsLiveEntries'
  BY <1>17 DEF Restart
<1>18. ASSUME UNCHANGED vars
      PROVE  SessionReadsLiveEntries'
  BY <1>18
<1> QED
  BY <1>1, <1>2, <1>3, <1>4, <1>5, <1>6, <1>7, <1>8, <1>9, <1>10, <1>11, <1>12, <1>13,
     <1>14, <1>15, <1>16, <1>17, <1>18
     DEF Next, Request, Work

\* Every step keeps entries, cycles and episodes in order.
LEMMA EvolutionPreserved == InPlace /\ [Next]_vars => EvolutionFollowsCompletion'
<1> SUFFICES ASSUME InPlace, [Next]_vars
             PROVE  EvolutionFollowsCompletion'
  OBVIOUS
<1> USE NoneAssumption DEF InPlace, TypeOK, WorkInPlace, WorkerKnows, EpisodeFirst,
        EvolutionFollowsCompletion, vars, workspaceVars, runVars, fileVars, myVars
<1>1. ASSUME NEW p \in Papers, AdmitChange(p)
      PROVE  EvolutionFollowsCompletion'
  BY <1>1 DEF AdmitChange
<1>2. ASSUME CommitChange
      PROVE  EvolutionFollowsCompletion'
  BY <1>2 DEF CommitChange
<1>3. ASSUME AdmitDelete
      PROVE  EvolutionFollowsCompletion'
  BY <1>3 DEF AdmitDelete
<1>4. ASSUME CommitRevocation
      PROVE  EvolutionFollowsCompletion'
  BY <1>4 DEF CommitRevocation
<1>5. ASSUME RemoveStorage
      PROVE  EvolutionFollowsCompletion'
  BY <1>5 DEF RemoveStorage
<1>6. ASSUME Settle
      PROVE  EvolutionFollowsCompletion'
  BY <1>6 DEF Settle
<1>7. ASSUME NEW r \in Runs, CreateRun(r)
      PROVE  EvolutionFollowsCompletion'
  BY <1>7 DEF CreateRun
<1>8. ASSUME NEW r \in Runs, OpenScope(r)
      PROVE  EvolutionFollowsCompletion'
  BY <1>8 DEF OpenScope
<1>9. ASSUME StartSession
      PROVE  EvolutionFollowsCompletion'
  <2>1. \A r \in Runs : /\ Maintained[r].by = myEntries[r].by
                        /\ Maintained[r].state # "absent" <=> myEntries[r].state # "absent"
    BY MaintainedEntries
  <2> QED
    BY <1>9, <2>1 DEF StartSession
<1>10. ASSUME EndSession
      PROVE  EvolutionFollowsCompletion'
  BY <1>10 DEF EndSession
<1>11. ASSUME NEW p \in Papers, Support(p)
      PROVE  EvolutionFollowsCompletion'
  BY <1>11 DEF Support
<1>12. ASSUME NEW outcome \in {"paused", "failed"}, LeaveRun(outcome)
      PROVE  EvolutionFollowsCompletion'
  BY <1>12 DEF LeaveRun
<1>13. ASSUME Complete
      PROVE  EvolutionFollowsCompletion'
  BY <1>13 DEF Complete
<1>14. ASSUME PutEpisode
      PROVE  EvolutionFollowsCompletion'
  BY <1>14 DEF PutEpisode
<1>15. ASSUME CommitPromotion
      PROVE  EvolutionFollowsCompletion'
  <2>1. worker \in Runs
    BY <1>15 DEF CommitPromotion
  <2>2. \A r \in Runs : \/ entries'[r] = myEntries[r]
                        \/ entries'[r].state = "active" /\ entries'[r].by = worker
    BY <1>15, <2>1, ProposedEntries DEF CommitPromotion
  <2>3. SUFFICES ASSUME status = "active"
                 PROVE  EvolutionFollowsCompletion'
    BY <1>15 DEF CommitPromotion
  <2>4. cycles' = cycles \union {worker} /\ entries = myEntries
    BY <1>15, <2>1, <2>3 DEF CommitPromotion
  <2>5. \A r \in Runs : entries'[r].state # "absent" => entries'[r].by \in cycles'
    BY <2>2, <2>3, <2>4
  <2>6. cycles' \subseteq episodes' /\ \A r \in episodes' : runAt'[r] = "completed"
    BY <1>15, <2>3, <2>4 DEF CommitPromotion
  <2> QED
    BY <2>5, <2>6
<1>16. ASSUME EvolutionFails
      PROVE  EvolutionFollowsCompletion'
  BY <1>16 DEF EvolutionFails
<1>17. ASSUME Restart
      PROVE  EvolutionFollowsCompletion'
  BY <1>17 DEF Restart
<1>18. ASSUME UNCHANGED vars
      PROVE  EvolutionFollowsCompletion'
  BY <1>18
<1> QED
  BY <1>1, <1>2, <1>3, <1>4, <1>5, <1>6, <1>7, <1>8, <1>9, <1>10, <1>11, <1>12, <1>13,
     <1>14, <1>15, <1>16, <1>17, <1>18
     DEF Next, Request, Work

-----------------------------------------------------------------------------
(* The theorems.                                                           *)

\* The invariant holds in every state.
THEOREM MemoryInvariant == Spec => []InPlace
<1>1. Init => InPlace
  <2> SUFFICES ASSUME Init
               PROVE  InPlace
    OBVIOUS
  <2>1. NoEntries \in [Runs -> Entry] /\ \A r \in Runs : NoEntries[r].state = "absent"
    BY DEF NoEntries, NoEntry, Entry
  <2> QED
    BY <2>1, NoneAssumption
       DEF Init, InPlace, TypeOK, WorkInPlace, WorkerKnows, RevisionsPast, EpisodeFirst,
           SessionReadsLiveEntries, EvolutionFollowsCompletion
<1>2. InPlace /\ [Next]_vars => InPlace'
  BY TypePreserved, WorkPreserved, KnowledgePreserved, RevisionsPreserved, EpisodePreserved,
     ReadingPreserved, EvolutionPreserved
     DEF InPlace
<1> QED
  BY <1>1, <1>2, PTL DEF Spec

\* Every variable keeps its type.
THEOREM MemoryTypeCorrect == Spec => []TypeOK
<1>1. InPlace => TypeOK
  BY DEF InPlace
<1> QED
  BY <1>1, MemoryInvariant, PTL

\* A session that may read finds no active entry on a paper that has left: the health
\* pass was made under the revision of the run, and a change since then shows.
THEOREM LiveEntriesRead == Spec => []SessionReadsLiveEntries
<1>1. InPlace => SessionReadsLiveEntries
  BY DEF InPlace
<1> QED
  BY <1>1, MemoryInvariant, PTL

\* Entries come from recorded cycles, cycles from episodes, episodes from completed
\* runs.
THEOREM EvolutionInOrder == Spec => []EvolutionFollowsCompletion
<1>1. InPlace => EvolutionFollowsCompletion
  BY DEF InPlace
<1> QED
  BY <1>1, MemoryInvariant, PTL

\* No step of a workspace that is there takes an episode, a cycle or an entry away.
THEOREM MemoryKept == Spec => NothingForgotten
<1>1. InPlace /\ [Next]_vars =>
        [status = "active" =>
            /\ episodes \subseteq episodes'
            /\ cycles \subseteq cycles'
            /\ Recorded \subseteq Recorded']_vars
  <2> SUFFICES ASSUME InPlace, Next, status = "active"
               PROVE  /\ episodes \subseteq episodes'
                      /\ cycles \subseteq cycles'
                      /\ Recorded \subseteq Recorded'
    OBVIOUS
  <2> USE DEF InPlace, WorkInPlace, WorkerKnows, Recorded
  <2>1. CASE UNCHANGED fileVars
    BY <2>1 DEF fileVars
  <2>2. CASE StartSession
    <3>1. \A r \in Runs : Maintained[r].state # "absent" <=> myEntries[r].state # "absent"
      BY MaintainedEntries
    <3> QED
      BY <2>2, <3>1 DEF StartSession, fileVars, TypeOK
  <2>3. CASE PutEpisode
    BY <2>3 DEF PutEpisode
  <2>4. CASE CommitPromotion
    <3>1. worker \in Runs /\ myEntries = entries /\ myCycles = cycles
      BY <2>4 DEF CommitPromotion, TypeOK
    <3>2. \A r \in Runs : entries'[r] = entries[r] \/ entries'[r].state = "active"
      BY <2>4, <3>1, ProposedEntries DEF CommitPromotion
    <3> QED
      BY <2>4, <3>1, <3>2 DEF CommitPromotion
  <2>5. CASE RemoveStorage
    BY <2>5 DEF RemoveStorage
  <2> QED
    BY <2>1, <2>2, <2>3, <2>4, <2>5
       DEF Next, Request, Work, AdmitChange, CommitChange, AdmitDelete, CommitRevocation,
        Settle,
           CreateRun, OpenScope, EndSession, Support, LeaveRun, Complete, EvolutionFails,
        Restart
<1> QED
  BY <1>1, MemoryInvariant, PTL DEF Spec, NothingForgotten
=============================================================================

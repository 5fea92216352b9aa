------------------------ MODULE ProviderReview_proofs ------------------------
(***************************************************************************)
(* Proofs about ProviderReview: for any number of scans and batches, a     *)
(* review that counts is whole, no other process unloads the model a scan  *)
(* is about to look for, and no provider program is left behind.  That     *)
(* what is selected is cut into batches that can be sent, whatever it is,  *)
(* is in Texts_proofs.                                                     *)
(***************************************************************************)
EXTENDS ProviderReview, Texts_proofs

----------------------------------------------------------------------------

\* The names of the scans are not those of the other holders of the lock.
LEMMA NamesApart == Doctor \notin Scans /\ None \notin Scans /\ None \notin Digests /\ Doctor # None
BY NamesDiffer DEF Doctor, None

LEMMA Steps ==
  ASSUME Next
  PROVE  \/ MoveTag \/ Expire \/ DoctorLocks \/ DoctorResets
         \/ \E s \in Scans :
              \/ Probe(s)
              \/ BeginReview(s)
              \/ WorkerMetadata(s)
              \/ AcquireLock(s)
              \/ Describe(s)
              \/ Chat(s)
              \/ verifyLoadedModel(s)
              \/ DescribeAgain(s)
              \/ Unload(s)
              \/ Unlock(s)
              \/ Judge(s)
              \/ Finish(s)
              \/ Again(s)
              \/ Launch(s)
              \/ KillGroup(s)
              \/ Reap(s)
              \/ Timeout(s)
              \/ ChildExits(s)
              \/ Terminate(s)
              \/ HelperExits(s)
BY DEF Next, Step

----------------------------------------------------------------------------
(* What the parts of the invariant need of each other.                     *)

LEMMA PCsAre ==
  ASSUME IInv
  PROVE  /\ pc \in [Scans \cup {Doctor} -> PCs]
         /\ Doctor \notin Scans /\ None \notin Scans /\ Doctor # None
         /\ DOMAIN attested = Scans /\ DOMAIN expected = Scans /\ DOMAIN meta = Scans
         /\ DOMAIN desc = Scans /\ DOMAIN answer = Scans /\ DOMAIN todo = Scans
         /\ DOMAIN verdicts = Scans /\ DOMAIN err = Scans /\ DOMAIN child = Scans
         /\ DOMAIN evicted = Scans /\ DOMAIN reviews = Scans
BY NamesApart DEF IInv, TypeOK, Shapes

\* The lock is taken only when it is free and given back only by its holder
\* (acquireOllamaLock).
LEMMA LockIsHeldStep == ASSUME IInv, [Next]_vars PROVE LockIsHeld'
<1>. USE DEF daemon, work, Move, MoveOn
<1>0. pc \in [Scans \cup {Doctor} -> PCs] /\ Doctor \notin Scans /\ None \notin Scans
     /\ Doctor # None /\ LockIsHeld
  BY PCsAre DEF IInv
<1>1. CASE MoveTag
  BY <1>0, <1>1 DEF MoveTag, LockIsHeld, Locked
<1>2. CASE Expire
  BY <1>0, <1>2 DEF Expire, LockIsHeld, Locked
<1>3. CASE DoctorLocks
  BY <1>0, <1>3 DEF DoctorLocks, LockIsHeld, Locked
<1>4. CASE DoctorResets
  BY <1>0, <1>4 DEF DoctorResets, LockIsHeld, Locked
<1>5. ASSUME NEW s \in Scans, Probe(s) PROVE LockIsHeld'
  BY <1>0, <1>5 DEF Probe, LockIsHeld, Locked
<1>6. ASSUME NEW s \in Scans, BeginReview(s) PROVE LockIsHeld'
  BY <1>0, <1>6 DEF BeginReview, LockIsHeld, Locked
<1>7. ASSUME NEW s \in Scans, WorkerMetadata(s) PROVE LockIsHeld'
  BY <1>0, <1>7 DEF WorkerMetadata, LockIsHeld, Locked
<1>8. ASSUME NEW s \in Scans, AcquireLock(s) PROVE LockIsHeld'
  BY <1>0, <1>8 DEF AcquireLock, LockIsHeld, Locked
<1>9. ASSUME NEW s \in Scans, Describe(s) PROVE LockIsHeld'
  BY <1>0, <1>9 DEF Describe, LockIsHeld, Locked
<1>10. ASSUME NEW s \in Scans, Chat(s) PROVE LockIsHeld'
  BY <1>0, <1>10 DEF Chat, LockIsHeld, Locked
<1>11. ASSUME NEW s \in Scans, verifyLoadedModel(s) PROVE LockIsHeld'
  BY <1>0, <1>11 DEF verifyLoadedModel, LockIsHeld, Locked
<1>12. ASSUME NEW s \in Scans, DescribeAgain(s) PROVE LockIsHeld'
  BY <1>0, <1>12 DEF DescribeAgain, LockIsHeld, Locked
<1>13. ASSUME NEW s \in Scans, Unload(s) PROVE LockIsHeld'
  BY <1>0, <1>13 DEF Unload, LockIsHeld, Locked
<1>14. ASSUME NEW s \in Scans, Unlock(s) PROVE LockIsHeld'
  BY <1>0, <1>14 DEF Unlock, LockIsHeld, Locked
<1>15. ASSUME NEW s \in Scans, Judge(s) PROVE LockIsHeld'
  BY <1>0, <1>15 DEF Judge, LockIsHeld, Locked
<1>16. ASSUME NEW s \in Scans, Finish(s) PROVE LockIsHeld'
  BY <1>0, <1>16 DEF Finish, LockIsHeld, Locked
<1>17. ASSUME NEW s \in Scans, Again(s) PROVE LockIsHeld'
  BY <1>0, <1>17 DEF Again, LockIsHeld, Locked
<1>18. ASSUME NEW s \in Scans, Launch(s) PROVE LockIsHeld'
  BY <1>0, <1>18 DEF Launch, LockIsHeld, Locked
<1>19. ASSUME NEW s \in Scans, KillGroup(s) PROVE LockIsHeld'
  BY <1>0, <1>19 DEF KillGroup, LockIsHeld, Locked
<1>20. ASSUME NEW s \in Scans, Reap(s) PROVE LockIsHeld'
  BY <1>0, <1>20 DEF Reap, LockIsHeld, Locked
<1>21. ASSUME NEW s \in Scans, Timeout(s) PROVE LockIsHeld'
  BY <1>0, <1>21 DEF Timeout, LockIsHeld, Locked
<1>22. ASSUME NEW s \in Scans, ChildExits(s) PROVE LockIsHeld'
  BY <1>0, <1>22 DEF ChildExits, LockIsHeld, Locked
<1>23. ASSUME NEW s \in Scans, Terminate(s) PROVE LockIsHeld'
  BY <1>0, <1>23 DEF Terminate, LockIsHeld, Locked
<1>25. ASSUME NEW s \in Scans, HelperExits(s) PROVE LockIsHeld'
  BY <1>0, <1>25 DEF HelperExits, LockIsHeld, Locked
<1>24. CASE UNCHANGED vars
  BY <1>0, <1>24 DEF vars, LockIsHeld, Locked
<1>. QED
  BY <1>1, <1>2, <1>3, <1>4, <1>5, <1>6, <1>7, <1>8, <1>9, <1>10, <1>11, <1>12, <1>13, <1>14, <1>15, <1>16, <1>17, <1>18, <1>19, <1>20, <1>21, <1>22, <1>23, <1>24, <1>25, Steps

\* The kind of provider is the assignment's, and decides after the worker's metadata.
LEMMA ProvidersDifferStep == ASSUME IInv, [Next]_vars PROVE ProvidersDiffer'
<1>. USE DEF daemon, work, Move, MoveOn
<1>0. pc \in [Scans \cup {Doctor} -> PCs] /\ Doctor \notin Scans /\ None \notin Scans
     /\ Doctor # None /\ ProvidersDiffer
  BY PCsAre DEF IInv
<1>1. CASE MoveTag
  BY <1>0, <1>1 DEF MoveTag, ProvidersDiffer, Loopback, Locked, Program, IsCLI
<1>2. CASE Expire
  BY <1>0, <1>2 DEF Expire, ProvidersDiffer, Loopback, Locked, Program, IsCLI
<1>3. CASE DoctorLocks
  BY <1>0, <1>3 DEF DoctorLocks, ProvidersDiffer, Loopback, Locked, Program, IsCLI
<1>4. CASE DoctorResets
  BY <1>0, <1>4 DEF DoctorResets, ProvidersDiffer, Loopback, Locked, Program, IsCLI
<1>5. ASSUME NEW s \in Scans, Probe(s) PROVE ProvidersDiffer'
  BY <1>0, <1>5 DEF Probe, ProvidersDiffer, Loopback, Locked, Program, IsCLI
<1>6. ASSUME NEW s \in Scans, BeginReview(s) PROVE ProvidersDiffer'
  BY <1>0, <1>6 DEF BeginReview, ProvidersDiffer, Loopback, Locked, Program, IsCLI
<1>7. ASSUME NEW s \in Scans, WorkerMetadata(s) PROVE ProvidersDiffer'
  BY <1>0, <1>7 DEF WorkerMetadata, ProvidersDiffer, Loopback, Locked, Program, IsCLI
<1>8. ASSUME NEW s \in Scans, AcquireLock(s) PROVE ProvidersDiffer'
  BY <1>0, <1>8 DEF AcquireLock, ProvidersDiffer, Loopback, Locked, Program, IsCLI
<1>9. ASSUME NEW s \in Scans, Describe(s) PROVE ProvidersDiffer'
  BY <1>0, <1>9 DEF Describe, ProvidersDiffer, Loopback, Locked, Program, IsCLI
<1>10. ASSUME NEW s \in Scans, Chat(s) PROVE ProvidersDiffer'
  BY <1>0, <1>10 DEF Chat, ProvidersDiffer, Loopback, Locked, Program, IsCLI
<1>11. ASSUME NEW s \in Scans, verifyLoadedModel(s) PROVE ProvidersDiffer'
  BY <1>0, <1>11 DEF verifyLoadedModel, ProvidersDiffer, Loopback, Locked, Program, IsCLI
<1>12. ASSUME NEW s \in Scans, DescribeAgain(s) PROVE ProvidersDiffer'
  BY <1>0, <1>12 DEF DescribeAgain, ProvidersDiffer, Loopback, Locked, Program, IsCLI
<1>13. ASSUME NEW s \in Scans, Unload(s) PROVE ProvidersDiffer'
  BY <1>0, <1>13 DEF Unload, ProvidersDiffer, Loopback, Locked, Program, IsCLI
<1>14. ASSUME NEW s \in Scans, Unlock(s) PROVE ProvidersDiffer'
  BY <1>0, <1>14 DEF Unlock, ProvidersDiffer, Loopback, Locked, Program, IsCLI
<1>15. ASSUME NEW s \in Scans, Judge(s) PROVE ProvidersDiffer'
  BY <1>0, <1>15 DEF Judge, ProvidersDiffer, Loopback, Locked, Program, IsCLI
<1>16. ASSUME NEW s \in Scans, Finish(s) PROVE ProvidersDiffer'
  BY <1>0, <1>16 DEF Finish, ProvidersDiffer, Loopback, Locked, Program, IsCLI
<1>17. ASSUME NEW s \in Scans, Again(s) PROVE ProvidersDiffer'
  BY <1>0, <1>17 DEF Again, ProvidersDiffer, Loopback, Locked, Program, IsCLI
<1>18. ASSUME NEW s \in Scans, Launch(s) PROVE ProvidersDiffer'
  BY <1>0, <1>18 DEF Launch, ProvidersDiffer, Loopback, Locked, Program, IsCLI
<1>19. ASSUME NEW s \in Scans, KillGroup(s) PROVE ProvidersDiffer'
  BY <1>0, <1>19 DEF KillGroup, ProvidersDiffer, Loopback, Locked, Program, IsCLI
<1>20. ASSUME NEW s \in Scans, Reap(s) PROVE ProvidersDiffer'
  BY <1>0, <1>20 DEF Reap, ProvidersDiffer, Loopback, Locked, Program, IsCLI
<1>21. ASSUME NEW s \in Scans, Timeout(s) PROVE ProvidersDiffer'
  BY <1>0, <1>21 DEF Timeout, ProvidersDiffer, Loopback, Locked, Program, IsCLI
<1>22. ASSUME NEW s \in Scans, ChildExits(s) PROVE ProvidersDiffer'
  BY <1>0, <1>22 DEF ChildExits, ProvidersDiffer, Loopback, Locked, Program, IsCLI
<1>23. ASSUME NEW s \in Scans, Terminate(s) PROVE ProvidersDiffer'
  BY <1>0, <1>23 DEF Terminate, ProvidersDiffer, Loopback, Locked, Program, IsCLI
<1>25. ASSUME NEW s \in Scans, HelperExits(s) PROVE ProvidersDiffer'
  BY <1>0, <1>25 DEF HelperExits, ProvidersDiffer, Loopback, Locked, Program, IsCLI
<1>24. CASE UNCHANGED vars
  BY <1>0, <1>24 DEF vars, ProvidersDiffer, Loopback, Locked, Program, IsCLI
<1>. QED
  BY <1>1, <1>2, <1>3, <1>4, <1>5, <1>6, <1>7, <1>8, <1>9, <1>10, <1>11, <1>12, <1>13, <1>14, <1>15, <1>16, <1>17, <1>18, <1>19, <1>20, <1>21, <1>22, <1>23, <1>24, <1>25, Steps

\* A program runs only while its review waits for it (runProcessGroup).
LEMMA ChildIsWaitedForStep == ASSUME IInv, [Next]_vars PROVE ChildIsWaitedFor'
<1>. USE DEF daemon, work, Move, MoveOn
<1>0. pc \in [Scans \cup {Doctor} -> PCs] /\ Doctor \notin Scans /\ None \notin Scans
     /\ Doctor # None /\ ChildIsWaitedFor /\ DOMAIN child = Scans
  BY PCsAre DEF IInv
<1>1. CASE MoveTag
  BY <1>0, <1>1 DEF MoveTag, ChildIsWaitedFor
<1>2. CASE Expire
  BY <1>0, <1>2 DEF Expire, ChildIsWaitedFor
<1>3. CASE DoctorLocks
  BY <1>0, <1>3 DEF DoctorLocks, ChildIsWaitedFor
<1>4. CASE DoctorResets
  BY <1>0, <1>4 DEF DoctorResets, ChildIsWaitedFor
<1>5. ASSUME NEW s \in Scans, Probe(s) PROVE ChildIsWaitedFor'
  BY <1>0, <1>5 DEF Probe, ChildIsWaitedFor
<1>6. ASSUME NEW s \in Scans, BeginReview(s) PROVE ChildIsWaitedFor'
  BY <1>0, <1>6 DEF BeginReview, ChildIsWaitedFor
<1>7. ASSUME NEW s \in Scans, WorkerMetadata(s) PROVE ChildIsWaitedFor'
  BY <1>0, <1>7 DEF WorkerMetadata, ChildIsWaitedFor
<1>8. ASSUME NEW s \in Scans, AcquireLock(s) PROVE ChildIsWaitedFor'
  BY <1>0, <1>8 DEF AcquireLock, ChildIsWaitedFor
<1>9. ASSUME NEW s \in Scans, Describe(s) PROVE ChildIsWaitedFor'
  BY <1>0, <1>9 DEF Describe, ChildIsWaitedFor
<1>10. ASSUME NEW s \in Scans, Chat(s) PROVE ChildIsWaitedFor'
  BY <1>0, <1>10 DEF Chat, ChildIsWaitedFor
<1>11. ASSUME NEW s \in Scans, verifyLoadedModel(s) PROVE ChildIsWaitedFor'
  BY <1>0, <1>11 DEF verifyLoadedModel, ChildIsWaitedFor
<1>12. ASSUME NEW s \in Scans, DescribeAgain(s) PROVE ChildIsWaitedFor'
  BY <1>0, <1>12 DEF DescribeAgain, ChildIsWaitedFor
<1>13. ASSUME NEW s \in Scans, Unload(s) PROVE ChildIsWaitedFor'
  BY <1>0, <1>13 DEF Unload, ChildIsWaitedFor
<1>14. ASSUME NEW s \in Scans, Unlock(s) PROVE ChildIsWaitedFor'
  BY <1>0, <1>14 DEF Unlock, ChildIsWaitedFor
<1>15. ASSUME NEW s \in Scans, Judge(s) PROVE ChildIsWaitedFor'
  BY <1>0, <1>15 DEF Judge, ChildIsWaitedFor
<1>16. ASSUME NEW s \in Scans, Finish(s) PROVE ChildIsWaitedFor'
  BY <1>0, <1>16 DEF Finish, ChildIsWaitedFor
<1>17. ASSUME NEW s \in Scans, Again(s) PROVE ChildIsWaitedFor'
  BY <1>0, <1>17 DEF Again, ChildIsWaitedFor
<1>18. ASSUME NEW s \in Scans, Launch(s) PROVE ChildIsWaitedFor'
  BY <1>0, <1>18 DEF Launch, ChildIsWaitedFor
<1>19. ASSUME NEW s \in Scans, KillGroup(s) PROVE ChildIsWaitedFor'
  BY <1>0, <1>19 DEF KillGroup, ChildIsWaitedFor
<1>20. ASSUME NEW s \in Scans, Reap(s) PROVE ChildIsWaitedFor'
  BY <1>0, <1>20 DEF Reap, ChildIsWaitedFor
<1>21. ASSUME NEW s \in Scans, Timeout(s) PROVE ChildIsWaitedFor'
  BY <1>0, <1>21 DEF Timeout, ChildIsWaitedFor
<1>22. ASSUME NEW s \in Scans, ChildExits(s) PROVE ChildIsWaitedFor'
  BY <1>0, <1>22 DEF ChildExits, ChildIsWaitedFor
<1>23. ASSUME NEW s \in Scans, Terminate(s) PROVE ChildIsWaitedFor'
  BY <1>0, <1>23 DEF Terminate, ChildIsWaitedFor
<1>25. ASSUME NEW s \in Scans, HelperExits(s) PROVE ChildIsWaitedFor'
  BY <1>0, <1>25 DEF HelperExits, ChildIsWaitedFor
<1>24. CASE UNCHANGED vars
  BY <1>0, <1>24 DEF vars, ChildIsWaitedFor
<1>. QED
  BY <1>1, <1>2, <1>3, <1>4, <1>5, <1>6, <1>7, <1>8, <1>9, <1>10, <1>11, <1>12, <1>13, <1>14, <1>15, <1>16, <1>17, <1>18, <1>19, <1>20, <1>21, <1>22, <1>23, <1>24, <1>25, Steps

\* Whoever would unload the model of a scan holds the lock of that scan, save for the
\* daemon itself.
LEMMA ModelIsResidentStep == ASSUME IInv, [Next]_vars PROVE ModelIsResident'
<1>. USE DEF daemon, work, Move, MoveOn, LockIsHeld, Locked, ProvidersDiffer, Loopback, ChildIsWaitedFor, Reviewing, IsCLI
<1>0. pc \in [Scans \cup {Doctor} -> PCs] /\ Doctor \notin Scans /\ None \notin Scans
     /\ Doctor # None /\ ModelIsResident /\ LockIsHeld
     /\ ProvidersDiffer /\ ChildIsWaitedFor /\ DOMAIN answer = Scans /\ DOMAIN evicted = Scans
  BY PCsAre DEF IInv
<1>1. CASE MoveTag
  BY <1>0, <1>1 DEF MoveTag, ModelIsResident
<1>2. CASE Expire
  BY <1>0, <1>2 DEF Expire, ModelIsResident
<1>3. CASE DoctorLocks
  BY <1>0, <1>3 DEF DoctorLocks, ModelIsResident
<1>4. CASE DoctorResets
  BY <1>0, <1>4 DEF DoctorResets, ModelIsResident
<1>5. ASSUME NEW s \in Scans, Probe(s) PROVE ModelIsResident'
  BY <1>0, <1>5 DEF Probe, ModelIsResident
<1>6. ASSUME NEW s \in Scans, BeginReview(s) PROVE ModelIsResident'
  BY <1>0, <1>6 DEF BeginReview, ModelIsResident
<1>7. ASSUME NEW s \in Scans, WorkerMetadata(s) PROVE ModelIsResident'
  BY <1>0, <1>7 DEF WorkerMetadata, ModelIsResident
<1>8. ASSUME NEW s \in Scans, AcquireLock(s) PROVE ModelIsResident'
  BY <1>0, <1>8 DEF AcquireLock, ModelIsResident
<1>9. ASSUME NEW s \in Scans, Describe(s) PROVE ModelIsResident'
  BY <1>0, <1>9 DEF Describe, ModelIsResident
<1>10. ASSUME NEW s \in Scans, Chat(s) PROVE ModelIsResident'
  BY <1>0, <1>10 DEF Chat, ModelIsResident
<1>11. ASSUME NEW s \in Scans, verifyLoadedModel(s) PROVE ModelIsResident'
  BY <1>0, <1>11 DEF verifyLoadedModel, ModelIsResident
<1>12. ASSUME NEW s \in Scans, DescribeAgain(s) PROVE ModelIsResident'
  BY <1>0, <1>12 DEF DescribeAgain, ModelIsResident
<1>13. ASSUME NEW s \in Scans, Unload(s) PROVE ModelIsResident'
  BY <1>0, <1>13 DEF Unload, ModelIsResident
<1>14. ASSUME NEW s \in Scans, Unlock(s) PROVE ModelIsResident'
  BY <1>0, <1>14 DEF Unlock, ModelIsResident
<1>15. ASSUME NEW s \in Scans, Judge(s) PROVE ModelIsResident'
  BY <1>0, <1>15 DEF Judge, ModelIsResident
<1>16. ASSUME NEW s \in Scans, Finish(s) PROVE ModelIsResident'
  BY <1>0, <1>16 DEF Finish, ModelIsResident
<1>17. ASSUME NEW s \in Scans, Again(s) PROVE ModelIsResident'
  BY <1>0, <1>17 DEF Again, ModelIsResident
<1>18. ASSUME NEW s \in Scans, Launch(s) PROVE ModelIsResident'
  BY <1>0, <1>18 DEF Launch, ModelIsResident
<1>19. ASSUME NEW s \in Scans, KillGroup(s) PROVE ModelIsResident'
  BY <1>0, <1>19 DEF KillGroup, ModelIsResident
<1>20. ASSUME NEW s \in Scans, Reap(s) PROVE ModelIsResident'
  BY <1>0, <1>20 DEF Reap, ModelIsResident
<1>21. ASSUME NEW s \in Scans, Timeout(s) PROVE ModelIsResident'
  BY <1>0, <1>21 DEF Timeout, ModelIsResident
<1>22. ASSUME NEW s \in Scans, ChildExits(s) PROVE ModelIsResident'
  BY <1>0, <1>22 DEF ChildExits, ModelIsResident
<1>23. ASSUME NEW s \in Scans, Terminate(s) PROVE ModelIsResident'
  BY <1>0, <1>23 DEF Terminate, ModelIsResident
<1>25. ASSUME NEW s \in Scans, HelperExits(s) PROVE ModelIsResident'
  BY <1>0, <1>25 DEF HelperExits, ModelIsResident
<1>24. CASE UNCHANGED vars
  BY <1>0, <1>24 DEF vars, ModelIsResident
<1>. QED
  BY <1>1, <1>2, <1>3, <1>4, <1>5, <1>6, <1>7, <1>8, <1>9, <1>10, <1>11, <1>12, <1>13, <1>14, <1>15, <1>16, <1>17, <1>18, <1>19, <1>20, <1>21, <1>22, <1>23, <1>24, <1>25, Steps

\* Whoever reviews answers with a verdict (runProviderWorker, runProcessGroup).
LEMMA AnswersOf ==
  ASSUME IInv
  PROVE  /\ NoAnswer \in Verdicts
         /\ \A s \in Scans : \A g \in SUBSET Targets :
              [by |-> Reviewing(s), guidance |-> g] \in Verdicts
<1>1. tag \in Digests /\ FirstDigest \in Digests
  BY ReviewConstants DEF IInv, TypeOK, FirstDigest
<1>. QED
  BY <1>1 DEF NoAnswer, Verdicts, Reviewing

\* The state of every scan is kept for every scan, and its assignment stays.
LEMMA ShapesStep == ASSUME IInv, [Next]_vars PROVE Shapes'
<1>. USE DEF daemon, work, Move, MoveOn, Shapes
<1>0. pc \in [Scans \cup {Doctor} -> PCs] /\ Doctor \notin Scans /\ None \notin Scans
     /\ Doctor # None /\ Shapes
  BY PCsAre DEF IInv
<1>1. CASE MoveTag
  BY <1>0, <1>1 DEF MoveTag
<1>2. CASE Expire
  BY <1>0, <1>2 DEF Expire
<1>3. CASE DoctorLocks
  BY <1>0, <1>3 DEF DoctorLocks
<1>4. CASE DoctorResets
  BY <1>0, <1>4 DEF DoctorResets
<1>5. ASSUME NEW s \in Scans, Probe(s) PROVE Shapes'
  BY <1>0, <1>5 DEF Probe
<1>6. ASSUME NEW s \in Scans, BeginReview(s) PROVE Shapes'
  BY <1>0, <1>6 DEF BeginReview
<1>7. ASSUME NEW s \in Scans, WorkerMetadata(s) PROVE Shapes'
  BY <1>0, <1>7 DEF WorkerMetadata
<1>8. ASSUME NEW s \in Scans, AcquireLock(s) PROVE Shapes'
  BY <1>0, <1>8 DEF AcquireLock
<1>9. ASSUME NEW s \in Scans, Describe(s) PROVE Shapes'
  BY <1>0, <1>9 DEF Describe
<1>10. ASSUME NEW s \in Scans, Chat(s) PROVE Shapes'
  <2>1. UNCHANGED inv /\ answer'[s] \in Verdicts /\ \A t \in Scans : t # s => answer'[t] = answer[t]
    BY <1>0, <1>10, AnswersOf DEF Chat
  <2>. QED
    BY <1>0, <1>10, <2>1 DEF Chat
<1>11. ASSUME NEW s \in Scans, verifyLoadedModel(s) PROVE Shapes'
  BY <1>0, <1>11 DEF verifyLoadedModel
<1>12. ASSUME NEW s \in Scans, DescribeAgain(s) PROVE Shapes'
  BY <1>0, <1>12 DEF DescribeAgain
<1>13. ASSUME NEW s \in Scans, Unload(s) PROVE Shapes'
  BY <1>0, <1>13 DEF Unload
<1>14. ASSUME NEW s \in Scans, Unlock(s) PROVE Shapes'
  BY <1>0, <1>14 DEF Unlock
<1>15. ASSUME NEW s \in Scans, Judge(s) PROVE Shapes'
  BY <1>0, <1>15 DEF Judge
<1>16. ASSUME NEW s \in Scans, Finish(s) PROVE Shapes'
  <2>1. UNCHANGED inv /\ answer'[s] \in Verdicts /\ \A t \in Scans : t # s => answer'[t] = answer[t]
    BY <1>0, <1>16, AnswersOf DEF Finish
  <2>. QED
    BY <1>0, <1>16, <2>1 DEF Finish
<1>17. ASSUME NEW s \in Scans, Again(s) PROVE Shapes'
  BY <1>0, <1>17 DEF Again
<1>18. ASSUME NEW s \in Scans, Launch(s) PROVE Shapes'
  BY <1>0, <1>18 DEF Launch
<1>19. ASSUME NEW s \in Scans, KillGroup(s) PROVE Shapes'
  BY <1>0, <1>19 DEF KillGroup
<1>20. ASSUME NEW s \in Scans, Reap(s) PROVE Shapes'
  BY <1>0, <1>20 DEF Reap
<1>21. ASSUME NEW s \in Scans, Timeout(s) PROVE Shapes'
  BY <1>0, <1>21 DEF Timeout
<1>22. ASSUME NEW s \in Scans, ChildExits(s) PROVE Shapes'
  <2>1. UNCHANGED inv /\ answer'[s] \in Verdicts /\ \A t \in Scans : t # s => answer'[t] = answer[t]
    BY <1>0, <1>22, AnswersOf DEF ChildExits
  <2>. QED
    BY <1>0, <1>22, <2>1 DEF ChildExits
<1>23. ASSUME NEW s \in Scans, Terminate(s) PROVE Shapes'
  BY <1>0, <1>23 DEF Terminate
<1>25. ASSUME NEW s \in Scans, HelperExits(s) PROVE Shapes'
  BY <1>0, <1>25 DEF HelperExits
<1>24. CASE UNCHANGED vars
  BY <1>0, <1>24 DEF vars
<1>. QED
  BY <1>1, <1>2, <1>3, <1>4, <1>5, <1>6, <1>7, <1>8, <1>9, <1>10, <1>11, <1>12, <1>13, <1>14, <1>15, <1>16, <1>17, <1>18, <1>19, <1>20, <1>21, <1>22, <1>23, <1>24, <1>25, Steps

\* The batches of a scan are those of its assignment: an error has none
\* (batchesWithProviderOptions).
LEMMA PlanOf ==
  ASSUME NEW s \in Scans, inv[s] \in AllAssignments
  PROVE  /\ Batches(s) \in Seq(ToSet(Batches(s)))
         /\ BatchesFor(s).error = "" => Batches(s) # <<>>
<1>1. CASE BatchesFor(s).error # ""
  <2>1. Batches(s) = <<>>
    BY <1>1 DEF BatchesFor, Batches, Plans, batchesWithProviderOptions
  <2>2. <<>> \in Seq(ToSet(<<>>))
    BY EmptySeq
  <2>. QED
    BY <1>1, <2>1, <2>2, Zenon
<1>2. CASE BatchesFor(s).error = ""
  <2>. DEFINE a == inv[s]
              r == batchesWithProviderOptions(a.files, a)
  <2>1. a.ceiling \in Nat /\ IsSelection(a.files)
    BY ReviewConstants, Zenon DEF AllAssignments
  <2>2. BatchesFor(s) = r /\ Batches(s) = r.batches
    BY Zenon DEF BatchesFor, Batches, Plans
  <2>. HIDE DEF a, r
  <2>3. r.error = "" => r.batches \in Seq(ToSet(r.batches)) /\ r.batches # <<>>
    BY <2>1, BatchesOfAnySelection, Zenon DEF r
  <2>. QED
    BY <1>2, <2>2, <2>3, Zenon
<1>. QED
  BY <1>1, <1>2

LEMMA PlanIs ==
  ASSUME IInv, NEW s \in Scans
  PROVE  /\ Batches(s) \in Seq(ToSet(Batches(s)))
         /\ BatchesFor(s).error = "" => Batches(s) # <<>>
<1>1. inv[s] \in AllAssignments
  BY DEF IInv, Shapes, AllAssignments
<1>. QED
  BY <1>1, PlanOf

\* A review that works keeps its count, and what it does not touch stays.
LEMMA Untouched ==
  ASSUME NEW t \in Scans, AddUp(t), UNCHANGED inv, pc'[t] = pc[t], err'[t] = err[t],
         todo'[t] = todo[t], verdicts'[t] = verdicts[t]
  PROVE  AddUp(t)'
<1>1. BatchesFor(t)' = BatchesFor(t) /\ Batches(t)' = Batches(t)
  BY DEF BatchesFor, Batches
<1>. QED
  BY <1>1 DEF AddUp


LEMMA Sums ==
  ASSUME NEW v \in Nat, NEW t \in Nat
  PROVE  0 + t = t /\ (v + 1) + (t - 1) = v + t /\ \A n \in Nat : v + t <= n => v + 0 <= n
OBVIOUS

LEMMA Longer ==
  ASSUME NEW S, NEW q \in Seq(S), NEW a \in S
  PROVE  /\ Append(q, a) \in Seq(S) /\ Len(Append(q, a)) = Len(q) + 1
         /\ Append(q, a)[Len(q) + 1] = a
         /\ \A i \in 1 .. Len(q) : Append(q, a)[i] = q[i]
BY AppendProperties

\* What the daemon or the program answered is a verdict.
LEMMA AnswersAre ==
  ASSUME IInv, NEW s \in Scans
  PROVE  answer[s] \in Verdicts
BY DEF IInv, Shapes

\* A batch is taken off what is to do when its verdict is added, and only an accepted
\* batch is (Reviewer.Review).
LEMMA BatchesAddUpStep == ASSUME IInv, [Next]_vars PROVE BatchesAddUp'
<1>. USE DEF daemon, work, Move, MoveOn
<1>0. pc \in [Scans \cup {Doctor} -> PCs] /\ Doctor \notin Scans /\ None \notin Scans
     /\ Doctor # None /\ BatchesAddUp /\ DOMAIN todo = Scans /\ DOMAIN verdicts = Scans
     /\ DOMAIN err = Scans
  BY PCsAre DEF IInv
<1>1. CASE MoveTag
  BY <1>0, <1>1 DEF MoveTag, BatchesAddUp, AddUp, Working, Loopback, Locked, Program, Batches, BatchesFor
<1>2. CASE Expire
  BY <1>0, <1>2 DEF Expire, BatchesAddUp, AddUp, Working, Loopback, Locked, Program, Batches, BatchesFor
<1>3. CASE DoctorLocks
  BY <1>0, <1>3 DEF DoctorLocks, BatchesAddUp, AddUp, Working, Loopback, Locked, Program, Batches, BatchesFor
<1>4. CASE DoctorResets
  BY <1>0, <1>4 DEF DoctorResets, BatchesAddUp, AddUp, Working, Loopback, Locked, Program, Batches, BatchesFor
<1>5. ASSUME NEW s \in Scans, Probe(s) PROVE BatchesAddUp'
  BY <1>0, <1>5 DEF Probe, BatchesAddUp, AddUp, Working, Loopback, Locked, Program, Batches, BatchesFor
<1>6. ASSUME NEW s \in Scans, BeginReview(s) PROVE BatchesAddUp'
  <2>1. Batches(s) \in Seq(ToSet(Batches(s))) /\ (BatchesFor(s).error = "" => Batches(s) # <<>>)
    BY PlanIs
  <2>2. /\ \/ /\ BatchesFor(s).error = ""
              /\ pc' = [pc EXCEPT ![s] = "worker"] /\ err' = [err EXCEPT ![s] = FALSE]
           \/ pc' = [pc EXCEPT ![s] = "done"] /\ err' = [err EXCEPT ![s] = TRUE]
        /\ todo' = [todo EXCEPT ![s] = Batches(s)]
        /\ verdicts' = [verdicts EXCEPT ![s] = <<>>] /\ UNCHANGED inv
    BY <1>6 DEF BeginReview, Batches
  <2>3. BatchesFor(s)' = BatchesFor(s) /\ Batches(s)' = Batches(s)
    BY <2>2 DEF BatchesFor, Batches
  <2>4. AddUp(s)'
    <3>1. Len(Batches(s)) \in Nat /\ Len(<<>>) = 0
      BY <2>1, LenProperties
    <3>2. /\ \/ BatchesFor(s).error = "" /\ pc'[s] = "worker"
             \/ pc'[s] = "done" /\ err'[s] = TRUE
          /\ todo'[s] = Batches(s) /\ verdicts'[s] = <<>>
      BY <1>0, <2>2
    <3>3. Len(verdicts'[s]) + Len(todo'[s]) = Len(Batches(s))
      <4>1. Len(verdicts'[s]) + Len(todo'[s]) = 0 + Len(Batches(s))
        BY <3>1, <3>2, Zenon
      <4>. QED
        BY <3>1, <4>1, Sums, Zenon
    <3>4. verdicts'[s] \in Seq(Verdicts) /\ DOMAIN verdicts'[s] = {}
      <4>1. <<>> \in Seq(Verdicts) /\ DOMAIN <<>> = {}
        BY EmptySeq
      <4>. QED
        BY <3>2, <4>1, Zenon
    <3>. QED
      BY <2>1, <2>3, <3>2, <3>3, <3>4 DEF AddUp, Working, Loopback, Locked, Program
  <2>5. ASSUME NEW t \in Scans, t # s PROVE AddUp(t)'
    BY <1>0, <2>2, <2>5, Untouched DEF BatchesAddUp
  <2>. QED
    BY <2>4, <2>5 DEF BatchesAddUp
<1>7. ASSUME NEW s \in Scans, WorkerMetadata(s) PROVE BatchesAddUp'
  BY <1>0, <1>7 DEF WorkerMetadata, BatchesAddUp, AddUp, Working, Loopback, Locked, Program, Batches, BatchesFor
<1>8. ASSUME NEW s \in Scans, AcquireLock(s) PROVE BatchesAddUp'
  BY <1>0, <1>8 DEF AcquireLock, BatchesAddUp, AddUp, Working, Loopback, Locked, Program, Batches, BatchesFor
<1>9. ASSUME NEW s \in Scans, Describe(s) PROVE BatchesAddUp'
  BY <1>0, <1>9 DEF Describe, BatchesAddUp, AddUp, Working, Loopback, Locked, Program, Batches, BatchesFor
<1>10. ASSUME NEW s \in Scans, Chat(s) PROVE BatchesAddUp'
  BY <1>0, <1>10 DEF Chat, BatchesAddUp, AddUp, Working, Loopback, Locked, Program, Batches, BatchesFor
<1>11. ASSUME NEW s \in Scans, verifyLoadedModel(s) PROVE BatchesAddUp'
  BY <1>0, <1>11 DEF verifyLoadedModel, BatchesAddUp, AddUp, Working, Loopback, Locked, Program, Batches, BatchesFor
<1>12. ASSUME NEW s \in Scans, DescribeAgain(s) PROVE BatchesAddUp'
  BY <1>0, <1>12 DEF DescribeAgain, BatchesAddUp, AddUp, Working, Loopback, Locked, Program, Batches, BatchesFor
<1>13. ASSUME NEW s \in Scans, Unload(s) PROVE BatchesAddUp'
  BY <1>0, <1>13 DEF Unload, BatchesAddUp, AddUp, Working, Loopback, Locked, Program, Batches, BatchesFor
<1>14. ASSUME NEW s \in Scans, Unlock(s) PROVE BatchesAddUp'
  BY <1>0, <1>14 DEF Unlock, BatchesAddUp, AddUp, Working, Loopback, Locked, Program, Batches, BatchesFor
<1>15. ASSUME NEW s \in Scans, Judge(s) PROVE BatchesAddUp'
  <2>1. UNCHANGED inv /\ pc[s] = "judge" /\ AddUp(s) /\ answer[s] \in Verdicts
    BY <1>0, <1>15, AnswersAre DEF Judge, BatchesAddUp
  <2>2. BatchesFor(s)' = BatchesFor(s) /\ Batches(s)' = Batches(s)
    BY <2>1 DEF BatchesFor, Batches
  <2>3. ASSUME NEW t \in Scans, t # s PROVE AddUp(t)'
    <3>1. /\ pc'[t] = pc[t] /\ err'[t] = err[t] /\ todo'[t] = todo[t]
          /\ verdicts'[t] = verdicts[t]
      BY <1>0, <1>15, <2>3 DEF Judge
    <3>. QED
      BY <1>0, <2>1, <3>1, Untouched DEF BatchesAddUp
  <2>4. AddUp(s)'
    <3>1. \/ /\ verdicts'[s] = Append(verdicts[s], answer[s]) /\ todo'[s] = Tail(todo[s])
             /\ pc'[s] = (IF Len(todo[s]) = 1 THEN "done" ELSE "worker")
             /\ answer[s].guidance = Targets /\ err'[s] = err[s]
          \/ /\ verdicts'[s] = verdicts[s] /\ todo'[s] = todo[s] /\ pc'[s] = "done"
             /\ err'[s] = TRUE
      BY <1>0, <1>15 DEF Judge
    <3>2. CASE verdicts'[s] = verdicts[s] /\ todo'[s] = todo[s] /\ pc'[s] = "done" /\ err'[s] = TRUE
      BY <2>1, <2>2, <3>2 DEF AddUp, Working, Loopback, Locked, Program
    <3>3. CASE /\ verdicts'[s] = Append(verdicts[s], answer[s]) /\ todo'[s] = Tail(todo[s])
               /\ pc'[s] = (IF Len(todo[s]) = 1 THEN "done" ELSE "worker")
               /\ answer[s].guidance = Targets /\ err'[s] = err[s]
      <4>1. /\ verdicts[s] \in Seq(Verdicts) /\ todo[s] \in Seq(ToSet(Batches(s))) /\ todo[s] # <<>>
            /\ \A i \in DOMAIN verdicts[s] : verdicts[s][i].guidance = Targets
            /\ BatchesFor(s).error = "" /\ Len(verdicts[s]) + Len(todo[s]) = Len(Batches(s))
        BY <2>1 DEF AddUp, Working
      <4>2. /\ verdicts'[s] \in Seq(Verdicts) /\ Len(verdicts'[s]) = Len(verdicts[s]) + 1
            /\ verdicts'[s][Len(verdicts[s]) + 1] = answer[s]
            /\ \A i \in 1 .. Len(verdicts[s]) : verdicts'[s][i] = verdicts[s][i]
        <5>1. verdicts[s] \in Seq(Verdicts) /\ answer[s] \in Verdicts
          BY <2>1, <4>1
        <5>2. verdicts'[s] = Append(verdicts[s], answer[s])
          BY <3>3
        <5>3. /\ Append(verdicts[s], answer[s]) \in Seq(Verdicts)
              /\ Len(Append(verdicts[s], answer[s])) = Len(verdicts[s]) + 1
              /\ Append(verdicts[s], answer[s])[Len(verdicts[s]) + 1] = answer[s]
              /\ \A i \in 1 .. Len(verdicts[s]) :
                   Append(verdicts[s], answer[s])[i] = verdicts[s][i]
          BY <5>1, Longer
        <5>. QED
          BY <5>2, <5>3, Zenon
      <4>3. /\ todo'[s] \in Seq(ToSet(Batches(s))) /\ Len(todo'[s]) = Len(todo[s]) - 1
        BY <3>3, <4>1, HeadTailProperties
      <4>4. /\ Len(verdicts[s]) \in Nat /\ DOMAIN verdicts[s] = 1 .. Len(verdicts[s])
            /\ Len(todo[s]) \in Nat /\ Len(todo[s]) # 0
            /\ DOMAIN verdicts'[s] = 1 .. Len(verdicts'[s])
        BY <4>1, <4>2, LenProperties, EmptySeq
      <4>5. \A i \in DOMAIN verdicts'[s] : verdicts'[s][i].guidance = Targets
        <5>1. ASSUME NEW i \in DOMAIN verdicts'[s]
              PROVE  i \in DOMAIN verdicts[s] \/ i = Len(verdicts[s]) + 1
          BY <4>2, <4>4
        <5>. QED
          BY <3>3, <4>1, <4>2, <4>4, <5>1
      <4>6. Len(verdicts'[s]) + Len(todo'[s]) = Len(Batches(s))
        <5>1. Len(verdicts'[s]) + Len(todo'[s]) = (Len(verdicts[s]) + 1) + (Len(todo[s]) - 1)
          BY <4>2, <4>3, Zenon
        <5>2. (Len(verdicts[s]) + 1) + (Len(todo[s]) - 1) = Len(verdicts[s]) + Len(todo[s])
          BY <4>4, Sums, Zenon
        <5>. QED
          BY <4>1, <5>1, <5>2, Zenon
      <4>7. verdicts'[s] # <<>>
        BY <4>2, <4>4
      <4>8. CASE Len(todo[s]) = 1
        <5>1. pc'[s] = "done" /\ Len(verdicts'[s]) = Len(Batches(s))
          BY <3>3, <4>1, <4>2, <4>4, <4>8
        <5>. QED
          BY <2>2, <4>2, <4>3, <4>5, <4>7, <5>1 DEF AddUp, Working, Loopback, Locked, Program
      <4>9. CASE Len(todo[s]) # 1
        <5>1. pc'[s] = "worker" /\ Len(todo'[s]) # 0
          BY <3>3, <4>3, <4>4, <4>9
        <5>2. todo'[s] # <<>>
          BY <5>1
        <5>. QED
          BY <2>2, <4>1, <4>2, <4>3, <4>5, <4>6, <5>1, <5>2 DEF AddUp, Working, Loopback, Locked, Program
      <4>. QED
        BY <4>8, <4>9
    <3>. QED
      BY <3>1, <3>2, <3>3
  <2>. QED
    BY <2>3, <2>4 DEF BatchesAddUp
<1>16. ASSUME NEW s \in Scans, Finish(s) PROVE BatchesAddUp'
  <2>1. UNCHANGED <<inv, verdicts, err>> /\ pc[s] = "done" /\ AddUp(s)
        /\ pc'[s] \in {"accepted", "refused"} /\ (pc'[s] = "accepted" => ~err[s]) /\ todo'[s] = <<>>
    BY <1>0, <1>16 DEF Finish, BatchesAddUp
  <2>2. BatchesFor(s)' = BatchesFor(s) /\ Batches(s)' = Batches(s)
    BY <2>1 DEF BatchesFor, Batches
  <2>3. ASSUME NEW t \in Scans, t # s PROVE AddUp(t)'
    <3>1. pc'[t] = pc[t] /\ todo'[t] = todo[t]
      BY <1>0, <1>16, <2>3 DEF Finish
    <3>. QED
      BY <1>0, <2>1, <3>1, Untouched DEF BatchesAddUp
  <2>4. AddUp(s)'
    BY <2>1, <2>2 DEF AddUp, Working, Loopback, Locked, Program
  <2>. QED
    BY <2>3, <2>4 DEF BatchesAddUp
<1>17. ASSUME NEW s \in Scans, Again(s) PROVE BatchesAddUp'
  BY <1>0, <1>17 DEF Again, BatchesAddUp, AddUp, Working, Loopback, Locked, Program, Batches, BatchesFor
<1>18. ASSUME NEW s \in Scans, Launch(s) PROVE BatchesAddUp'
  BY <1>0, <1>18 DEF Launch, BatchesAddUp, AddUp, Working, Loopback, Locked, Program, Batches, BatchesFor
<1>19. ASSUME NEW s \in Scans, KillGroup(s) PROVE BatchesAddUp'
  BY <1>0, <1>19 DEF KillGroup, BatchesAddUp, AddUp, Working, Loopback, Locked, Program, Batches, BatchesFor
<1>20. ASSUME NEW s \in Scans, Reap(s) PROVE BatchesAddUp'
  BY <1>0, <1>20 DEF Reap, BatchesAddUp, AddUp, Working, Loopback, Locked, Program, Batches, BatchesFor
<1>21. ASSUME NEW s \in Scans, Timeout(s) PROVE BatchesAddUp'
  BY <1>0, <1>21 DEF Timeout, BatchesAddUp, AddUp, Working, Loopback, Locked, Program, Batches, BatchesFor
<1>22. ASSUME NEW s \in Scans, ChildExits(s) PROVE BatchesAddUp'
  BY <1>0, <1>22 DEF ChildExits, BatchesAddUp, AddUp, Working, Loopback, Locked, Program, Batches, BatchesFor
<1>23. ASSUME NEW s \in Scans, Terminate(s) PROVE BatchesAddUp'
  BY <1>0, <1>23 DEF Terminate, BatchesAddUp, AddUp, Working, Loopback, Locked, Program, Batches, BatchesFor
<1>25. ASSUME NEW s \in Scans, HelperExits(s) PROVE BatchesAddUp'
  BY <1>0, <1>25 DEF HelperExits, BatchesAddUp, AddUp, Working, Loopback, Locked, Program, Batches, BatchesFor
<1>24. CASE UNCHANGED vars
  BY <1>0, <1>24 DEF vars, BatchesAddUp, AddUp, Working, Loopback, Locked, Program, Batches, BatchesFor
<1>. QED
  BY <1>1, <1>2, <1>3, <1>4, <1>5, <1>6, <1>7, <1>8, <1>9, <1>10, <1>11, <1>12, <1>13, <1>14, <1>15, <1>16, <1>17, <1>18, <1>19, <1>20, <1>21, <1>22, <1>23, <1>24, <1>25, Steps

----------------------------------------------------------------------------
(* The types, in the groups their proofs go by.                            *)

Places ==
  /\ tag \in Digests /\ loaded \subseteq Digests /\ moves \in 0 .. MaxMoves
  /\ lock \in Scans \cup {Doctor, None}
  /\ pc \in [Scans \cup {Doctor} -> PCs]

Known == Digests \cup {None}
DigestsAreKnown ==
  \A s \in Scans :
    /\ attested[s] \in Known /\ expected[s] \in Known /\ meta[s] \in Known
    /\ desc[s] \in Known /\ answer[s].by \in Known

ChildStates == {"none", "running", "terminating", "dead"}
ChildrenAre == \A s \in Scans : child[s] \in ChildStates

PipesAre == pipe \in [Scans -> BOOLEAN]

ReviewsAreCounted == \A s \in Scans : reviews[s] \in 0 .. inv[s].reviews

CountsFit == \A s \in Scans : Len(verdicts[s]) + Len(todo[s]) <= Len(Batches(s))

LEMMA Types ==
  TypeOK <=> /\ Places /\ DigestsAreKnown /\ ChildrenAre /\ ReviewsAreCounted /\ CountsFit
             /\ PipesAre
BY DEF TypeOK, Places, DigestsAreKnown, Known, ChildrenAre, ChildStates, ReviewsAreCounted,
       CountsFit, Batches, PipesAre

\* A digest the tag names is a digest, and a scan is a holder of the lock.
LEMMA PlacesStep == ASSUME IInv, [Next]_vars PROVE Places'
<1>. USE DEF daemon, work, Move, MoveOn
<1>0. Places
  BY Types DEF IInv
<1>1. CASE MoveTag
  <2>1. moves' \in 0 .. MaxMoves
    <3>1. moves \in 0 .. MaxMoves /\ moves < MaxMoves /\ moves' = moves + 1
      BY <1>0, <1>1 DEF MoveTag, Places
    <3>2. moves + 1 \in 0 .. MaxMoves
      BY <3>1, ReviewConstants
    <3>. QED
      BY <3>1, <3>2, Zenon
  <2>. QED
    BY <1>0, <2>1, <1>1 DEF MoveTag, Places
<1>2. CASE Expire
  BY <1>0, <1>2 DEF Expire, Places, PCs
<1>3. CASE DoctorLocks
  BY <1>0, <1>3 DEF DoctorLocks, Places, PCs
<1>4. CASE DoctorResets
  BY <1>0, <1>4 DEF DoctorResets, Places, PCs
<1>5. ASSUME NEW s \in Scans, Probe(s) PROVE Places'
  BY <1>0, <1>5 DEF Probe, Places, PCs
<1>6. ASSUME NEW s \in Scans, BeginReview(s) PROVE Places'
  BY <1>0, <1>6 DEF BeginReview, Places, PCs
<1>7. ASSUME NEW s \in Scans, WorkerMetadata(s) PROVE Places'
  BY <1>0, <1>7 DEF WorkerMetadata, Places, PCs
<1>8. ASSUME NEW s \in Scans, AcquireLock(s) PROVE Places'
  BY <1>0, <1>8 DEF AcquireLock, Places, PCs
<1>9. ASSUME NEW s \in Scans, Describe(s) PROVE Places'
  BY <1>0, <1>9 DEF Describe, Places, PCs
<1>10. ASSUME NEW s \in Scans, Chat(s) PROVE Places'
  BY <1>0, <1>10 DEF Chat, Places, PCs
<1>11. ASSUME NEW s \in Scans, verifyLoadedModel(s) PROVE Places'
  BY <1>0, <1>11 DEF verifyLoadedModel, Places, PCs
<1>12. ASSUME NEW s \in Scans, DescribeAgain(s) PROVE Places'
  BY <1>0, <1>12 DEF DescribeAgain, Places, PCs
<1>13. ASSUME NEW s \in Scans, Unload(s) PROVE Places'
  BY <1>0, <1>13 DEF Unload, Places, PCs
<1>14. ASSUME NEW s \in Scans, Unlock(s) PROVE Places'
  BY <1>0, <1>14 DEF Unlock, Places, PCs
<1>15. ASSUME NEW s \in Scans, Judge(s) PROVE Places'
  BY <1>0, <1>15 DEF Judge, Places, PCs
<1>16. ASSUME NEW s \in Scans, Finish(s) PROVE Places'
  BY <1>0, <1>16 DEF Finish, Places, PCs
<1>17. ASSUME NEW s \in Scans, Again(s) PROVE Places'
  BY <1>0, <1>17 DEF Again, Places, PCs
<1>18. ASSUME NEW s \in Scans, Launch(s) PROVE Places'
  BY <1>0, <1>18 DEF Launch, Places, PCs
<1>19. ASSUME NEW s \in Scans, KillGroup(s) PROVE Places'
  BY <1>0, <1>19 DEF KillGroup, Places, PCs
<1>20. ASSUME NEW s \in Scans, Reap(s) PROVE Places'
  BY <1>0, <1>20 DEF Reap, Places, PCs
<1>21. ASSUME NEW s \in Scans, Timeout(s) PROVE Places'
  BY <1>0, <1>21 DEF Timeout, Places, PCs
<1>22. ASSUME NEW s \in Scans, ChildExits(s) PROVE Places'
  BY <1>0, <1>22 DEF ChildExits, Places, PCs
<1>23. ASSUME NEW s \in Scans, Terminate(s) PROVE Places'
  BY <1>0, <1>23 DEF Terminate, Places, PCs
<1>25. ASSUME NEW s \in Scans, HelperExits(s) PROVE Places'
  BY <1>0, <1>25 DEF HelperExits, Places, PCs
<1>24. CASE UNCHANGED vars
  BY <1>0, <1>24 DEF vars, Places, PCs
<1>. QED
  BY <1>1, <1>2, <1>3, <1>4, <1>5, <1>6, <1>7, <1>8, <1>9, <1>10, <1>11, <1>12, <1>13, <1>14, <1>15, <1>16, <1>17, <1>18, <1>19, <1>20, <1>21, <1>22, <1>23, <1>24, <1>25, Steps

\* Whatever is noted of a model is a digest, or nothing (ollamaAdapter.Metadata).
LEMMA DigestsAreKnownStep == ASSUME IInv, [Next]_vars PROVE DigestsAreKnown'
<1>. USE DEF daemon, work, Move, MoveOn
<1>0. /\ DigestsAreKnown /\ tag \in Known /\ FirstDigest \in Known /\ None \in Known
      /\ NoAnswer.by = None
      /\ DOMAIN attested = Scans /\ DOMAIN expected = Scans /\ DOMAIN meta = Scans
      /\ DOMAIN desc = Scans /\ DOMAIN answer = Scans
  BY PCsAre, Types, ReviewConstants DEF IInv, Places, Known, FirstDigest, NoAnswer
<1>1. CASE MoveTag
  BY <1>0, <1>1 DEF MoveTag, DigestsAreKnown, Reviewing
<1>2. CASE Expire
  BY <1>0, <1>2 DEF Expire, DigestsAreKnown, Reviewing
<1>3. CASE DoctorLocks
  BY <1>0, <1>3 DEF DoctorLocks, DigestsAreKnown, Reviewing
<1>4. CASE DoctorResets
  BY <1>0, <1>4 DEF DoctorResets, DigestsAreKnown, Reviewing
<1>5. ASSUME NEW s \in Scans, Probe(s) PROVE DigestsAreKnown'
  BY <1>0, <1>5 DEF Probe, DigestsAreKnown, Reviewing
<1>6. ASSUME NEW s \in Scans, BeginReview(s) PROVE DigestsAreKnown'
  BY <1>0, <1>6 DEF BeginReview, DigestsAreKnown, Reviewing
<1>7. ASSUME NEW s \in Scans, WorkerMetadata(s) PROVE DigestsAreKnown'
  BY <1>0, <1>7 DEF WorkerMetadata, DigestsAreKnown, Reviewing
<1>8. ASSUME NEW s \in Scans, AcquireLock(s) PROVE DigestsAreKnown'
  BY <1>0, <1>8 DEF AcquireLock, DigestsAreKnown, Reviewing
<1>9. ASSUME NEW s \in Scans, Describe(s) PROVE DigestsAreKnown'
  BY <1>0, <1>9 DEF Describe, DigestsAreKnown, Reviewing
<1>10. ASSUME NEW s \in Scans, Chat(s) PROVE DigestsAreKnown'
  BY <1>0, <1>10 DEF Chat, DigestsAreKnown, Reviewing
<1>11. ASSUME NEW s \in Scans, verifyLoadedModel(s) PROVE DigestsAreKnown'
  BY <1>0, <1>11 DEF verifyLoadedModel, DigestsAreKnown, Reviewing
<1>12. ASSUME NEW s \in Scans, DescribeAgain(s) PROVE DigestsAreKnown'
  BY <1>0, <1>12 DEF DescribeAgain, DigestsAreKnown, Reviewing
<1>13. ASSUME NEW s \in Scans, Unload(s) PROVE DigestsAreKnown'
  BY <1>0, <1>13 DEF Unload, DigestsAreKnown, Reviewing
<1>14. ASSUME NEW s \in Scans, Unlock(s) PROVE DigestsAreKnown'
  BY <1>0, <1>14 DEF Unlock, DigestsAreKnown, Reviewing
<1>15. ASSUME NEW s \in Scans, Judge(s) PROVE DigestsAreKnown'
  BY <1>0, <1>15 DEF Judge, DigestsAreKnown, Reviewing
<1>16. ASSUME NEW s \in Scans, Finish(s) PROVE DigestsAreKnown'
  BY <1>0, <1>16 DEF Finish, DigestsAreKnown, Reviewing
<1>17. ASSUME NEW s \in Scans, Again(s) PROVE DigestsAreKnown'
  BY <1>0, <1>17 DEF Again, DigestsAreKnown, Reviewing
<1>18. ASSUME NEW s \in Scans, Launch(s) PROVE DigestsAreKnown'
  BY <1>0, <1>18 DEF Launch, DigestsAreKnown, Reviewing
<1>19. ASSUME NEW s \in Scans, KillGroup(s) PROVE DigestsAreKnown'
  BY <1>0, <1>19 DEF KillGroup, DigestsAreKnown, Reviewing
<1>20. ASSUME NEW s \in Scans, Reap(s) PROVE DigestsAreKnown'
  BY <1>0, <1>20 DEF Reap, DigestsAreKnown, Reviewing
<1>21. ASSUME NEW s \in Scans, Timeout(s) PROVE DigestsAreKnown'
  BY <1>0, <1>21 DEF Timeout, DigestsAreKnown, Reviewing
<1>22. ASSUME NEW s \in Scans, ChildExits(s) PROVE DigestsAreKnown'
  BY <1>0, <1>22 DEF ChildExits, DigestsAreKnown, Reviewing
<1>23. ASSUME NEW s \in Scans, Terminate(s) PROVE DigestsAreKnown'
  BY <1>0, <1>23 DEF Terminate, DigestsAreKnown, Reviewing
<1>25. ASSUME NEW s \in Scans, HelperExits(s) PROVE DigestsAreKnown'
  BY <1>0, <1>25 DEF HelperExits, DigestsAreKnown, Reviewing
<1>24. CASE UNCHANGED vars
  BY <1>0, <1>24 DEF vars, DigestsAreKnown, Reviewing
<1>. QED
  BY <1>1, <1>2, <1>3, <1>4, <1>5, <1>6, <1>7, <1>8, <1>9, <1>10, <1>11, <1>12, <1>13, <1>14, <1>15, <1>16, <1>17, <1>18, <1>19, <1>20, <1>21, <1>22, <1>23, <1>24, <1>25, Steps

\* The program of a review is none, or in one of its states (runProcessGroup).
LEMMA ChildrenAreStep == ASSUME IInv, [Next]_vars PROVE ChildrenAre'
<1>. USE DEF daemon, work, Move, MoveOn
<1>0. ChildrenAre /\ DOMAIN child = Scans
  BY PCsAre, Types DEF IInv
<1>1. CASE MoveTag
  BY <1>0, <1>1 DEF MoveTag, ChildrenAre, ChildStates
<1>2. CASE Expire
  BY <1>0, <1>2 DEF Expire, ChildrenAre, ChildStates
<1>3. CASE DoctorLocks
  BY <1>0, <1>3 DEF DoctorLocks, ChildrenAre, ChildStates
<1>4. CASE DoctorResets
  BY <1>0, <1>4 DEF DoctorResets, ChildrenAre, ChildStates
<1>5. ASSUME NEW s \in Scans, Probe(s) PROVE ChildrenAre'
  BY <1>0, <1>5 DEF Probe, ChildrenAre, ChildStates
<1>6. ASSUME NEW s \in Scans, BeginReview(s) PROVE ChildrenAre'
  BY <1>0, <1>6 DEF BeginReview, ChildrenAre, ChildStates
<1>7. ASSUME NEW s \in Scans, WorkerMetadata(s) PROVE ChildrenAre'
  BY <1>0, <1>7 DEF WorkerMetadata, ChildrenAre, ChildStates
<1>8. ASSUME NEW s \in Scans, AcquireLock(s) PROVE ChildrenAre'
  BY <1>0, <1>8 DEF AcquireLock, ChildrenAre, ChildStates
<1>9. ASSUME NEW s \in Scans, Describe(s) PROVE ChildrenAre'
  BY <1>0, <1>9 DEF Describe, ChildrenAre, ChildStates
<1>10. ASSUME NEW s \in Scans, Chat(s) PROVE ChildrenAre'
  BY <1>0, <1>10 DEF Chat, ChildrenAre, ChildStates
<1>11. ASSUME NEW s \in Scans, verifyLoadedModel(s) PROVE ChildrenAre'
  BY <1>0, <1>11 DEF verifyLoadedModel, ChildrenAre, ChildStates
<1>12. ASSUME NEW s \in Scans, DescribeAgain(s) PROVE ChildrenAre'
  BY <1>0, <1>12 DEF DescribeAgain, ChildrenAre, ChildStates
<1>13. ASSUME NEW s \in Scans, Unload(s) PROVE ChildrenAre'
  BY <1>0, <1>13 DEF Unload, ChildrenAre, ChildStates
<1>14. ASSUME NEW s \in Scans, Unlock(s) PROVE ChildrenAre'
  BY <1>0, <1>14 DEF Unlock, ChildrenAre, ChildStates
<1>15. ASSUME NEW s \in Scans, Judge(s) PROVE ChildrenAre'
  BY <1>0, <1>15 DEF Judge, ChildrenAre, ChildStates
<1>16. ASSUME NEW s \in Scans, Finish(s) PROVE ChildrenAre'
  BY <1>0, <1>16 DEF Finish, ChildrenAre, ChildStates
<1>17. ASSUME NEW s \in Scans, Again(s) PROVE ChildrenAre'
  BY <1>0, <1>17 DEF Again, ChildrenAre, ChildStates
<1>18. ASSUME NEW s \in Scans, Launch(s) PROVE ChildrenAre'
  BY <1>0, <1>18 DEF Launch, ChildrenAre, ChildStates
<1>19. ASSUME NEW s \in Scans, KillGroup(s) PROVE ChildrenAre'
  BY <1>0, <1>19 DEF KillGroup, ChildrenAre, ChildStates
<1>20. ASSUME NEW s \in Scans, Reap(s) PROVE ChildrenAre'
  BY <1>0, <1>20 DEF Reap, ChildrenAre, ChildStates
<1>21. ASSUME NEW s \in Scans, Timeout(s) PROVE ChildrenAre'
  BY <1>0, <1>21 DEF Timeout, ChildrenAre, ChildStates
<1>22. ASSUME NEW s \in Scans, ChildExits(s) PROVE ChildrenAre'
  BY <1>0, <1>22 DEF ChildExits, ChildrenAre, ChildStates
<1>23. ASSUME NEW s \in Scans, Terminate(s) PROVE ChildrenAre'
  BY <1>0, <1>23 DEF Terminate, ChildrenAre, ChildStates
<1>25. ASSUME NEW s \in Scans, HelperExits(s) PROVE ChildrenAre'
  BY <1>0, <1>25 DEF HelperExits, ChildrenAre, ChildStates
<1>24. CASE UNCHANGED vars
  BY <1>0, <1>24 DEF vars, ChildrenAre, ChildStates
<1>. QED
  BY <1>1, <1>2, <1>3, <1>4, <1>5, <1>6, <1>7, <1>8, <1>9, <1>10, <1>11, <1>12, <1>13, <1>14, <1>15, <1>16, <1>17, <1>18, <1>19, <1>20, <1>21, <1>22, <1>23, <1>24, <1>25, Steps

\* No more reviews are begun than the scan and its questions ask for (evaluate).
LEMMA ReviewsAreCountedStep == ASSUME IInv, [Next]_vars PROVE ReviewsAreCounted'
<1>. USE DEF daemon, work, Move, MoveOn
<1>0. ReviewsAreCounted /\ DOMAIN reviews = Scans
  BY PCsAre, Types DEF IInv
<1>1. CASE MoveTag
  BY <1>0, <1>1 DEF MoveTag, ReviewsAreCounted
<1>2. CASE Expire
  BY <1>0, <1>2 DEF Expire, ReviewsAreCounted
<1>3. CASE DoctorLocks
  BY <1>0, <1>3 DEF DoctorLocks, ReviewsAreCounted
<1>4. CASE DoctorResets
  BY <1>0, <1>4 DEF DoctorResets, ReviewsAreCounted
<1>5. ASSUME NEW s \in Scans, Probe(s) PROVE ReviewsAreCounted'
  BY <1>0, <1>5 DEF Probe, ReviewsAreCounted
<1>6. ASSUME NEW s \in Scans, BeginReview(s) PROVE ReviewsAreCounted'
  <2>1. /\ reviews[s] \in 0 .. inv[s].reviews /\ reviews[s] < inv[s].reviews
        /\ inv[s] \in Assignments[s]
    BY <1>0, <1>6 DEF BeginReview, ReviewsAreCounted, IInv, Shapes
  <2>2. inv[s].reviews \in Nat
    BY <2>1, ReviewConstants
  <2>3. reviews[s] + 1 \in 0 .. inv[s].reviews
    BY <2>1, <2>2
  <2>4. reviews' = [reviews EXCEPT ![s] = reviews[s] + 1] /\ UNCHANGED inv
    BY <1>6 DEF BeginReview
  <2>. QED
    BY <1>0, <2>3, <2>4, Zenon DEF ReviewsAreCounted
<1>7. ASSUME NEW s \in Scans, WorkerMetadata(s) PROVE ReviewsAreCounted'
  BY <1>0, <1>7 DEF WorkerMetadata, ReviewsAreCounted
<1>8. ASSUME NEW s \in Scans, AcquireLock(s) PROVE ReviewsAreCounted'
  BY <1>0, <1>8 DEF AcquireLock, ReviewsAreCounted
<1>9. ASSUME NEW s \in Scans, Describe(s) PROVE ReviewsAreCounted'
  BY <1>0, <1>9 DEF Describe, ReviewsAreCounted
<1>10. ASSUME NEW s \in Scans, Chat(s) PROVE ReviewsAreCounted'
  BY <1>0, <1>10 DEF Chat, ReviewsAreCounted
<1>11. ASSUME NEW s \in Scans, verifyLoadedModel(s) PROVE ReviewsAreCounted'
  BY <1>0, <1>11 DEF verifyLoadedModel, ReviewsAreCounted
<1>12. ASSUME NEW s \in Scans, DescribeAgain(s) PROVE ReviewsAreCounted'
  BY <1>0, <1>12 DEF DescribeAgain, ReviewsAreCounted
<1>13. ASSUME NEW s \in Scans, Unload(s) PROVE ReviewsAreCounted'
  BY <1>0, <1>13 DEF Unload, ReviewsAreCounted
<1>14. ASSUME NEW s \in Scans, Unlock(s) PROVE ReviewsAreCounted'
  BY <1>0, <1>14 DEF Unlock, ReviewsAreCounted
<1>15. ASSUME NEW s \in Scans, Judge(s) PROVE ReviewsAreCounted'
  BY <1>0, <1>15 DEF Judge, ReviewsAreCounted
<1>16. ASSUME NEW s \in Scans, Finish(s) PROVE ReviewsAreCounted'
  BY <1>0, <1>16 DEF Finish, ReviewsAreCounted
<1>17. ASSUME NEW s \in Scans, Again(s) PROVE ReviewsAreCounted'
  BY <1>0, <1>17 DEF Again, ReviewsAreCounted
<1>18. ASSUME NEW s \in Scans, Launch(s) PROVE ReviewsAreCounted'
  BY <1>0, <1>18 DEF Launch, ReviewsAreCounted
<1>19. ASSUME NEW s \in Scans, KillGroup(s) PROVE ReviewsAreCounted'
  BY <1>0, <1>19 DEF KillGroup, ReviewsAreCounted
<1>20. ASSUME NEW s \in Scans, Reap(s) PROVE ReviewsAreCounted'
  BY <1>0, <1>20 DEF Reap, ReviewsAreCounted
<1>21. ASSUME NEW s \in Scans, Timeout(s) PROVE ReviewsAreCounted'
  BY <1>0, <1>21 DEF Timeout, ReviewsAreCounted
<1>22. ASSUME NEW s \in Scans, ChildExits(s) PROVE ReviewsAreCounted'
  BY <1>0, <1>22 DEF ChildExits, ReviewsAreCounted
<1>23. ASSUME NEW s \in Scans, Terminate(s) PROVE ReviewsAreCounted'
  BY <1>0, <1>23 DEF Terminate, ReviewsAreCounted
<1>25. ASSUME NEW s \in Scans, HelperExits(s) PROVE ReviewsAreCounted'
  BY <1>0, <1>25 DEF HelperExits, ReviewsAreCounted
<1>24. CASE UNCHANGED vars
  BY <1>0, <1>24 DEF vars, ReviewsAreCounted
<1>. QED
  BY <1>1, <1>2, <1>3, <1>4, <1>5, <1>6, <1>7, <1>8, <1>9, <1>10, <1>11, <1>12, <1>13, <1>14, <1>15, <1>16, <1>17, <1>18, <1>19, <1>20, <1>21, <1>22, <1>23, <1>24, <1>25, Steps

\* There is never a verdict too many (Reviewer.Review).
LEMMA CountsFitStep == ASSUME IInv, [Next]_vars PROVE CountsFit'
<1>. USE DEF daemon, work, Move, MoveOn
<1>0. CountsFit /\ DOMAIN todo = Scans /\ DOMAIN verdicts = Scans /\ BatchesAddUp
  BY PCsAre, Types DEF IInv
<1>a. ASSUME NEW s \in Scans, UNCHANGED inv, Len(verdicts'[s]) + Len(todo'[s]) <= Len(Batches(s)),
             \A t \in Scans : t # s => verdicts'[t] = verdicts[t] /\ todo'[t] = todo[t]
      PROVE  CountsFit'
  <2>1. \A t \in Scans : Batches(t)' = Batches(t)
    BY <1>a DEF Batches, BatchesFor
  <2>. QED
    BY <1>0, <1>a, <2>1, Zenon DEF CountsFit
<1>b. \A s \in Scans : Len(verdicts[s]) \in Nat /\ Len(todo[s]) \in Nat /\ Len(Batches(s)) \in Nat
  BY <1>0, PlanIs, LenProperties DEF BatchesAddUp, AddUp
<1>c. Len(<<>>) = 0
  OBVIOUS
<1>1. CASE MoveTag
  BY <1>0, <1>1 DEF MoveTag, CountsFit, Batches, BatchesFor
<1>2. CASE Expire
  BY <1>0, <1>2 DEF Expire, CountsFit, Batches, BatchesFor
<1>3. CASE DoctorLocks
  BY <1>0, <1>3 DEF DoctorLocks, CountsFit, Batches, BatchesFor
<1>4. CASE DoctorResets
  BY <1>0, <1>4 DEF DoctorResets, CountsFit, Batches, BatchesFor
<1>5. ASSUME NEW s \in Scans, Probe(s) PROVE CountsFit'
  BY <1>0, <1>5 DEF Probe, CountsFit, Batches, BatchesFor
<1>6. ASSUME NEW s \in Scans, BeginReview(s) PROVE CountsFit'
  <2>1. /\ todo' = [todo EXCEPT ![s] = Batches(s)] /\ verdicts' = [verdicts EXCEPT ![s] = <<>>]
        /\ UNCHANGED inv
    BY <1>6 DEF BeginReview, Batches
  <2>2. Len(<<>>) + Len(Batches(s)) <= Len(Batches(s))
    BY <1>b, <1>c
  <2>3. verdicts'[s] = <<>> /\ todo'[s] = Batches(s)
    BY <1>0, <2>1
  <2>4. Len(verdicts'[s]) + Len(todo'[s]) <= Len(Batches(s))
    BY <2>2, <2>3, Zenon
  <2>5. \A t \in Scans : t # s => verdicts'[t] = verdicts[t] /\ todo'[t] = todo[t]
    BY <1>0, <2>1
  <2>. QED
    BY <1>a, <2>1, <2>4, <2>5, Zenon
<1>7. ASSUME NEW s \in Scans, WorkerMetadata(s) PROVE CountsFit'
  BY <1>0, <1>7 DEF WorkerMetadata, CountsFit, Batches, BatchesFor
<1>8. ASSUME NEW s \in Scans, AcquireLock(s) PROVE CountsFit'
  BY <1>0, <1>8 DEF AcquireLock, CountsFit, Batches, BatchesFor
<1>9. ASSUME NEW s \in Scans, Describe(s) PROVE CountsFit'
  BY <1>0, <1>9 DEF Describe, CountsFit, Batches, BatchesFor
<1>10. ASSUME NEW s \in Scans, Chat(s) PROVE CountsFit'
  BY <1>0, <1>10 DEF Chat, CountsFit, Batches, BatchesFor
<1>11. ASSUME NEW s \in Scans, verifyLoadedModel(s) PROVE CountsFit'
  BY <1>0, <1>11 DEF verifyLoadedModel, CountsFit, Batches, BatchesFor
<1>12. ASSUME NEW s \in Scans, DescribeAgain(s) PROVE CountsFit'
  BY <1>0, <1>12 DEF DescribeAgain, CountsFit, Batches, BatchesFor
<1>13. ASSUME NEW s \in Scans, Unload(s) PROVE CountsFit'
  BY <1>0, <1>13 DEF Unload, CountsFit, Batches, BatchesFor
<1>14. ASSUME NEW s \in Scans, Unlock(s) PROVE CountsFit'
  BY <1>0, <1>14 DEF Unlock, CountsFit, Batches, BatchesFor
<1>15. ASSUME NEW s \in Scans, Judge(s) PROVE CountsFit'
  <2>1. /\ UNCHANGED inv
        /\ \A t \in Scans : t # s => verdicts'[t] = verdicts[t] /\ todo'[t] = todo[t]
        /\ \/ verdicts'[s] = Append(verdicts[s], answer[s]) /\ todo'[s] = Tail(todo[s])
           \/ verdicts'[s] = verdicts[s] /\ todo'[s] = todo[s]
    BY <1>0, <1>15 DEF Judge
  <2>2. /\ verdicts[s] \in Seq(Verdicts) /\ todo[s] \in Seq(ToSet(Batches(s))) /\ todo[s] # <<>>
        /\ answer[s] \in Verdicts
    BY <1>0, <1>15, AnswersAre DEF Judge, BatchesAddUp, AddUp, Working
  <2>3. Len(Append(verdicts[s], answer[s])) = Len(verdicts[s]) + 1
    BY <2>2, Longer
  <2>4. Len(Tail(todo[s])) = Len(todo[s]) - 1
    BY <2>2, HeadTailProperties
  <2>5. Len(verdicts[s]) + Len(todo[s]) <= Len(Batches(s))
    BY <1>0 DEF CountsFit
  <2>6. Len(Append(verdicts[s], answer[s])) + Len(Tail(todo[s])) <= Len(Batches(s))
    <3>1. (Len(verdicts[s]) + 1) + (Len(todo[s]) - 1) = Len(verdicts[s]) + Len(todo[s])
      BY <1>b, Sums, Zenon
    <3>. QED
      BY <2>3, <2>4, <2>5, <3>1, Zenon
  <2>7. Len(verdicts'[s]) + Len(todo'[s]) <= Len(Batches(s))
    BY <2>1, <2>5, <2>6, Zenon
  <2>. QED
    BY <1>a, <2>1, <2>7, Zenon
<1>16. ASSUME NEW s \in Scans, Finish(s) PROVE CountsFit'
  <2>1. /\ todo' = [todo EXCEPT ![s] = <<>>] /\ UNCHANGED <<inv, verdicts>>
    BY <1>16 DEF Finish
  <2>2. Len(verdicts[s]) + Len(todo[s]) <= Len(Batches(s))
    BY <1>0 DEF CountsFit
  <2>3. Len(verdicts[s]) + Len(<<>>) <= Len(Batches(s))
    BY <1>b, <1>c, <2>2, Sums, Zenon
  <2>4. todo'[s] = <<>> /\ verdicts'[s] = verdicts[s]
        /\ \A t \in Scans : t # s => verdicts'[t] = verdicts[t] /\ todo'[t] = todo[t]
    BY <1>0, <2>1
  <2>5. Len(verdicts'[s]) + Len(todo'[s]) <= Len(Batches(s))
    BY <2>3, <2>4, Zenon
  <2>. QED
    BY <1>a, <2>1, <2>4, <2>5, Zenon
<1>17. ASSUME NEW s \in Scans, Again(s) PROVE CountsFit'
  BY <1>0, <1>17 DEF Again, CountsFit, Batches, BatchesFor
<1>18. ASSUME NEW s \in Scans, Launch(s) PROVE CountsFit'
  BY <1>0, <1>18 DEF Launch, CountsFit, Batches, BatchesFor
<1>19. ASSUME NEW s \in Scans, KillGroup(s) PROVE CountsFit'
  BY <1>0, <1>19 DEF KillGroup, CountsFit, Batches, BatchesFor
<1>20. ASSUME NEW s \in Scans, Reap(s) PROVE CountsFit'
  BY <1>0, <1>20 DEF Reap, CountsFit, Batches, BatchesFor
<1>21. ASSUME NEW s \in Scans, Timeout(s) PROVE CountsFit'
  BY <1>0, <1>21 DEF Timeout, CountsFit, Batches, BatchesFor
<1>22. ASSUME NEW s \in Scans, ChildExits(s) PROVE CountsFit'
  BY <1>0, <1>22 DEF ChildExits, CountsFit, Batches, BatchesFor
<1>23. ASSUME NEW s \in Scans, Terminate(s) PROVE CountsFit'
  BY <1>0, <1>23 DEF Terminate, CountsFit, Batches, BatchesFor
<1>25. ASSUME NEW s \in Scans, HelperExits(s) PROVE CountsFit'
  BY <1>0, <1>25 DEF HelperExits, CountsFit, Batches, BatchesFor
<1>24. CASE UNCHANGED vars
  BY <1>0, <1>24 DEF vars, CountsFit, Batches, BatchesFor
<1>. QED
  BY <1>1, <1>2, <1>3, <1>4, <1>5, <1>6, <1>7, <1>8, <1>9, <1>10, <1>11, <1>12, <1>13, <1>14, <1>15, <1>16, <1>17, <1>18, <1>19, <1>20, <1>21, <1>22, <1>23, <1>24, <1>25, Steps

----------------------------------------------------------------------------
(* The invariant.                                                          *)

\* A pipe is held or closed (commandVersion, codexFeatures).
LEMMA PipesAreStep == ASSUME IInv, [Next]_vars PROVE PipesAre'
<1>. USE DEF daemon, work, MoveOn, PipesAre
<1>0. PipesAre
  BY Types DEF IInv
<1>1. CASE MoveTag \/ Expire \/ DoctorLocks \/ DoctorResets \/ UNCHANGED vars
  BY <1>0, <1>1 DEF MoveTag, Expire, DoctorLocks, DoctorResets, vars
<1>2. ASSUME NEW s \in Scans,
             BeginReview(s) \/ WorkerMetadata(s) \/ Judge(s) \/ HelperExits(s)
      PROVE  PipesAre'
  BY <1>0, <1>2 DEF BeginReview, WorkerMetadata, Judge, HelperExits
<1>3. ASSUME NEW s \in Scans,
             \/ Probe(s) \/ AcquireLock(s) \/ Describe(s) \/ Chat(s) \/ verifyLoadedModel(s)
             \/ DescribeAgain(s) \/ Unload(s) \/ Unlock(s) \/ Finish(s) \/ Again(s)
             \/ Launch(s) \/ KillGroup(s) \/ Reap(s) \/ Timeout(s) \/ ChildExits(s)
             \/ Terminate(s)
      PROVE  PipesAre'
  <2>1. UNCHANGED pipe
    BY <1>3 DEF Probe, AcquireLock, Describe, Chat, verifyLoadedModel, DescribeAgain, Unload,
                Unlock, Finish, Again, Launch, KillGroup, Reap, Timeout, ChildExits, Terminate
  <2>. QED
    BY <1>0, <2>1
<1>. QED
  BY <1>1, <1>2, <1>3, Steps

LEMMA Initially == Init => IInv
<1>. SUFFICES ASSUME Init PROVE IInv
  OBVIOUS
<1>1. Shapes
  <2>1. NoAnswer \in Verdicts
    BY DEF NoAnswer, Verdicts
  <2>2. answer = [s \in Scans |-> NoAnswer] /\ \A s \in Scans : inv[s] \in Assignments[s]
    BY DEF Init
  <2>3. \A s \in Scans : inv[s] \in Assignments[s] /\ answer[s] \in Verdicts
    BY <2>1, <2>2
  <2>. QED
    BY <2>3 DEF Shapes, Init
<1>2. \A s \in Scans : pc[s] = "idle" /\ child[s] = "none"
  BY DEF Init
<1>3. pc[Doctor] = "idle" /\ lock = None
  BY DEF Init
<1>4. LockIsHeld /\ ProvidersDiffer /\ ModelIsResident /\ ChildIsWaitedFor
  BY <1>2, <1>3 DEF LockIsHeld, ProvidersDiffer, ModelIsResident, ChildIsWaitedFor, Loopback,
                    Locked, Program
<1>5. BatchesAddUp
  <2>1. ASSUME NEW s \in Scans PROVE AddUp(s)
    <3>1. verdicts[s] = <<>> /\ todo[s] = <<>>
      BY DEF Init
    <3>2. <<>> \in Seq(Verdicts) /\ <<>> \in Seq(ToSet(Batches(s))) /\ DOMAIN <<>> = {}
      BY EmptySeq
    <3>. QED
      BY <1>2, <3>1, <3>2 DEF AddUp, Working, Loopback, Locked, Program
  <2>. QED
    BY <2>1 DEF BatchesAddUp
<1>6. TypeOK
  <2>1. Places
    BY ReviewConstants DEF Init, Places, PCs, FirstDigest
  <2>2. DigestsAreKnown
    BY DEF Init, DigestsAreKnown, Known, NoAnswer
  <2>3. ChildrenAre
    BY <1>2 DEF ChildrenAre, ChildStates
  <2>4. ReviewsAreCounted
    <3>1. ASSUME NEW s \in Scans PROVE inv[s].reviews \in Nat /\ reviews[s] = 0
      BY <1>1, ReviewConstants DEF Shapes, Init
    <3>. QED
      BY <3>1 DEF ReviewsAreCounted
  <2>5. CountsFit
    <3>1. ASSUME NEW s \in Scans PROVE Len(verdicts[s]) + Len(todo[s]) <= Len(Batches(s))
      <4>1. verdicts[s] = <<>> /\ todo[s] = <<>> /\ Len(<<>>) = 0
        BY DEF Init
      <4>2. inv[s] \in AllAssignments
        BY <1>1 DEF Shapes, AllAssignments
      <4>3. Len(Batches(s)) \in Nat
        BY <4>2, PlanOf, LenProperties
      <4>4. 0 + 0 <= Len(Batches(s))
        BY <4>3
      <4>. QED
        BY <4>1, <4>4, Zenon
    <3>. QED
      BY <3>1 DEF CountsFit
  <2>6. PipesAre
    BY DEF Init, PipesAre
  <2>. QED
    BY <2>1, <2>2, <2>3, <2>4, <2>5, <2>6, Types
<1>. QED
  BY <1>1, <1>4, <1>5, <1>6 DEF IInv

LEMMA Inductively == IInv /\ [Next]_vars => IInv'
<1>. SUFFICES ASSUME IInv, [Next]_vars PROVE IInv'
  OBVIOUS
<1>1. TypeOK'
  <2>1. Places' /\ DigestsAreKnown' /\ ChildrenAre' /\ ReviewsAreCounted' /\ CountsFit'
        /\ PipesAre'
    BY PipesAreStep, PlacesStep, DigestsAreKnownStep, ChildrenAreStep, ReviewsAreCountedStep, CountsFitStep
  <2>. QED
    BY <2>1 DEF TypeOK, Places, DigestsAreKnown, Known, ChildrenAre, ChildStates,
                ReviewsAreCounted, CountsFit, Batches, PipesAre
<1>2. Shapes' /\ LockIsHeld' /\ ProvidersDiffer' /\ ModelIsResident' /\ ChildIsWaitedFor'
      /\ BatchesAddUp'
  BY ShapesStep, LockIsHeldStep, ProvidersDifferStep, ModelIsResidentStep, ChildIsWaitedForStep,
     BatchesAddUpStep
<1>. QED
  BY <1>1, <1>2 DEF IInv

----------------------------------------------------------------------------
(* What it is for.                                                         *)

\* The invariant holds however many scans review, whatever they review, and
\* however often the tag moves, the daemon drops a model or a deadline fires.
THEOREM Inductive == Spec => []IInv
BY Initially, Inductively, PTL DEF Spec

\* Every variable keeps its type; there are never more verdicts than batches.
THEOREM TypeCorrect == Spec => []TypeOK
<1>1. IInv => TypeOK
  BY DEF IInv
<1>. QED
  BY <1>1, Inductive, PTL

\* A review that counts has one verdict for every batch of the inventory, each with
\* guidance for every target (Reviewer.Review, evaluate).
THEOREM Whole == Spec => []AcceptedReviewsAreWhole
<1>1. IInv => AcceptedReviewsAreWhole
  BY DEF IInv, BatchesAddUp, AddUp, AcceptedReviewsAreWhole, Batches
<1>. QED
  BY <1>1, Inductive, PTL

\* No other Prolewatch process unloads the model between the answer of the daemon and
\* the look at what it has loaded (acquireOllamaLock, resetModel).
THEOREM OnlyTheDaemonUnloads == Spec => []NobodyElseUnloads
<1>1. IInv => NobodyElseUnloads
  BY DEF IInv, ModelIsResident, NobodyElseUnloads
<1>. QED
  BY <1>1, Inductive, PTL

\* The program that reviews does not outlive its review (runProcessGroup).
THEOREM NoProgramIsLeft == Spec => []NoProviderOutlivesItsReview
<1>1. IInv => NoProviderOutlivesItsReview
  BY Types DEF IInv, ChildIsWaitedFor, ChildrenAre, ChildStates, NoProviderOutlivesItsReview
<1>. QED
  BY <1>1, Inductive, PTL
=============================================================================

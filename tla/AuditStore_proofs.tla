-------------------------- MODULE AuditStore_proofs --------------------------
(***************************************************************************)
(* Proofs about AuditStore for every set of transactions, shells and       *)
(* bindings and every retention window.                                    *)
(***************************************************************************)
EXTENDS AuditStore, FiniteSetTheorems, TLAPS

USE ConstantsAssumption
USE DEF Actors, Ids, Confs, Saved, Answers, EndScan

\* The value of cur between scans is a binding.
LEMMA NoBindingType == NoBinding \in Bindings
BY DEF NoBinding

\* Moving a process to another label keeps the types of its local variables.
LEMMA GotoType ==
  ASSUME ProcOK, NEW a \in Actors, NEW l \in PCs, Goto(a, l)
  PROVE  ProcOK'
BY DEF ProcOK, Goto

\* So does ending it.
LEMMA ExitType ==
  ASSUME ProcOK, NEW a \in Actors, NEW l \in PCs, Exit(a, l)
  PROVE  ProcOK'
BY NoBindingType DEF ProcOK, Exit

\* Older names of a set are names of the set.
LEMMA OlderType == ASSUME NEW S PROVE Older(S) \subseteq S
BY DEF Older

\* A name that was given out is a name.
LEMMA SavedType ==
  ASSUME FilesOK
  PROVE  Saved \subseteq Ids /\ store \subseteq Ids
<1>1. nextId \in 1 .. MaxReports + 1 /\ store \subseteq 1 .. nextId - 1
  BY DEF FilesOK
<1>2. 1 .. nextId - 1 \subseteq 1 .. MaxReports
  BY <1>1
<1>3. QED
  BY <1>1, <1>2

\* A decision taken over is that of a report, if there is one.
LEMMA CarriedType ==
  ASSUME TypeOK, NEW t \in Txs, NEW b \in Bindings
  PROVE  carriedDecision(t, b) \in Ids \cup {0}
<1>1. <<t, "pre">> \in Slots
  BY DEF Slots, MarkPhases
<1>2. marker[<<t, "pre">>] \in Ids \cup {0}
  BY <1>1 DEF TypeOK, FilesOK
<1>. QED
  BY <1>2 DEF carriedDecision, SlotOf

\* Every step of every process keeps the types.
LEMMA TypeStep ==
  ASSUME TypeOK, Located, [Next]_vars
  PROVE  TypeOK'
<1> USE DEF TypeOK
<1>1. ASSUME NEW t \in Txs, Scan(t) PROVE TypeOK'
  <2>1. FilesOK'
    BY <1>1 DEF Scan, BeginScan, Present, FilesOK, fileVars
  <2>2. UserOK'
    BY <1>1 DEF Scan, BeginScan, Present, UserOK, userVars
  <2>3. ProcOK'
    BY <1>1 DEF Scan, BeginScan, ProcOK, PCs, procVars
  <2>4. ConsumeOK'
    BY <1>1, CarriedType DEF Scan, BeginScan, ProcOK, ConsumeOK, consumeVars,
       tokenVars
  <2>5. PruneOK'
    BY <1>1 DEF Scan, BeginScan, Present, FilesOK, PruneOK, pruneVars
  <2>6. QED
    BY <2>1, <2>2, <2>3, <2>4, <2>5
<1>2. ASSUME NEW t \in Txs, ReviewNow(t) PROVE TypeOK'
  <2>1. FilesOK'
    BY <1>2 DEF ReviewNow, BeginScan, SamePhase, Present, FilesOK, fileVars
  <2>2. UserOK'
    BY <1>2 DEF ReviewNow, BeginScan, SamePhase, Present, UserOK, userVars
  <2>3. ProcOK'
    BY <1>2 DEF ReviewNow, BeginScan, SamePhase, ProcOK, PCs, procVars
  <2>4. ConsumeOK'
    BY <1>2, CarriedType DEF ReviewNow, BeginScan, SamePhase, ProcOK, ConsumeOK, consumeVars,
       tokenVars
  <2>5. PruneOK'
    BY <1>2 DEF ReviewNow, BeginScan, Present, FilesOK, PruneOK, pruneVars
  <2>6. QED
    BY <2>1, <2>2, <2>3, <2>4, <2>5
<1>3. ASSUME NEW t \in Txs, Rescan(t) PROVE TypeOK'
  <2>1. FilesOK'
    BY <1>3 DEF Rescan, BeginScan, SamePhase, Present, FilesOK, fileVars
  <2>2. UserOK'
    BY <1>3 DEF Rescan, BeginScan, SamePhase, Present, UserOK, userVars
  <2>3. ProcOK'
    BY <1>3 DEF Rescan, BeginScan, SamePhase, ProcOK, PCs, procVars
  <2>4. ConsumeOK'
    BY <1>3, CarriedType DEF Rescan, BeginScan, SamePhase, ProcOK, ConsumeOK, consumeVars,
       tokenVars
  <2>5. PruneOK'
    BY <1>3 DEF Rescan, BeginScan, Present, FilesOK, PruneOK, pruneVars
  <2>6. QED
    BY <2>1, <2>2, <2>3, <2>4, <2>5
<1>4. ASSUME NEW t \in Txs, ConsumeRead(t) PROVE TypeOK'
  <2>1. FilesOK'
    BY <1>4 DEF ConsumeRead, FilesOK, fileVars
  <2>2. UserOK'
    BY <1>4 DEF ConsumeRead, UserOK, userVars
  <2>3. ProcOK'
    BY <1>4, GotoType DEF ConsumeRead, PCs, ProcOK, procVars
  <2>4. ConsumeOK'
    BY <1>4 DEF ConsumeRead, ConsumeOK, consumeVars, tokenVars
  <2>5. PruneOK'
    BY <1>4 DEF ConsumeRead, FilesOK, PruneOK, pruneVars
  <2>6. QED
    BY <2>1, <2>2, <2>3, <2>4, <2>5
<1>5. ASSUME NEW t \in Txs, ConsumeRename(t) PROVE TypeOK'
  <2>0. tok[t] \in Ids
    BY <1>5, SavedType DEF ConsumeRename, Located, TokenMatches
  <2>1. FilesOK'
    BY <1>5, <2>0 DEF ConsumeRename, FilesOK
  <2>2. UserOK'
    BY <1>5 DEF ConsumeRename, UserOK, userVars
  <2>3. ProcOK'
    BY <1>5, GotoType DEF ConsumeRename, PCs
  <2>4. ConsumeOK'
    BY <1>5, <2>0 DEF ConsumeRename, FilesOK, ConsumeOK, consumeVars, tokenVars
  <2>5. PruneOK'
    BY <1>5 DEF ConsumeRename, FilesOK, PruneOK, pruneVars
  <2>6. QED
    BY <2>1, <2>2, <2>3, <2>4, <2>5
<1>6. ASSUME NEW t \in Txs, AuthorizationSource(t) PROVE TypeOK'
  <2>0. tok[t] \in Ids
    BY <1>6, SavedType DEF AuthorizationSource, Located, TokenMatches
  <2>1. FilesOK'
    BY <1>6, <2>0 DEF AuthorizationSource, FilesOK
  <2>2. UserOK'
    BY <1>6 DEF AuthorizationSource, UserOK, userVars
  <2>3. ProcOK'
    BY <1>6, GotoType, ExitType DEF AuthorizationSource, PCs
  <2>4. ConsumeOK'
    BY <1>6 DEF AuthorizationSource, ConsumeOK, consumeVars, tokenVars
  <2>5. PruneOK'
    BY <1>6 DEF AuthorizationSource, FilesOK, PruneOK, pruneVars
  <2>6. QED
    BY <2>1, <2>2, <2>3, <2>4, <2>5
<1>7. ASSUME NEW t \in Txs, Save(t) PROVE TypeOK'
  <2>1. FilesOK'
    <3>1. PICK o \in Outcomes(t) :
            report' = [i \in 1 .. nextId |->
              IF i = nextId THEN [b |-> cur[t], tx |-> t, decision |-> o.d,
                                  eligible |-> o.e, auth |-> auth[t],
                                  carried |-> carried[t]]
              ELSE report[i]]
      BY <1>7 DEF Save
    <3>2. o.d \in {"allow", "block"} /\ o.e \in BOOLEAN
      BY DEF Outcomes
    <3>3. [b |-> cur[t], tx |-> t, decision |-> o.d, eligible |-> o.e,
           auth |-> auth[t], carried |-> carried[t]] \in Report
      BY <3>2 DEF Report, ProcOK, ConsumeOK
    <3>4. report' \in [1 .. nextId -> Report]
      BY <3>1, <3>3 DEF FilesOK
    <3>5. nextId' = nextId + 1 /\ nextId \in 1 .. MaxReports
      BY <1>7 DEF Save, FilesOK
    <3>6. 1 .. nextId' - 1 = 1 .. nextId
      BY <3>5
    <3>7. report' \in [Saved' -> Report]
      BY <3>4, <3>6
    <3>8. store' \subseteq Saved'
      <4>1. store' = store \cup {nextId} /\ store \subseteq 1 .. nextId - 1
        BY <1>7 DEF Save, FilesOK
      <4>2. store' \subseteq 1 .. nextId
        BY <4>1, <3>5
      <4>3. QED
        BY <4>2, <3>6
    <3>9. used' \subseteq Ids
      BY <1>7 DEF Save, FilesOK
    <3>10. QED
      BY <1>7, <3>5, <3>7, <3>8, <3>9 DEF Save, FilesOK
  <2>2. UserOK'
    BY <1>7 DEF Save, Present, Older, Outcomes, UserOK, userVars
  <2>3. ProcOK'
    <3>1. CASE EndScan(t)
      BY <3>1, GotoType, ExitType DEF PCs
    <3>2. CASE /\ rid' = [rid EXCEPT ![t] = nextId] /\ pc' = [pc EXCEPT ![t] = "sweep"]
               /\ UNCHANGED <<cur, stage>>
      <4>1. nextId \in Ids
        BY <1>7 DEF Save, FilesOK
      <4>. QED
        BY <3>2, <4>1 DEF ProcOK, PCs
    <3>. QED
      BY <1>7, <3>1, <3>2 DEF Save
  <2>4. ConsumeOK'
    BY <1>7 DEF Save, Present, ConsumeOK, consumeVars, tokenVars
  <2>5. PruneOK'
    <3>1. UNCHANGED <<opened, prot, victims>> /\ sweep' \in [Txs -> SUBSET Slots]
      <4>1. Present(marker) \subseteq Slots
        BY DEF Present, FilesOK
      <4>2. sweep' \in {sweep, [sweep EXCEPT ![t] = Present(marker)]}
        BY <1>7 DEF Save
      <4>3. sweep' \in [Txs -> SUBSET Slots]
        BY <4>1, <4>2 DEF PruneOK
      <4>. QED
        BY <1>7, <4>3 DEF Save
    <3>. QED
      BY <3>1 DEF PruneOK
  <2>6. QED
    BY <2>1, <2>2, <2>3, <2>4, <2>5
<1>8. ASSUME NEW t \in Txs, SweepOpen(t) PROVE TypeOK'
  <2>1. FilesOK'
    BY <1>8 DEF SweepOpen, FilesOK, fileVars
  <2>2. UserOK'
    BY <1>8 DEF SweepOpen, UserOK, userVars
  <2>3. ProcOK'
    BY <1>8, GotoType DEF SweepOpen, PCs
  <2>4. ConsumeOK'
    BY <1>8 DEF SweepOpen, ConsumeOK, consumeVars, tokenVars
  <2>5. PruneOK'
    BY <1>8 DEF SweepOpen, FilesOK, PruneOK, pruneVars
  <2>6. QED
    BY <2>1, <2>2, <2>3, <2>4, <2>5
<1>9. ASSUME NEW t \in Txs, SweepJudge(t) PROVE TypeOK'
  <2>1. FilesOK'
    BY <1>9 DEF SweepJudge, FilesOK, fileVars
  <2>2. UserOK'
    BY <1>9 DEF SweepJudge, UserOK, userVars
  <2>3. ProcOK'
    BY <1>9, GotoType DEF SweepJudge, PCs
  <2>4. ConsumeOK'
    BY <1>9 DEF SweepJudge, ConsumeOK, consumeVars, tokenVars
  <2>5. PruneOK'
    <3>1. PICK o \in opened[t] :
            \/ prot' = [prot EXCEPT ![t] = @ \cup {o[2]}] /\ o[2] # 0
            \/ UNCHANGED prot
      BY <1>9 DEF SweepJudge
    <3>2. o[2] \in Ids \cup {0}
      BY DEF PruneOK
    <3>3. prot' \in [Txs -> SUBSET Ids]
      BY <3>1, <3>2 DEF PruneOK
    <3>4. QED
      BY <1>9, <3>3 DEF SweepJudge, PruneOK
  <2>6. QED
    BY <2>1, <2>2, <2>3, <2>4, <2>5
<1>10. ASSUME NEW t \in Txs, PrunePending(t) PROVE TypeOK'
  <2>1. FilesOK'
    BY <1>10 DEF PrunePending, Present, FilesOK, fileVars
  <2>2. UserOK'
    BY <1>10 DEF PrunePending, Present, UserOK, userVars
  <2>3. ProcOK'
    BY <1>10, GotoType DEF PrunePending, PCs
  <2>4. ConsumeOK'
    BY <1>10 DEF PrunePending, Present, ConsumeOK, consumeVars, tokenVars
  <2>5. PruneOK'
    BY <1>10 DEF PrunePending, Present, FilesOK, PruneOK, pruneVars
  <2>6. QED
    BY <2>1, <2>2, <2>3, <2>4, <2>5
<1>11. ASSUME NEW t \in Txs, PruneIDs(t) PROVE TypeOK'
  <2>1. FilesOK'
    BY <1>11 DEF PruneIDs, Older, FilesOK, fileVars
  <2>2. UserOK'
    BY <1>11 DEF PruneIDs, Older, UserOK, userVars
  <2>3. ProcOK'
    BY <1>11, GotoType DEF PruneIDs, PCs
  <2>4. ConsumeOK'
    BY <1>11 DEF PruneIDs, ConsumeOK, consumeVars, tokenVars
  <2>5. PruneOK'
    <3>1. Older(store) \subseteq store
      BY OlderType
    <3>2. Older(store) \subseteq Ids
      BY <3>1, SavedType
    <3>3. QED
      BY <1>11, <3>2 DEF PruneIDs, PruneOK
  <2>6. QED
    BY <2>1, <2>2, <2>3, <2>4, <2>5
<1>12. ASSUME NEW t \in Txs, PruneRemove(t) PROVE TypeOK'
  <2>1. FilesOK'
    BY <1>12 DEF PruneRemove, FilesOK, fileVars
  <2>2. UserOK'
    BY <1>12 DEF PruneRemove, UserOK, userVars
  <2>3. ProcOK'
    BY <1>12 DEF PruneRemove, ProcOK, PCs, procVars
  <2>4. ConsumeOK'
    BY <1>12 DEF PruneRemove, ConsumeOK, consumeVars, tokenVars
  <2>5. PruneOK'
    BY <1>12 DEF PruneRemove, FilesOK, PruneOK, pruneVars
  <2>6. QED
    BY <2>1, <2>2, <2>3, <2>4, <2>5
<1>13. ASSUME NEW t \in Txs, WriteMarker(t) PROVE TypeOK'
  <2>1. FilesOK'
    BY <1>13 DEF WriteMarker, SlotOf, FilesOK, fileVars, ProcOK, Slots, MarkPhases
  <2>2. UserOK'
    BY <1>13 DEF WriteMarker, SlotOf, UserOK, userVars
  <2>3. ProcOK'
    BY <1>13, GotoType, ExitType DEF WriteMarker, PCs
  <2>4. ConsumeOK'
    BY <1>13 DEF WriteMarker, SlotOf, ConsumeOK, consumeVars, tokenVars
  <2>5. PruneOK'
    BY <1>13 DEF WriteMarker, SlotOf, FilesOK, PruneOK, pruneVars
  <2>6. QED
    BY <2>1, <2>2, <2>3, <2>4, <2>5
<1>14. ASSUME NEW t \in Txs, CancelPending(t) PROVE TypeOK'
  <2>1. FilesOK'
    BY <1>14 DEF CancelPending, FilesOK, fileVars
  <2>2. UserOK'
    BY <1>14 DEF CancelPending, UserOK, userVars
  <2>3. ProcOK'
    BY <1>14, ExitType DEF CancelPending, PCs
  <2>4. ConsumeOK'
    BY <1>14 DEF CancelPending, ConsumeOK, consumeVars, tokenVars
  <2>5. PruneOK'
    BY <1>14 DEF CancelPending, FilesOK, PruneOK, pruneVars
  <2>6. QED
    BY <2>1, <2>2, <2>3, <2>4, <2>5
<1>15. ASSUME NEW t \in Txs, EndTransaction(t) PROVE TypeOK'
  <2>1. FilesOK'
    BY <1>15 DEF EndTransaction, FilesOK, fileVars
  <2>2. UserOK'
    BY <1>15 DEF EndTransaction, UserOK, userVars
  <2>3. ProcOK'
    BY <1>15, ExitType DEF EndTransaction, PCs
  <2>4. ConsumeOK'
    BY <1>15 DEF EndTransaction, ConsumeOK, consumeVars, tokenVars
  <2>5. PruneOK'
    BY <1>15 DEF EndTransaction, FilesOK, PruneOK, pruneVars
  <2>6. QED
    BY <2>1, <2>2, <2>3, <2>4, <2>5
<1>16. ASSUME NEW s \in Shells, Approve(s) PROVE TypeOK'
  <2>1. FilesOK'
    BY <1>16 DEF Approve, FilesOK, fileVars
  <2>2. UserOK'
    BY <1>16 DEF Approve, UserOK, userVars
  <2>3. ProcOK'
    BY <1>16 DEF Approve, FilesOK, ProcOK, PCs, procVars
  <2>4. ConsumeOK'
    BY <1>16 DEF Approve, ConsumeOK, consumeVars, tokenVars
  <2>5. PruneOK'
    BY <1>16 DEF Approve, FilesOK, PruneOK, pruneVars
  <2>6. QED
    BY <2>1, <2>2, <2>3, <2>4, <2>5
<1>17. ASSUME NEW a \in Actors, AnswerYes(a) PROVE TypeOK'
  <2>1. FilesOK'
    BY <1>17 DEF AnswerYes, FilesOK, fileVars
  <2>2. UserOK'
    <3>1. report[rid[a]].b \in Bindings
      BY <1>17 DEF AnswerYes, Located, ReportIsSaved, FilesOK, Report
    <3>2. QED
      BY <1>17, <3>1 DEF AnswerYes, UserOK
  <2>3. ProcOK'
    BY <1>17, GotoType DEF AnswerYes, PCs
  <2>4. ConsumeOK'
    BY <1>17 DEF AnswerYes, UserOK, ConsumeOK, consumeVars, tokenVars
  <2>5. PruneOK'
    BY <1>17 DEF AnswerYes, FilesOK, PruneOK, pruneVars
  <2>6. QED
    BY <2>1, <2>2, <2>3, <2>4, <2>5
<1>18. ASSUME NEW a \in Actors, AnswerNo(a) PROVE TypeOK'
  <2>1. FilesOK'
    BY <1>18 DEF AnswerNo, FilesOK, fileVars
  <2>2. UserOK'
    BY <1>18 DEF AnswerNo, UserOK, userVars
  <2>3. ProcOK'
    BY <1>18, ExitType DEF AnswerNo, PCs
  <2>4. ConsumeOK'
    BY <1>18 DEF AnswerNo, ConsumeOK, consumeVars, tokenVars
  <2>5. PruneOK'
    BY <1>18 DEF AnswerNo, FilesOK, PruneOK, pruneVars
  <2>6. QED
    BY <2>1, <2>2, <2>3, <2>4, <2>5
<1>19. ASSUME NEW a \in Actors, CreateCheck(a) PROVE TypeOK'
  <2>1. FilesOK'
    BY <1>19 DEF CreateCheck, FilesOK, fileVars
  <2>2. UserOK'
    BY <1>19 DEF CreateCheck, UserOK, userVars
  <2>3. ProcOK'
    BY <1>19, GotoType, ExitType DEF CreateCheck, PCs
  <2>4. ConsumeOK'
    BY <1>19 DEF CreateCheck, ConsumeOK, consumeVars, tokenVars
  <2>5. PruneOK'
    BY <1>19 DEF CreateCheck, FilesOK, PruneOK, pruneVars
  <2>6. QED
    BY <2>1, <2>2, <2>3, <2>4, <2>5
<1>20. ASSUME NEW a \in Actors, CreateWrite(a) PROVE TypeOK'
  <2>1. FilesOK'
    BY <1>20 DEF CreateWrite, FilesOK, fileVars, ConsumeOK, ProcOK
  <2>2. UserOK'
    BY <1>20 DEF CreateWrite, UserOK, userVars
  <2>3. ProcOK'
    BY <1>20, GotoType, ExitType DEF CreateWrite, PCs
  <2>4. ConsumeOK'
    BY <1>20 DEF CreateWrite, ProcOK, ConsumeOK, consumeVars, tokenVars
  <2>5. PruneOK'
    BY <1>20 DEF CreateWrite, FilesOK, PruneOK, pruneVars
  <2>6. QED
    BY <2>1, <2>2, <2>3, <2>4, <2>5
<1>21. ASSUME UNCHANGED vars PROVE TypeOK'
  BY <1>21 DEF vars, fileVars, userVars, procVars, consumeVars, tokenVars, pruneVars,
               FilesOK, UserOK, ProcOK, ConsumeOK, PruneOK
<1>22. ASSUME NEW t \in Txs, ListPending(t) PROVE TypeOK'
  <2>1. FilesOK'
    BY <1>22 DEF ListPending, FilesOK, fileVars
  <2>2. UserOK'
    BY <1>22 DEF ListPending, UserOK, userVars
  <2>3. ProcOK'
    BY <1>22, GotoType DEF ListPending, PCs
  <2>4. ConsumeOK'
    BY <1>22 DEF ListPending, Present, FilesOK, ConsumeOK, consumeVars, tokenVars
  <2>5. PruneOK'
    BY <1>22 DEF ListPending, PruneOK, pruneVars
  <2>6. QED
    BY <2>1, <2>2, <2>3, <2>4, <2>5
<1>23. ASSUME NEW t \in Txs, ScanFails(t) PROVE TypeOK'
  <2>1. FilesOK'
    BY <1>23 DEF ScanFails, FilesOK, fileVars
  <2>2. UserOK'
    BY <1>23 DEF ScanFails, UserOK, userVars
  <2>3. ProcOK'
    BY <1>23, GotoType, ExitType DEF ScanFails, PCs
  <2>4. ConsumeOK'
    BY <1>23 DEF ScanFails, ConsumeOK, tokenVars
  <2>5. PruneOK'
    BY <1>23 DEF ScanFails, PruneOK, pruneVars
  <2>6. QED
    BY <2>1, <2>2, <2>3, <2>4, <2>5
<1>24. ASSUME NEW a \in Actors, CreateFails(a) PROVE TypeOK'
  <2>1. FilesOK'
    BY <1>24 DEF CreateFails, FilesOK, ConsumeOK, ProcOK
  <2>2. UserOK'
    BY <1>24 DEF CreateFails, UserOK, ConsumeOK
  <2>3. ProcOK'
    BY <1>24, ExitType DEF CreateFails, PCs
  <2>4. ConsumeOK'
    BY <1>24 DEF CreateFails, ConsumeOK, consumeVars
  <2>5. PruneOK'
    BY <1>24 DEF CreateFails, PruneOK, pruneVars
  <2>6. QED
    BY <2>1, <2>2, <2>3, <2>4, <2>5
<1>. QED
  BY <1>1, <1>2, <1>3, <1>4, <1>5, <1>6, <1>7, <1>8, <1>9, <1>10, <1>11, <1>12,
     <1>13, <1>14, <1>15, <1>16, <1>17, <1>18, <1>19, <1>20, <1>21, <1>22, <1>23, <1>24
     DEF Next,
     TxNext, AnswerNext

\* What a Save leaves of the state of the processes, whether it is reported to have
\* failed or not.
LEMMA SaveLocals ==
  ASSUME TypeOK, NEW t \in Txs, Save(t)
  PROVE  /\ pc[t] \in {"list", "save"} /\ pc'[t] \in {"sweep", "cancel", "idle"}
         /\ pc'[t] = "sweep" => rid'[t] = nextId /\ cur'[t] = cur[t]
         /\ \A b \in Actors : b # t => /\ pc'[b] = pc[b] /\ rid'[b] = rid[b]
                                     /\ cur'[b] = cur[b] /\ stage'[b] = stage[b]
         /\ auth' = [auth EXCEPT ![t] = 0] /\ carried' = [carried EXCEPT ![t] = 0]
         /\ nextId' = nextId + 1 /\ nextId \in Nat \ {0}
         /\ UNCHANGED <<live, pending, asked, nextConf, stranded, todo, tok, inline, held>>
         /\ \A i \in Saved : report'[i] = report[i]
         /\ report'[nextId].auth = auth[t] /\ report'[nextId].b = cur[t]
         /\ report'[nextId].tx = t
<1>1. /\ pc[t] \in {"list", "save"} /\ nextId' = nextId + 1 /\ nextId \in Nat \ {0}
      /\ auth' = [auth EXCEPT ![t] = 0] /\ carried' = [carried EXCEPT ![t] = 0]
      /\ UNCHANGED <<live, pending, asked, nextConf, stranded, todo, tok, inline, held>>
  BY DEF Save, TypeOK, FilesOK, userVars, tokenVars
<1>2. /\ \A i \in Saved : report'[i] = report[i]
      /\ report'[nextId].auth = auth[t] /\ report'[nextId].b = cur[t]
      /\ report'[nextId].tx = t
  <2>1. PICK o \in Outcomes(t) :
          report' = [i \in 1 .. nextId |->
            IF i = nextId THEN [b |-> cur[t], tx |-> t, decision |-> o.d,
                                eligible |-> o.e, auth |-> auth[t],
                                carried |-> carried[t]]
            ELSE report[i]]
    BY DEF Save
  <2>2. /\ \A i \in Saved : i \in 1 .. nextId /\ i # nextId
        /\ nextId \in 1 .. nextId
    BY <1>1
  <2>. QED
    BY <2>1, <2>2
<1>3. CASE EndScan(t)
  BY <1>1, <1>2, <1>3 DEF TypeOK, ProcOK, Goto, Exit
<1>4. CASE /\ rid' = [rid EXCEPT ![t] = nextId] /\ pc' = [pc EXCEPT ![t] = "sweep"]
           /\ UNCHANGED <<cur, stage>>
  BY <1>1, <1>2, <1>4 DEF TypeOK, ProcOK
<1>. QED
  BY <1>3, <1>4 DEF Save

\* What a scan that fails leaves of the state of the processes.
LEMMA FailLocals ==
  ASSUME TypeOK, NEW t \in Txs, ScanFails(t)
  PROVE  /\ pc[t] \in {"begin", "list", "rename", "source", "save", "remove"}
         /\ pc'[t] \in {"cancel", "idle"}
         /\ auth'[t] = 0 /\ todo'[t] = {} /\ tok'[t] = 0 /\ carried'[t] = 0
         /\ \A u \in Txs : u # t => /\ auth'[u] = auth[u] /\ todo'[u] = todo[u]
                                  /\ tok'[u] = tok[u] /\ carried'[u] = carried[u]
         /\ \A b \in Actors : b # t => /\ pc'[b] = pc[b] /\ rid'[b] = rid[b]
                                     /\ cur'[b] = cur[b] /\ stage'[b] = stage[b]
         /\ UNCHANGED <<live, nextId, report, pending, asked, nextConf, stranded, inline, held>>
<1>1. CASE Goto(t, "cancel")
  BY <1>1 DEF ScanFails, TypeOK, ProcOK, ConsumeOK, Goto, fileVars, userVars, tokenVars
<1>2. CASE Exit(t, "idle")
  BY <1>2 DEF ScanFails, TypeOK, ProcOK, ConsumeOK, Exit, fileVars, userVars, tokenVars
<1>. QED
  BY <1>1, <1>2 DEF ScanFails

\* What a failed write of a token leaves of the state of the processes.
LEMMA CreateFailLocals ==
  ASSUME TypeOK, NEW a \in Actors, CreateFails(a)
  PROVE  /\ pc[a] = "create" /\ pc'[a] = "idle" /\ held'[a] = 0
         /\ \A b \in Actors : b # a => /\ pc'[b] = pc[b] /\ rid'[b] = rid[b] /\ held'[b] = held[b]
                                     /\ cur'[b] = cur[b] /\ stage'[b] = stage[b]
         /\ \/ UNCHANGED <<pending, stranded>>
            \/ /\ pending' = [pending EXCEPT ![rid[a]] = held[a]]
               /\ stranded' = stranded \cup {held[a]}
         /\ UNCHANGED <<live, nextId, report, asked, nextConf, auth, todo, tok, carried, inline>>
BY DEF CreateFails, TypeOK, ProcOK, ConsumeOK, Exit, consumeVars

\* Every step keeps processes where their names and answers say.
LEMMA LocatedStep ==
  ASSUME TypeOK, Located, TypeOK', [Next]_vars
  PROVE  Located'
<1>7. ASSUME NEW t \in Txs, Save(t) PROVE Located'
  <2>1. Saved' = Saved \cup {nextId}
    <3>1. nextId' = nextId + 1 /\ nextId \in Nat \ {0}
      BY <1>7, SaveLocals
    <3>. QED
      BY <3>1
  <2>2. ListedAreSaved' /\ PendingAreSaved'
    BY <1>7, <2>1, SaveLocals DEF Located, ListedAreSaved, PendingAreSaved
  <2>3. TokenMatches'
    BY <1>7, <2>1, SaveLocals DEF Located, TokenMatches
  <2>4. AuthIsInHand'
    <3>1. auth'[t] = 0 /\ \A u \in Txs : u # t => auth'[u] = auth[u] /\ pc'[u] = pc[u]
      BY <1>7, SaveLocals DEF TypeOK, ConsumeOK
    <3>. QED
      BY <3>1 DEF Located, AuthIsInHand
  <2>6. HeldIsInHand'
    BY <1>7, SaveLocals DEF Located, HeldIsInHand
  <2>5. ReportIsSaved'
    BY <1>7, <2>1, SaveLocals DEF Located, ReportIsSaved
  <2>. QED
    BY <2>2, <2>3, <2>4, <2>5, <2>6 DEF Located
<1>23. ASSUME NEW t \in Txs, ScanFails(t) PROVE Located'
  <2>1. ListedAreSaved'
    <3>1. nextId' = nextId /\ todo'[t] = {} /\ \A u \in Txs : u # t => todo'[u] = todo[u]
      BY <1>23, FailLocals
    <3>. QED
      BY <3>1 DEF Located, ListedAreSaved
  <2>2. TokenMatches'
    BY <1>23, FailLocals DEF Located, TokenMatches
  <2>3. AuthIsInHand' /\ HeldIsInHand'
    BY <1>23, FailLocals DEF Located, AuthIsInHand, HeldIsInHand
  <2>4. ReportIsSaved' /\ PendingAreSaved'
    BY <1>23, FailLocals DEF Located, ReportIsSaved, PendingAreSaved
  <2>. QED
    BY <2>1, <2>2, <2>3, <2>4 DEF Located
<1>24. ASSUME NEW a \in Actors, CreateFails(a) PROVE Located'
  <2>1. ListedAreSaved' /\ TokenMatches'
    BY <1>24, CreateFailLocals DEF Located, ListedAreSaved, TokenMatches
  <2>2. AuthIsInHand' /\ HeldIsInHand' /\ ReportIsSaved'
    BY <1>24, CreateFailLocals DEF Located, AuthIsInHand, HeldIsInHand, ReportIsSaved
  <2>3. PendingAreSaved'
    <3>1. pc[a] = "create" /\ nextId' = nextId
          /\ pending' \in {pending, [pending EXCEPT ![rid[a]] = held[a]]}
      BY <1>24, CreateFailLocals
    <3>2. \A i \in Ids : pending'[i] = pending[i] \/ i = rid[a]
      BY <3>1 DEF TypeOK, FilesOK
    <3>3. rid[a] \in Saved
      BY <3>1 DEF Located, ReportIsSaved
    <3>. QED
      BY <3>1, <3>2, <3>3 DEF Located, PendingAreSaved
  <2>. QED
    BY <2>1, <2>2, <2>3 DEF Located
<1> USE DEF TypeOK, FilesOK, UserOK, ProcOK, ConsumeOK, fileVars, userVars,
            procVars, consumeVars, tokenVars, pruneVars
<1>1. ASSUME NEW t \in Txs, Scan(t) PROVE Located'
  <2>1. ListedAreSaved'
    BY <1>1 DEF Scan, BeginScan, Present, Located, ListedAreSaved, PendingAreSaved
  <2>2. TokenMatches'
    BY <1>1 DEF Scan, BeginScan, Located, TokenMatches, ListedAreSaved
  <2>3. AuthIsInHand'
    BY <1>1 DEF Scan, BeginScan, Located, AuthIsInHand
  <2>4. HeldIsInHand'
    BY <1>1 DEF Scan, BeginScan, Located, HeldIsInHand
  <2>5. ReportIsSaved'
    BY <1>1 DEF Scan, BeginScan, Located, ReportIsSaved
  <2>6. PendingAreSaved'
    BY <1>1 DEF Scan, BeginScan, Located, PendingAreSaved, ReportIsSaved
  <2>7. QED
    BY <2>1, <2>2, <2>3, <2>4, <2>5, <2>6 DEF Located
<1>2. ASSUME NEW t \in Txs, ReviewNow(t) PROVE Located'
  <2>1. ListedAreSaved'
    BY <1>2 DEF ReviewNow, BeginScan, SamePhase, Present, Located, ListedAreSaved,
       PendingAreSaved
  <2>2. TokenMatches'
    BY <1>2 DEF ReviewNow, BeginScan, SamePhase, Located, TokenMatches,
       ListedAreSaved
  <2>3. AuthIsInHand'
    BY <1>2 DEF ReviewNow, BeginScan, SamePhase, Located, AuthIsInHand
  <2>4. HeldIsInHand'
    BY <1>2 DEF ReviewNow, BeginScan, SamePhase, Located, HeldIsInHand
  <2>5. ReportIsSaved'
    BY <1>2 DEF ReviewNow, BeginScan, SamePhase, Located, ReportIsSaved
  <2>6. PendingAreSaved'
    BY <1>2 DEF ReviewNow, BeginScan, SamePhase, Located, PendingAreSaved,
       ReportIsSaved
  <2>7. QED
    BY <2>1, <2>2, <2>3, <2>4, <2>5, <2>6 DEF Located
<1>3. ASSUME NEW t \in Txs, Rescan(t) PROVE Located'
  <2>1. ListedAreSaved'
    BY <1>3 DEF Rescan, BeginScan, SamePhase, Present, Located, ListedAreSaved,
       PendingAreSaved
  <2>2. TokenMatches'
    BY <1>3 DEF Rescan, BeginScan, SamePhase, Located, TokenMatches, ListedAreSaved
  <2>3. AuthIsInHand'
    BY <1>3 DEF Rescan, BeginScan, SamePhase, Located, AuthIsInHand
  <2>4. HeldIsInHand'
    BY <1>3 DEF Rescan, BeginScan, SamePhase, Located, HeldIsInHand
  <2>5. ReportIsSaved'
    BY <1>3 DEF Rescan, BeginScan, SamePhase, Located, ReportIsSaved
  <2>6. PendingAreSaved'
    BY <1>3 DEF Rescan, BeginScan, SamePhase, Located, PendingAreSaved,
       ReportIsSaved
  <2>7. QED
    BY <2>1, <2>2, <2>3, <2>4, <2>5, <2>6 DEF Located
<1>4. ASSUME NEW t \in Txs, ConsumeRead(t) PROVE Located'
  <2>0. /\ pc[t] = "list"
        /\ pc'[t] \in {"list", "rename"} /\ UNCHANGED <<rid, nextId, auth, held>>
        /\ \A b \in Actors : b # t => pc'[b] = pc[b]
    BY <1>4 DEF ConsumeRead, Goto, procVars, fileVars, tokenVars
  <2>1. ListedAreSaved'
    BY <1>4 DEF ConsumeRead, Goto, Located, ListedAreSaved, PendingAreSaved
  <2>2. TokenMatches'
    <3>1. PICK i \in todo[t] :
            /\ todo' = [todo EXCEPT ![t] = @ \ {i}]
            /\ IF pending[i] # 0 /\ report[i].b = cur[t]
                 THEN tok' = [tok EXCEPT ![t] = i] /\ Goto(t, "rename")
                 ELSE UNCHANGED <<tok, procVars>>
      BY <1>4 DEF ConsumeRead
    <3>2. i \in Saved /\ UNCHANGED <<report, nextId, cur>>
      BY <1>4, <3>1 DEF ConsumeRead, Goto, Located, ListedAreSaved
    <3>3. CASE pending[i] # 0 /\ report[i].b = cur[t]
      BY <3>1, <3>2, <3>3 DEF Goto, Located, TokenMatches
    <3>4. CASE UNCHANGED <<tok, procVars>>
      BY <3>2, <3>4 DEF Located, TokenMatches
    <3>. QED
      BY <3>1, <3>3, <3>4
  <2>3. AuthIsInHand'
    BY <2>0 DEF Located, AuthIsInHand
  <2>4. HeldIsInHand'
    BY <2>0 DEF Located, HeldIsInHand
  <2>5. ReportIsSaved'
    BY <2>0 DEF Located, ReportIsSaved
  <2>6. PendingAreSaved'
    BY <1>4 DEF ConsumeRead, Goto, Located, PendingAreSaved, ReportIsSaved
  <2>7. QED
    BY <2>1, <2>2, <2>3, <2>4, <2>5, <2>6 DEF Located
<1>5. ASSUME NEW t \in Txs, ConsumeRename(t) PROVE Located'
  <2>0. /\ pc[t] = "rename"
        /\ pc'[t] \in {"list", "source"} /\ UNCHANGED <<rid, nextId, held>>
        /\ \A b \in Actors : b # t => pc'[b] = pc[b]
    BY <1>5 DEF ConsumeRename, Goto, procVars, tokenVars
  <2>1. ListedAreSaved'
    BY <1>5 DEF ConsumeRename, Goto, Located, ListedAreSaved, PendingAreSaved
  <2>2. TokenMatches'
    <3>1. /\ UNCHANGED <<report, nextId, cur>>
          /\ pc'[t] = "source" => tok'[t] = tok[t]
          /\ \A u \in Txs : u # t => tok'[u] = tok[u]
      BY <1>5 DEF ConsumeRename, Goto
    <3>. QED
      BY <2>0, <3>1 DEF Located, TokenMatches
  <2>3. AuthIsInHand'
    BY <1>5 DEF ConsumeRename, Goto, Located, AuthIsInHand
  <2>4. HeldIsInHand'
    BY <2>0 DEF Located, HeldIsInHand
  <2>5. ReportIsSaved'
    BY <2>0 DEF Located, ReportIsSaved
  <2>6. PendingAreSaved'
    BY <1>5 DEF ConsumeRename, Goto, Located, PendingAreSaved, ReportIsSaved
  <2>7. QED
    BY <2>1, <2>2, <2>3, <2>4, <2>5, <2>6 DEF Located
<1>6. ASSUME NEW t \in Txs, AuthorizationSource(t) PROVE Located'
  <2>0. /\ pc[t] = "source"
        /\ pc'[t] \in {"save", "cancel", "idle"} /\ UNCHANGED <<nextId, held>>
        /\ \A b \in Actors : b # t => pc'[b] = pc[b] /\ rid'[b] = rid[b]
    BY <1>6 DEF AuthorizationSource, Goto, Exit, procVars, tokenVars
  <2>1. ListedAreSaved'
    BY <1>6 DEF AuthorizationSource, Goto, Exit, Located, ListedAreSaved,
       PendingAreSaved
  <2>2. TokenMatches'
    BY <1>6 DEF AuthorizationSource, Goto, Exit, Located, TokenMatches,
       ListedAreSaved
  <2>3. AuthIsInHand'
    BY <1>6 DEF AuthorizationSource, Goto, Exit, Located, AuthIsInHand
  <2>4. HeldIsInHand'
    BY <2>0 DEF Located, HeldIsInHand
  <2>5. ReportIsSaved'
    BY <2>0 DEF Located, ReportIsSaved
  <2>6. PendingAreSaved'
    BY <1>6 DEF AuthorizationSource, Goto, Exit, Located, PendingAreSaved,
       ReportIsSaved
  <2>7. QED
    BY <2>1, <2>2, <2>3, <2>4, <2>5, <2>6 DEF Located
<1>8. ASSUME NEW t \in Txs, SweepOpen(t) PROVE Located'
  BY <1>8 DEF SweepOpen, Goto, Located, ListedAreSaved, TokenMatches,
     AuthIsInHand, HeldIsInHand, ReportIsSaved, PendingAreSaved
<1>9. ASSUME NEW t \in Txs, SweepJudge(t) PROVE Located'
  BY <1>9 DEF SweepJudge, Goto, Located, ListedAreSaved, TokenMatches,
     AuthIsInHand, HeldIsInHand, ReportIsSaved, PendingAreSaved
<1>10. ASSUME NEW t \in Txs, PrunePending(t) PROVE Located'
  BY <1>10 DEF PrunePending, Goto, Located, ListedAreSaved, TokenMatches,
     AuthIsInHand, HeldIsInHand, ReportIsSaved, PendingAreSaved
<1>11. ASSUME NEW t \in Txs, PruneIDs(t) PROVE Located'
  BY <1>11 DEF PruneIDs, Goto, Located, ListedAreSaved, TokenMatches,
     AuthIsInHand, HeldIsInHand, ReportIsSaved, PendingAreSaved
<1>12. ASSUME NEW t \in Txs, PruneRemove(t) PROVE Located'
  BY <1>12 DEF PruneRemove, Located, ListedAreSaved, TokenMatches, AuthIsInHand,
     HeldIsInHand, ReportIsSaved, PendingAreSaved
<1>13. ASSUME NEW t \in Txs, WriteMarker(t) PROVE Located'
  <2>0. /\ pc[t] = "remove"
        /\ pc'[t] \in {"cancel", "prompt", "idle"} /\ UNCHANGED <<nextId, auth, held>>
        /\ pc'[t] = "prompt" => rid'[t] = rid[t]
        /\ \A b \in Actors : b # t => pc'[b] = pc[b] /\ rid'[b] = rid[b]
    BY <1>13 DEF WriteMarker, Goto, Exit, procVars, consumeVars, tokenVars
  <2>1. ListedAreSaved'
    BY <1>13 DEF WriteMarker, Goto, Exit, Located, ListedAreSaved, PendingAreSaved
  <2>2. TokenMatches'
    BY <1>13 DEF WriteMarker, Goto, Exit, Located, TokenMatches, ListedAreSaved
  <2>3. AuthIsInHand'
    BY <2>0 DEF Located, AuthIsInHand
  <2>4. HeldIsInHand'
    BY <2>0 DEF Located, HeldIsInHand
  <2>5. ReportIsSaved'
    BY <2>0 DEF Located, ReportIsSaved
  <2>6. PendingAreSaved'
    BY <1>13 DEF WriteMarker, Goto, Exit, Located, PendingAreSaved, ReportIsSaved
  <2>7. QED
    BY <2>1, <2>2, <2>3, <2>4, <2>5, <2>6 DEF Located
<1>14. ASSUME NEW t \in Txs, CancelPending(t) PROVE Located'
  BY <1>14 DEF CancelPending, Exit, Located, ListedAreSaved, TokenMatches,
     AuthIsInHand, HeldIsInHand, ReportIsSaved, PendingAreSaved
<1>15. ASSUME NEW t \in Txs, EndTransaction(t) PROVE Located'
  BY <1>15 DEF EndTransaction, Exit, Located, ListedAreSaved, TokenMatches,
     AuthIsInHand, HeldIsInHand, ReportIsSaved, PendingAreSaved
<1>16. ASSUME NEW s \in Shells, Approve(s) PROVE Located'
  BY <1>16 DEF Approve, Located, ListedAreSaved, TokenMatches, AuthIsInHand,
     HeldIsInHand, ReportIsSaved, PendingAreSaved
<1>17. ASSUME NEW a \in Actors, AnswerYes(a) PROVE Located'
  BY <1>17 DEF AnswerYes, Goto, Located, ListedAreSaved, TokenMatches,
     AuthIsInHand, HeldIsInHand, ReportIsSaved, PendingAreSaved
<1>18. ASSUME NEW a \in Actors, AnswerNo(a) PROVE Located'
  BY <1>18 DEF AnswerNo, Exit, Located, ListedAreSaved, TokenMatches,
     AuthIsInHand, HeldIsInHand, ReportIsSaved, PendingAreSaved
<1>19. ASSUME NEW a \in Actors, CreateCheck(a) PROVE Located'
  <2>0. /\ pc[a] = "lstat"
        /\ pc'[a] \in {"create", "idle"} /\ UNCHANGED <<nextId, auth, report, asked, nextConf>>
        /\ pc'[a] = "create" => rid'[a] = rid[a] /\ held'[a] = held[a]
        /\ pc'[a] = "idle" => held'[a] = 0
        /\ \A b \in Actors : b # a => pc'[b] = pc[b] /\ rid'[b] = rid[b] /\ held'[b] = held[b]
    BY <1>19 DEF CreateCheck, Goto, Exit, procVars, fileVars, userVars, consumeVars
  <2>1. ListedAreSaved'
    BY <1>19 DEF CreateCheck, Goto, Exit, Located, ListedAreSaved, PendingAreSaved
  <2>2. TokenMatches'
    BY <1>19 DEF CreateCheck, Goto, Exit, Located, TokenMatches, ListedAreSaved
  <2>3. AuthIsInHand'
    BY <2>0 DEF Located, AuthIsInHand
  <2>4. HeldIsInHand'
    BY <2>0 DEF Located, HeldIsInHand
  <2>5. ReportIsSaved'
    BY <2>0 DEF Located, ReportIsSaved
  <2>6. PendingAreSaved'
    BY <1>19 DEF CreateCheck, Goto, Exit, Located, PendingAreSaved, ReportIsSaved
  <2>7. QED
    BY <2>1, <2>2, <2>3, <2>4, <2>5, <2>6 DEF Located
<1>20. ASSUME NEW a \in Actors, CreateWrite(a) PROVE Located'
  <2>0. /\ pc[a] = "create"
        /\ pc'[a] \in {"rescan", "idle"} /\ UNCHANGED <<nextId, auth>> /\ held'[a] = 0
        /\ \A b \in Actors : b # a => pc'[b] = pc[b] /\ rid'[b] = rid[b] /\ held'[b] = held[b]
    BY <1>20 DEF CreateWrite, Goto, Exit, procVars, consumeVars
  <2>1. ListedAreSaved'
    BY <1>20 DEF CreateWrite, Goto, Exit, Located, ListedAreSaved, PendingAreSaved
  <2>2. TokenMatches'
    BY <1>20 DEF CreateWrite, Goto, Exit, Located, TokenMatches, ListedAreSaved
  <2>3. AuthIsInHand'
    BY <2>0 DEF Located, AuthIsInHand
  <2>4. HeldIsInHand'
    BY <2>0 DEF Located, HeldIsInHand
  <2>5. ReportIsSaved'
    BY <2>0 DEF Located, ReportIsSaved
  <2>6. PendingAreSaved'
    BY <1>20 DEF CreateWrite, Goto, Exit, Located, PendingAreSaved, ReportIsSaved
  <2>7. QED
    BY <2>1, <2>2, <2>3, <2>4, <2>5, <2>6 DEF Located
<1>21. ASSUME UNCHANGED vars PROVE Located'
  BY <1>21 DEF vars, Located, ListedAreSaved, TokenMatches, AuthIsInHand,
     HeldIsInHand, ReportIsSaved, PendingAreSaved
<1>22. ASSUME NEW t \in Txs, ListPending(t) PROVE Located'
  BY <1>22 DEF ListPending, Goto, Present, Located, ListedAreSaved, TokenMatches,
     AuthIsInHand, HeldIsInHand, ReportIsSaved, PendingAreSaved
<1>. QED
  BY <1>1, <1>2, <1>3, <1>4, <1>5, <1>6, <1>7, <1>8, <1>9, <1>10, <1>11, <1>12,
     <1>13, <1>14, <1>15, <1>16, <1>17, <1>18, <1>19, <1>20, <1>21, <1>22, <1>23, <1>24
     DEF Next,
     TxNext, AnswerNext

\* Every step keeps answers with the binding they were about.
LEMMA ExactStep ==
  ASSUME TypeOK, Located, Exact, TypeOK', [Next]_vars
  PROVE  Exact'
<1>7. ASSUME NEW t \in Txs, Save(t) PROVE Exact'
  <2>1. ExactHeld'
    <3>1. /\ UNCHANGED <<held, asked, nextConf>>
          /\ \A b \in Actors : b # t => rid'[b] = rid[b]
      BY <1>7, SaveLocals
    <3>2. \A i \in Saved : report'[i] = report[i]
      BY <1>7, SaveLocals
    <3>3. held[t] = 0
      BY <1>7, SaveLocals DEF Located, HeldIsInHand
    <3>4. SUFFICES ASSUME NEW a \in Actors, held[a] # 0
                   PROVE  held[a] \in Answers /\ asked[held[a]].b = report'[rid'[a]].b
      BY <3>1 DEF ExactHeld
    <3>5. rid[a] \in Saved
      BY <3>4 DEF Located, HeldIsInHand, ReportIsSaved
    <3>6. rid'[a] = rid[a]
      BY <3>1, <3>3, <3>4
    <3>7. QED
      BY <3>2, <3>4, <3>5, <3>6 DEF Exact, ExactHeld
  <2>2. ExactAuth'
    <3>1. /\ UNCHANGED <<asked, nextConf>> /\ auth'[t] = 0
          /\ \A u \in Txs : u # t => auth'[u] = auth[u] /\ cur'[u] = cur[u]
      BY <1>7, SaveLocals DEF TypeOK, ConsumeOK
    <3>. QED
      BY <3>1 DEF Exact, ExactAuth
  <2>3. ExactPending'
    <3>1. /\ UNCHANGED <<pending, asked, nextConf>>
          /\ \A i \in Saved : report'[i] = report[i]
      BY <1>7, SaveLocals
    <3>. QED
      BY <3>1 DEF Located, PendingAreSaved, Exact, ExactPending
  <2>4. ExactReports'
    <3>1. /\ UNCHANGED <<asked, nextConf>> /\ nextId' = nextId + 1 /\ nextId \in Nat \ {0}
          /\ \A i \in Saved : report'[i] = report[i]
          /\ report'[nextId].auth = auth[t] /\ report'[nextId].b = cur[t]
      BY <1>7, SaveLocals
    <3>2. \A i \in Saved' : i \in Saved \/ i = nextId
      BY <3>1
    <3>. QED
      BY <3>1, <3>2 DEF Exact, ExactReports, ExactAuth
  <2>5. QED
    BY <2>1, <2>2, <2>3, <2>4 DEF Exact
<1>23. ASSUME NEW t \in Txs, ScanFails(t) PROVE Exact'
  <2>1. held[t] = 0
    BY <1>23, FailLocals DEF Located, HeldIsInHand
  <2>2. /\ UNCHANGED <<nextId, report, pending, asked, nextConf, held>> /\ auth'[t] = 0
        /\ \A u \in Txs : u # t => auth'[u] = auth[u]
        /\ \A b \in Actors : b # t => rid'[b] = rid[b] /\ cur'[b] = cur[b]
    BY <1>23, FailLocals
  <2>. QED
    BY <2>1, <2>2 DEF Exact, ExactHeld, ExactAuth, ExactPending, ExactReports
<1>24. ASSUME NEW a \in Actors, CreateFails(a) PROVE Exact'
  <2>1. rid[a] \in Saved /\ (a \in Txs => auth[a] = 0)
    BY <1>24, CreateFailLocals DEF Located, ReportIsSaved, AuthIsInHand
  <2>2. ExactHeld' /\ ExactAuth' /\ ExactReports'
    BY <1>24, <2>1, CreateFailLocals DEF Exact, ExactHeld, ExactAuth, ExactReports
  <2>3. ExactPending'
    <3>1. /\ UNCHANGED <<nextId, report, asked, nextConf>>
          /\ pending' \in {pending, [pending EXCEPT ![rid[a]] = held[a]]}
      BY <1>24, CreateFailLocals
    <3>2. \A i \in Ids : pending'[i] = pending[i] \/ (pending'[i] = held[a] /\ i = rid[a])
      BY <3>1 DEF TypeOK, FilesOK
    <3>. QED
      BY <3>1, <3>2 DEF Exact, ExactPending, ExactHeld
  <2>. QED
    BY <2>2, <2>3 DEF Exact
<1> USE DEF TypeOK, FilesOK, UserOK, ProcOK, ConsumeOK, fileVars, userVars,
            procVars, consumeVars, tokenVars, pruneVars
<1>1. ASSUME NEW t \in Txs, Scan(t) PROVE Exact'
  <2>1. ExactHeld'
    BY <1>1 DEF Scan, BeginScan, Located, HeldIsInHand, ReportIsSaved, Exact,
       ExactHeld
  <2>2. ExactAuth'
    BY <1>1 DEF Scan, BeginScan, Located, TokenMatches, AuthIsInHand, Exact,
       ExactAuth, ExactPending
  <2>3. ExactPending'
    BY <1>1 DEF Scan, BeginScan, Located, PendingAreSaved, Exact, ExactPending,
       ExactHeld
  <2>4. ExactReports'
    BY <1>1 DEF Scan, BeginScan, Exact, ExactReports, ExactAuth
  <2>5. QED
    BY <2>1, <2>2, <2>3, <2>4 DEF Exact
<1>2. ASSUME NEW t \in Txs, ReviewNow(t) PROVE Exact'
  <2>1. ExactHeld'
    BY <1>2 DEF ReviewNow, BeginScan, SamePhase, Located, HeldIsInHand,
       ReportIsSaved, Exact, ExactHeld
  <2>2. ExactAuth'
    BY <1>2 DEF ReviewNow, BeginScan, SamePhase, Located, TokenMatches,
       AuthIsInHand, Exact, ExactAuth, ExactPending
  <2>3. ExactPending'
    BY <1>2 DEF ReviewNow, BeginScan, SamePhase, Located, PendingAreSaved, Exact,
       ExactPending, ExactHeld
  <2>4. ExactReports'
    BY <1>2 DEF ReviewNow, BeginScan, SamePhase, Exact, ExactReports, ExactAuth
  <2>5. QED
    BY <2>1, <2>2, <2>3, <2>4 DEF Exact
<1>3. ASSUME NEW t \in Txs, Rescan(t) PROVE Exact'
  <2>1. ExactHeld'
    BY <1>3 DEF Rescan, BeginScan, SamePhase, Located, HeldIsInHand,
       ReportIsSaved, Exact, ExactHeld
  <2>2. ExactAuth'
    BY <1>3 DEF Rescan, BeginScan, SamePhase, Located, TokenMatches, AuthIsInHand,
       Exact, ExactAuth, ExactPending
  <2>3. ExactPending'
    BY <1>3 DEF Rescan, BeginScan, SamePhase, Located, PendingAreSaved, Exact,
       ExactPending, ExactHeld
  <2>4. ExactReports'
    BY <1>3 DEF Rescan, BeginScan, SamePhase, Exact, ExactReports, ExactAuth
  <2>5. QED
    BY <2>1, <2>2, <2>3, <2>4 DEF Exact
<1>4. ASSUME NEW t \in Txs, ConsumeRead(t) PROVE Exact'
  BY <1>4 DEF ConsumeRead, Goto, Located, Exact, ListedAreSaved, TokenMatches,
     AuthIsInHand, HeldIsInHand, ReportIsSaved, PendingAreSaved, ExactHeld,
     ExactAuth, ExactPending, ExactReports
<1>5. ASSUME NEW t \in Txs, ConsumeRename(t) PROVE Exact'
  <2>1. ExactHeld'
    BY <1>5 DEF ConsumeRename, Goto, Located, HeldIsInHand, ReportIsSaved, Exact,
       ExactHeld
  <2>2. ExactAuth'
    <3>1. /\ UNCHANGED <<report, nextId, asked, nextConf, cur>>
          /\ auth'[t] \in {auth[t], pending[tok[t]]}
          /\ \A u \in Txs : u # t => auth'[u] = auth[u]
      BY <1>5 DEF ConsumeRename, Goto
    <3>2. tok[t] \in Ids /\ tok[t] \in Saved /\ report[tok[t]].b = cur[t]
      BY <1>5, SavedType DEF ConsumeRename, Located, TokenMatches
    <3>3. \A u \in Txs : auth'[u] # 0 => auth'[u] \in Answers /\ asked[auth'[u]].b = cur[u]
      <4>1. ASSUME auth'[t] # 0 PROVE auth'[t] \in Answers /\ asked[auth'[t]].b = cur[t]
        BY <3>1, <3>2, <4>1 DEF Exact, ExactAuth, ExactPending
      <4>2. ASSUME NEW u \in Txs, u # t, auth'[u] # 0
            PROVE  auth'[u] \in Answers /\ asked[auth'[u]].b = cur[u]
        BY <3>1, <4>2 DEF Exact, ExactAuth
      <4>. QED
        BY <4>1, <4>2
    <3>. QED
      BY <3>1, <3>3 DEF ExactAuth
  <2>3. ExactPending'
    BY <1>5 DEF ConsumeRename, Goto, Located, PendingAreSaved, Exact,
       ExactPending, ExactHeld
  <2>4. ExactReports'
    BY <1>5 DEF ConsumeRename, Goto, Exact, ExactReports, ExactAuth
  <2>5. QED
    BY <2>1, <2>2, <2>3, <2>4 DEF Exact
<1>6. ASSUME NEW t \in Txs, AuthorizationSource(t) PROVE Exact'
  <2>1. ExactHeld'
    <3>1. /\ UNCHANGED <<report, nextId, asked, nextConf, held>> /\ pc[t] = "source"
          /\ \A b \in Actors : b # t => rid'[b] = rid[b]
      BY <1>6 DEF AuthorizationSource, Goto, Exit
    <3>2. held[t] = 0
      BY <3>1 DEF Located, HeldIsInHand
    <3>. QED
      BY <3>1, <3>2 DEF Exact, ExactHeld
  <2>2. ExactAuth'
    BY <1>6 DEF AuthorizationSource, Goto, Exit, Located, TokenMatches,
       AuthIsInHand, Exact, ExactAuth, ExactPending
  <2>3. ExactPending'
    BY <1>6 DEF AuthorizationSource, Goto, Exit, Located, PendingAreSaved, Exact,
       ExactPending, ExactHeld
  <2>4. ExactReports'
    BY <1>6 DEF AuthorizationSource, Goto, Exit, Exact, ExactReports, ExactAuth
  <2>5. QED
    BY <2>1, <2>2, <2>3, <2>4 DEF Exact
<1>8. ASSUME NEW t \in Txs, SweepOpen(t) PROVE Exact'
  BY <1>8 DEF SweepOpen, Goto, Located, Exact, ListedAreSaved, TokenMatches,
     AuthIsInHand, HeldIsInHand, ReportIsSaved, PendingAreSaved, ExactHeld,
     ExactAuth, ExactPending, ExactReports
<1>9. ASSUME NEW t \in Txs, SweepJudge(t) PROVE Exact'
  BY <1>9 DEF SweepJudge, Goto, Located, Exact, ListedAreSaved, TokenMatches,
     AuthIsInHand, HeldIsInHand, ReportIsSaved, PendingAreSaved, ExactHeld,
     ExactAuth, ExactPending, ExactReports
<1>10. ASSUME NEW t \in Txs, PrunePending(t) PROVE Exact'
  BY <1>10 DEF PrunePending, Goto, Located, Exact, ListedAreSaved, TokenMatches,
     AuthIsInHand, HeldIsInHand, ReportIsSaved, PendingAreSaved, ExactHeld,
     ExactAuth, ExactPending, ExactReports
<1>11. ASSUME NEW t \in Txs, PruneIDs(t) PROVE Exact'
  BY <1>11 DEF PruneIDs, Goto, Located, Exact, ListedAreSaved, TokenMatches,
     AuthIsInHand, HeldIsInHand, ReportIsSaved, PendingAreSaved, ExactHeld,
     ExactAuth, ExactPending, ExactReports
<1>12. ASSUME NEW t \in Txs, PruneRemove(t) PROVE Exact'
  BY <1>12 DEF PruneRemove, Located, Exact, ListedAreSaved, TokenMatches,
     AuthIsInHand, HeldIsInHand, ReportIsSaved, PendingAreSaved, ExactHeld,
     ExactAuth, ExactPending, ExactReports
<1>13. ASSUME NEW t \in Txs, WriteMarker(t) PROVE Exact'
  <2>1. ExactHeld'
    BY <1>13 DEF WriteMarker, Goto, Exit, Located, HeldIsInHand, ReportIsSaved,
       Exact, ExactHeld
  <2>2. ExactAuth'
    BY <1>13 DEF WriteMarker, Goto, Exit, Located, TokenMatches, AuthIsInHand,
       Exact, ExactAuth, ExactPending
  <2>3. ExactPending'
    BY <1>13 DEF WriteMarker, Goto, Exit, Located, PendingAreSaved, Exact,
       ExactPending, ExactHeld
  <2>4. ExactReports'
    BY <1>13 DEF WriteMarker, Goto, Exit, Exact, ExactReports, ExactAuth
  <2>5. QED
    BY <2>1, <2>2, <2>3, <2>4 DEF Exact
<1>14. ASSUME NEW t \in Txs, CancelPending(t) PROVE Exact'
  <2>1. /\ UNCHANGED <<report, nextId, asked, nextConf, auth, held>> /\ pc[t] = "cancel"
        /\ \A b \in Actors : b # t => rid'[b] = rid[b] /\ cur'[b] = cur[b]
        /\ \A i \in Ids : pending'[i] \in {pending[i], 0}
    BY <1>14 DEF CancelPending, Exit
  <2>2. held[t] = 0 /\ auth[t] = 0
    BY <2>1 DEF Located, HeldIsInHand, AuthIsInHand
  <2>. QED
    BY <2>1, <2>2 DEF Exact, ExactHeld, ExactAuth, ExactPending, ExactReports
<1>15. ASSUME NEW t \in Txs, EndTransaction(t) PROVE Exact'
  BY <1>15 DEF EndTransaction, Exit, Located, Exact, ListedAreSaved, TokenMatches,
     AuthIsInHand, HeldIsInHand, ReportIsSaved, PendingAreSaved, ExactHeld,
     ExactAuth, ExactPending, ExactReports
<1>16. ASSUME NEW s \in Shells, Approve(s) PROVE Exact'
  BY <1>16 DEF Approve, Located, Exact, ListedAreSaved, TokenMatches,
     AuthIsInHand, HeldIsInHand, ReportIsSaved, PendingAreSaved, ExactHeld,
     ExactAuth, ExactPending, ExactReports
<1>17. ASSUME NEW a \in Actors, AnswerYes(a) PROVE Exact'
  BY <1>17 DEF AnswerYes, Goto, Located, Exact, ListedAreSaved, TokenMatches,
     AuthIsInHand, HeldIsInHand, ReportIsSaved, PendingAreSaved, ExactHeld,
     ExactAuth, ExactPending, ExactReports
<1>18. ASSUME NEW a \in Actors, AnswerNo(a) PROVE Exact'
  BY <1>18 DEF AnswerNo, Exit, Located, Exact, ListedAreSaved, TokenMatches,
     AuthIsInHand, HeldIsInHand, ReportIsSaved, PendingAreSaved, ExactHeld,
     ExactAuth, ExactPending, ExactReports
<1>19. ASSUME NEW a \in Actors, CreateCheck(a) PROVE Exact'
  <2>0. /\ pc[a] = "lstat"
        /\ pc'[a] \in {"create", "idle"} /\ UNCHANGED <<nextId, auth, report, asked, nextConf>>
        /\ pc'[a] = "create" => rid'[a] = rid[a] /\ held'[a] = held[a]
        /\ pc'[a] = "idle" => held'[a] = 0
        /\ \A b \in Actors : b # a => pc'[b] = pc[b] /\ rid'[b] = rid[b] /\ held'[b] = held[b]
    BY <1>19 DEF CreateCheck, Goto, Exit, procVars, fileVars, userVars, consumeVars
  <2>1. ExactHeld'
    <3>1. SUFFICES ASSUME NEW c \in Actors, held'[c] # 0
                   PROVE  held'[c] \in Answers /\ asked[held'[c]].b = report[rid'[c]].b
      BY <2>0 DEF ExactHeld
    <3>2. held'[c] = held[c] /\ rid'[c] = rid[c]
      BY <2>0, <3>1
    <3>3. QED
      BY <3>1, <3>2 DEF Exact, ExactHeld
  <2>2. ExactAuth'
    BY <1>19 DEF CreateCheck, Goto, Exit, Located, TokenMatches, AuthIsInHand,
       Exact, ExactAuth, ExactPending
  <2>3. ExactPending'
    BY <1>19 DEF CreateCheck, Goto, Exit, Located, PendingAreSaved, Exact,
       ExactPending, ExactHeld
  <2>4. ExactReports'
    BY <1>19 DEF CreateCheck, Goto, Exit, Exact, ExactReports, ExactAuth
  <2>5. QED
    BY <2>1, <2>2, <2>3, <2>4 DEF Exact
<1>20. ASSUME NEW a \in Actors, CreateWrite(a) PROVE Exact'
  <2>1. /\ UNCHANGED <<report, nextId, asked, nextConf, auth>> /\ pc[a] = "create"
        /\ pending' = [pending EXCEPT ![rid[a]] = held[a]]
        /\ held' = [held EXCEPT ![a] = 0]
        /\ \A b \in Actors : b # a => rid'[b] = rid[b] /\ cur'[b] = cur[b]
    BY <1>20 DEF CreateWrite, Goto, Exit
  <2>2. rid[a] \in Saved /\ (a \in Txs => auth[a] = 0)
    BY <2>1 DEF Located, ReportIsSaved, AuthIsInHand
  <2>3. ExactHeld' /\ ExactAuth' /\ ExactReports'
    BY <2>1, <2>2 DEF Exact, ExactHeld, ExactAuth, ExactReports
  <2>4. ExactPending'
    BY <2>1, <2>2 DEF Exact, ExactPending, ExactHeld
  <2>. QED
    BY <2>3, <2>4 DEF Exact
<1>21. ASSUME UNCHANGED vars PROVE Exact'
  BY <1>21 DEF vars, Located, Exact, ListedAreSaved, TokenMatches, AuthIsInHand,
     HeldIsInHand, ReportIsSaved, PendingAreSaved, ExactHeld, ExactAuth,
     ExactPending, ExactReports
<1>22. ASSUME NEW t \in Txs, ListPending(t) PROVE Exact'
  BY <1>22 DEF ListPending, Goto, Exact, ExactHeld, ExactAuth, ExactPending, ExactReports
<1>. QED
  BY <1>1, <1>2, <1>3, <1>4, <1>5, <1>6, <1>7, <1>8, <1>9, <1>10, <1>11, <1>12,
     <1>13, <1>14, <1>15, <1>16, <1>17, <1>18, <1>19, <1>20, <1>21, <1>22, <1>23, <1>24
     DEF Next,
     TxNext, AnswerNext

\* An answer that has not been given is nowhere.
LEMMA FreshAnswer ==
  ASSUME Exact, nextConf \in Nat, nextConf # 0
  PROVE  /\ \A b \in Actors : held[b] # nextConf
         /\ \A u \in Txs : auth[u] # nextConf
         /\ \A i \in Ids : pending[i] # nextConf
         /\ \A i \in Saved : report[i].auth # nextConf
<1>1. nextConf \notin 1 .. nextConf - 1
  OBVIOUS
<1>2. ASSUME NEW b \in Actors, held[b] = nextConf PROVE FALSE
  BY <1>1, <1>2 DEF Exact, ExactHeld
<1>3. ASSUME NEW u \in Txs, auth[u] = nextConf PROVE FALSE
  BY <1>1, <1>3 DEF Exact, ExactAuth
<1>4. ASSUME NEW i \in Ids, pending[i] = nextConf PROVE FALSE
  BY <1>1, <1>4 DEF Exact, ExactPending
<1>5. ASSUME NEW i \in Saved, report[i].auth = nextConf PROVE FALSE
  BY <1>1, <1>5 DEF Exact, ExactReports
<1>6. QED
  BY <1>2, <1>3, <1>4, <1>5

\* Every step keeps each answer in one place: it is moved, never copied.
LEMMA OnePlaceStep ==
  ASSUME TypeOK, Located, Exact, OnePlace, TypeOK', [Next]_vars
  PROVE  OnePlace'
<1>24. ASSUME NEW a \in Actors, CreateFails(a) PROVE OnePlace'
  <2>1. /\ UNCHANGED <<auth, report, nextId>> /\ held'[a] = 0
        /\ \A b \in Actors : b # a => held'[b] = held[b]
        /\ pending' \in {pending, [pending EXCEPT ![rid[a]] = held[a]]}
    BY <1>24, CreateFailLocals
  <2>2. \A i \in Ids : pending'[i] = pending[i] \/ (pending'[i] = held[a] /\ i = rid[a])
    BY <2>1 DEF TypeOK, FilesOK
  <2>. QED
    BY <2>1, <2>2 DEF OnePlace
<1> USE DEF TypeOK, FilesOK, UserOK, ProcOK, ConsumeOK, fileVars, userVars,
            procVars, consumeVars, tokenVars, pruneVars
<1>1. ASSUME NEW t \in Txs, Scan(t) PROVE OnePlace'
  BY <1>1 DEF Scan, BeginScan, Exact, OnePlace, ExactHeld, ExactAuth,
     ExactPending, ExactReports
<1>2. ASSUME NEW t \in Txs, ReviewNow(t) PROVE OnePlace'
  BY <1>2 DEF ReviewNow, BeginScan, SamePhase, Exact, OnePlace, ExactHeld,
     ExactAuth, ExactPending, ExactReports
<1>3. ASSUME NEW t \in Txs, Rescan(t) PROVE OnePlace'
  BY <1>3 DEF Rescan, BeginScan, SamePhase, Exact, OnePlace, ExactHeld, ExactAuth,
     ExactPending, ExactReports
<1>4. ASSUME NEW t \in Txs, ConsumeRead(t) PROVE OnePlace'
  BY <1>4 DEF ConsumeRead, Goto, Exact, OnePlace, ExactHeld, ExactAuth,
     ExactPending, ExactReports
<1>5. ASSUME NEW t \in Txs, ConsumeRename(t) PROVE OnePlace'
  <2>1. CASE pending[tok[t]] = 0
    BY <1>5, <2>1 DEF ConsumeRename, tokenVars, OnePlace
  <2>2. CASE pending[tok[t]] # 0
    <3>1. /\ tok[t] \in Ids
          /\ auth' = [auth EXCEPT ![t] = pending[tok[t]]]
          /\ pending' = [pending EXCEPT ![tok[t]] = 0]
          /\ UNCHANGED <<held, report, nextId>>
      BY <1>5, <2>2, SavedType DEF ConsumeRename, tokenVars, Located, TokenMatches
    <3>2. QED
      BY <2>2, <3>1 DEF OnePlace
  <2>3. QED
    BY <2>1, <2>2
<1>6. ASSUME NEW t \in Txs, AuthorizationSource(t) PROVE OnePlace'
  <2>1. /\ \A u \in Txs : auth'[u] # 0 => auth'[u] = auth[u]
        /\ UNCHANGED <<held, pending, report, nextId>>
    BY <1>6 DEF AuthorizationSource, tokenVars
  <2>2. QED
    BY <2>1 DEF OnePlace
<1>7. ASSUME NEW t \in Txs, Save(t) PROVE OnePlace'
  BY <1>7 DEF Save, Exact, OnePlace, ExactHeld, ExactAuth, ExactPending,
     ExactReports
<1>8. ASSUME NEW t \in Txs, SweepOpen(t) PROVE OnePlace'
  BY <1>8 DEF SweepOpen, Goto, Exact, OnePlace, ExactHeld, ExactAuth,
     ExactPending, ExactReports
<1>9. ASSUME NEW t \in Txs, SweepJudge(t) PROVE OnePlace'
  BY <1>9 DEF SweepJudge, Goto, Exact, OnePlace, ExactHeld, ExactAuth,
     ExactPending, ExactReports
<1>10. ASSUME NEW t \in Txs, PrunePending(t) PROVE OnePlace'
  BY <1>10 DEF PrunePending, Goto, Exact, OnePlace, ExactHeld, ExactAuth,
     ExactPending, ExactReports
<1>11. ASSUME NEW t \in Txs, PruneIDs(t) PROVE OnePlace'
  BY <1>11 DEF PruneIDs, Goto, Exact, OnePlace, ExactHeld, ExactAuth,
     ExactPending, ExactReports
<1>12. ASSUME NEW t \in Txs, PruneRemove(t) PROVE OnePlace'
  BY <1>12 DEF PruneRemove, Exact, OnePlace, ExactHeld, ExactAuth, ExactPending,
     ExactReports
<1>13. ASSUME NEW t \in Txs, WriteMarker(t) PROVE OnePlace'
  BY <1>13 DEF WriteMarker, Goto, Exit, Exact, OnePlace, ExactHeld, ExactAuth,
     ExactPending, ExactReports
<1>14. ASSUME NEW t \in Txs, CancelPending(t) PROVE OnePlace'
  <2>1. /\ \A i \in Ids : pending'[i] \in {pending[i], 0}
        /\ UNCHANGED <<held, auth, report, nextId>>
    BY <1>14 DEF CancelPending
  <2>. QED
    BY <2>1 DEF OnePlace
<1>15. ASSUME NEW t \in Txs, EndTransaction(t) PROVE OnePlace'
  BY <1>15 DEF EndTransaction, Exit, Exact, OnePlace, ExactHeld, ExactAuth,
     ExactPending, ExactReports
<1>16. ASSUME NEW s \in Shells, Approve(s) PROVE OnePlace'
  BY <1>16 DEF Approve, Exact, OnePlace, ExactHeld, ExactAuth, ExactPending,
     ExactReports
<1>17. ASSUME NEW a \in Actors, AnswerYes(a) PROVE OnePlace'
  <2>1. /\ held' = [held EXCEPT ![a] = nextConf]
        /\ UNCHANGED <<auth, pending, report, nextId>>
    BY <1>17 DEF AnswerYes, fileVars, consumeVars
  <2>2. /\ \A b \in Actors : held[b] # nextConf
        /\ \A u \in Txs : auth[u] # nextConf
        /\ \A i \in Ids : pending[i] # nextConf
        /\ \A i \in Saved : report[i].auth # nextConf
    BY FreshAnswer
  <2>3. QED
    BY <2>1, <2>2 DEF OnePlace
<1>18. ASSUME NEW a \in Actors, AnswerNo(a) PROVE OnePlace'
  BY <1>18 DEF AnswerNo, Exit, Exact, OnePlace, ExactHeld, ExactAuth,
     ExactPending, ExactReports
<1>19. ASSUME NEW a \in Actors, CreateCheck(a) PROVE OnePlace'
  <2>1. /\ \A b \in Actors : held'[b] # 0 => held'[b] = held[b]
        /\ UNCHANGED <<auth, pending, report, nextId>>
    BY <1>19 DEF CreateCheck, fileVars, consumeVars
  <2>2. QED
    BY <2>1 DEF OnePlace
<1>20. ASSUME NEW a \in Actors, CreateWrite(a) PROVE OnePlace'
  BY <1>20 DEF CreateWrite, Goto, Exit, Exact, OnePlace, ExactHeld, ExactAuth,
     ExactPending, ExactReports
<1>21. ASSUME UNCHANGED vars PROVE OnePlace'
  BY <1>21 DEF vars, Exact, OnePlace, ExactHeld, ExactAuth, ExactPending,
     ExactReports
<1>22. ASSUME NEW t \in Txs, ListPending(t) PROVE OnePlace'
  BY <1>22 DEF ListPending, OnePlace
<1>23. ASSUME NEW t \in Txs, ScanFails(t) PROVE OnePlace'
  <2>1. /\ \A u \in Txs : auth'[u] # 0 => auth'[u] = auth[u]
        /\ UNCHANGED <<held, pending, report, nextId>>
    BY <1>23 DEF ScanFails
  <2>2. QED
    BY <2>1 DEF OnePlace
<1>. QED
  BY <1>1, <1>2, <1>3, <1>4, <1>5, <1>6, <1>7, <1>8, <1>9, <1>10, <1>11, <1>12,
     <1>13, <1>14, <1>15, <1>16, <1>17, <1>18, <1>19, <1>20, <1>21, <1>22, <1>23, <1>24
     DEF Next,
     TxNext, AnswerNext

-----------------------------------------------------------------------------
\* The initial state satisfies the inductive invariant: no file, no answer and
\* no process exists.
LEMMA InitIInv ==
  ASSUME Init
  PROVE  IInv
<1>1. TypeOK
  BY NoBindingType DEF Init, TypeOK, FilesOK, UserOK, ProcOK, ConsumeOK, PruneOK,
     PCs
<1>2. Located
  BY DEF Init, Located, ListedAreSaved, TokenMatches, AuthIsInHand, HeldIsInHand,
         ReportIsSaved, PendingAreSaved
<1>3. Exact
  BY DEF Init, Exact, ExactHeld, ExactAuth, ExactPending, ExactReports
<1>4. OnePlace
  BY DEF Init, OnePlace
<1>5. QED
  BY <1>1, <1>2, <1>3, <1>4 DEF IInv

\* Each answer of the user stays in one place and with the binding it was
\* about, in every state the processes can reach by interleaving their file
\* system steps.
THEOREM Inductive == Spec => []IInv
<1>1. Init => IInv
  BY InitIInv
<1>2. IInv /\ [Next]_vars => IInv'
  <2>1. SUFFICES ASSUME TypeOK, Located, Exact, OnePlace, [Next]_vars
                 PROVE  IInv'
    BY DEF IInv
  <2>2. TypeOK'
    BY <2>1, TypeStep
  <2>3. Located'
    BY <2>1, <2>2, LocatedStep
  <2>4. Exact'
    BY <2>1, <2>2, ExactStep
  <2>5. OnePlace'
    BY <2>1, <2>2, OnePlaceStep
  <2>6. QED
    BY <2>2, <2>3, <2>4, <2>5 DEF IInv
<1>3. QED
  BY <1>1, <1>2, PTL DEF Spec

\* Reports, tokens, markers and the local state of every process keep their
\* types, and the store holds only reports that were written.
THEOREM TypeCorrect == Spec => []TypeOK
<1>1. IInv => TypeOK
  BY DEF IInv
<1>2. QED
  BY <1>1, Inductive, PTL

\* Two overrides never rest on the same answer, and the answer was about the
\* overridden binding: rename(2) moves a token to exactly one of the scans
\* that read it, for any number of transactions and shells.
THEOREM OneTime == Spec => []ApprovalsAreExactAndOneTime
<1>1. IInv => ApprovalsAreExactAndOneTime
  BY DEF IInv, Exact, ExactReports, OnePlace, ApprovalsAreExactAndOneTime
<1>2. QED
  BY <1>1, Inductive, PTL



-----------------------------------------------------------------------------
(* The other properties.                                                   *)

\* Reports are written once and answers are given once (ReportStore.Save, runScan).
LEMMA RecordsStay ==
  ASSUME TypeOK, [Next]_vars
  PROVE  /\ Saved \subseteq Saved' /\ \A i \in Saved : report'[i] = report[i]
         /\ Answers \subseteq Answers' /\ \A c \in Answers : asked'[c] = asked[c]
<1>. USE DEF vars, fileVars, userVars
<1>1. CASE \E t \in Txs : Save(t)
  BY <1>1 DEF Save, TypeOK, FilesOK
<1>2. CASE \E a \in Actors : AnswerYes(a)
  BY <1>2 DEF AnswerYes, TypeOK, UserOK
<1>3. CASE UNCHANGED <<report, nextId, asked, nextConf>>
  BY <1>3
<1>. QED
  BY <1>1, <1>2, <1>3 DEF Next, TxNext, AnswerNext, Scan, ReviewNow, Rescan, BeginScan,
     ConsumeRead, ConsumeRename, AuthorizationSource, SweepOpen, SweepJudge,
     PrunePending, PruneIDs, PruneRemove, WriteMarker, CancelPending, EndTransaction,
     Approve, AnswerNo, CreateCheck, CreateWrite, CreateFails, ListPending, ScanFails

\* A scan sweeps and prunes only after its Save, and for the report it wrote.
LEMMA OwnReportStep ==
  ASSUME TypeOK, Located, ScansOwnTheirReports, [Next]_vars
  PROVE  ScansOwnTheirReports'
<1>. USE DEF TypeOK, FilesOK, ProcOK, ScansOwnTheirReports, vars, procVars, fileVars
<1>1. CASE \E t \in Txs : Save(t)
  <2>1. PICK t \in Txs : Save(t)
    BY <1>1
  <2>2. /\ report'[nextId].tx = t /\ report'[nextId].b = cur[t]
        /\ \/ rid'[t] = nextId /\ cur'[t] = cur[t]
           \/ pc'[t] \in {"cancel", "idle"}
    BY <2>1 DEF Save, Goto, Exit
  <2>3. \A u \in Txs : u # t => pc'[u] = pc[u] /\ rid'[u] = rid[u] /\ cur'[u] = cur[u]
    BY <2>1 DEF Save, Goto, Exit
  <2>4. \A u \in Txs : pc[u] \in {"sweep", "judge", "ids", "remove"} =>
          report'[rid[u]] = report[rid[u]]
    BY RecordsStay DEF Located, ReportIsSaved
  <2>. QED
    BY <2>1, <2>2, <2>3, <2>4
<1>2. CASE \E t \in Txs : Scan(t) \/ ReviewNow(t) \/ Rescan(t)
  BY <1>2 DEF Scan, ReviewNow, Rescan, BeginScan
<1>3. CASE \E t \in Txs : ConsumeRead(t) \/ ConsumeRename(t) \/ AuthorizationSource(t)
  BY <1>3 DEF ConsumeRead, ConsumeRename, AuthorizationSource, Goto, Exit
<1>4. CASE \E t \in Txs : SweepOpen(t) \/ SweepJudge(t) \/ PrunePending(t) \/ PruneIDs(t)
  BY <1>4 DEF SweepOpen, SweepJudge, PrunePending, PruneIDs, Goto
<1>5. CASE \E t \in Txs : WriteMarker(t) \/ CancelPending(t) \/ EndTransaction(t)
  BY <1>5 DEF WriteMarker, CancelPending, EndTransaction, Goto, Exit
<1>6. CASE \E u \in Shells : Approve(u)
  BY <1>6 DEF Approve
<1>7. CASE \E a \in Actors : AnswerNext(a)
  <2>0. CASE \E a \in Actors : AnswerYes(a)
    BY <2>0 DEF AnswerYes, Goto
  <2>1. CASE \E a \in Actors : AnswerNo(a)
    BY <2>1 DEF AnswerNo, Exit
  <2>2. CASE \E a \in Actors : CreateCheck(a)
    BY <2>2 DEF CreateCheck, Goto, Exit
  <2>3. CASE \E a \in Actors : CreateWrite(a)
    BY <2>3 DEF CreateWrite, Goto, Exit
  <2>4. CASE \E a \in Actors : CreateFails(a)
    BY <2>4 DEF CreateFails, Exit
  <2>. QED
    BY <1>7, <2>0, <2>1, <2>2, <2>3, <2>4 DEF AnswerNext
<1>8. CASE (\E t \in Txs : PruneRemove(t)) \/ UNCHANGED vars
  BY <1>8 DEF PruneRemove
<1>9. CASE \E t \in Txs : ListPending(t) \/ ScanFails(t)
  BY <1>9 DEF ListPending, ScanFails, Goto, Exit
<1>. QED
  BY <1>1, <1>2, <1>3, <1>4, <1>5, <1>6, <1>7, <1>8, <1>9 DEF Next, TxNext

\* A marker is written for the scan's own report, in the slot of its transaction
\* and phase (markerLocation).
LEMMA MarkerStep ==
  ASSUME TypeOK, Located, ScansOwnTheirReports, MarkersAreSaved,
         MarkersAreTransactionLocal, [Next]_vars
  PROVE  MarkersAreSaved' /\ MarkersAreTransactionLocal'
<1>. USE DEF MarkersAreSaved, MarkersAreTransactionLocal, Slots
<1>1. ASSUME UNCHANGED marker
      PROVE  MarkersAreSaved' /\ MarkersAreTransactionLocal'
  BY <1>1, RecordsStay
<1>2. CASE \E t \in Txs : WriteMarker(t)
  <2>1. PICK t \in Txs : WriteMarker(t)
    BY <1>2
  <2>2. CASE PhaseOf[cur[t]] \in MarkPhases
    <3>1. marker' = [marker EXCEPT ![<<t, PhaseOf[cur[t]]>>] = rid[t]]
      BY <2>1, <2>2 DEF WriteMarker, SlotOf
    <3>2. rid[t] \in Saved /\ report[rid[t]].tx = t /\ report[rid[t]].b = cur[t]
      BY <2>1 DEF WriteMarker, Located, ReportIsSaved, ScansOwnTheirReports
    <3>3. UNCHANGED <<report, nextId>>
      BY <2>1 DEF WriteMarker
    <3>. QED
      BY <3>1, <3>2, <3>3 DEF TypeOK, FilesOK
  <2>3. CASE UNCHANGED marker
    BY <1>1, <2>3
  <2>. QED
    BY <2>1, <2>2, <2>3 DEF WriteMarker
<1>3. CASE \E t \in Txs : SweepJudge(t)
  <2>1. \A z \in Slots : marker'[z] \in {marker[z], 0}
    BY <1>3 DEF SweepJudge, TypeOK, FilesOK
  <2>. QED
    BY <2>1, RecordsStay
<1>4. CASE UNCHANGED vars
  BY <1>1, <1>4 DEF vars, fileVars
<1>. QED
  BY <1>1, <1>2, <1>3, <1>4 DEF Next, TxNext, AnswerNext, Scan, ReviewNow, Rescan,
     BeginScan, ConsumeRead, ConsumeRename, AuthorizationSource, Save, SweepOpen,
     PrunePending, PruneIDs, PruneRemove, CancelPending, EndTransaction, Approve,
     AnswerYes, AnswerNo, CreateCheck, CreateWrite, CreateFails, ListPending, ScanFails, fileVars

\* Consume is not called for a structural block, and is over before Save.
LEMMA ListingStep ==
  ASSUME TypeOK, Located, ListingEnds, StructuralIsNotListed, [Next]_vars
  PROVE  ListingEnds' /\ StructuralIsNotListed'
<1>5. CASE \E t \in Txs : Save(t)
  <2>1. PICK t \in Txs : Save(t)
    BY <1>5
  <2>2. /\ UNCHANGED todo /\ pc[t] \in {"list", "save"} /\ pc'[t] \in {"sweep", "cancel", "idle"}
        /\ auth' = [auth EXCEPT ![t] = 0]
        /\ \A u \in Txs : u # t => pc'[u] = pc[u] /\ cur'[u] = cur[u]
    BY <2>1, SaveLocals
  <2>3. todo[t] = {}
    BY <2>1 DEF Save, ListingEnds
  <2>4. auth'[t] = 0 /\ \A u \in Txs : u # t => auth'[u] = auth[u]
    BY <2>2 DEF TypeOK, ConsumeOK
  <2>. QED
    BY <2>2, <2>3, <2>4 DEF ListingEnds, StructuralIsNotListed
<1>. USE DEF TypeOK, ProcOK, ConsumeOK, ListingEnds, StructuralIsNotListed, vars,
            procVars, consumeVars
<1>1. CASE \E t \in Txs : Scan(t) \/ ReviewNow(t) \/ Rescan(t)
  BY <1>1 DEF Scan, ReviewNow, Rescan, BeginScan, SamePhase, Located, AuthIsInHand
<1>2. CASE \E t \in Txs : ConsumeRead(t)
  BY <1>2 DEF ConsumeRead, Goto
<1>3. CASE \E t \in Txs : ConsumeRename(t)
  BY <1>3 DEF ConsumeRename, Goto
<1>4. CASE \E t \in Txs : AuthorizationSource(t)
  BY <1>4 DEF AuthorizationSource, Goto, Exit
<1>6. CASE \E t \in Txs : SweepOpen(t) \/ SweepJudge(t) \/ PrunePending(t) \/ PruneIDs(t)
  BY <1>6 DEF SweepOpen, SweepJudge, PrunePending, PruneIDs, Goto
<1>7. CASE \E t \in Txs : WriteMarker(t) \/ CancelPending(t) \/ EndTransaction(t)
  <2>1. CASE \E t \in Txs : WriteMarker(t)
    BY <2>1 DEF WriteMarker, Goto, Exit, Located, AuthIsInHand
  <2>2. CASE \E t \in Txs : CancelPending(t)
    BY <2>2 DEF CancelPending, Exit, Located, AuthIsInHand
  <2>3. CASE \E t \in Txs : EndTransaction(t)
    BY <2>3 DEF EndTransaction, Exit
  <2>. QED
    BY <1>7, <2>1, <2>2, <2>3
<1>8. CASE \E u \in Shells : Approve(u)
  BY <1>8 DEF Approve
<1>9. CASE \E a \in Actors : AnswerNext(a)
  <2>0. CASE \E a \in Actors : AnswerYes(a)
    BY <2>0 DEF AnswerYes, Goto, Located, AuthIsInHand
  <2>1. CASE \E a \in Actors : AnswerNo(a)
    BY <2>1 DEF AnswerNo, Exit, Located, AuthIsInHand
  <2>2. CASE \E a \in Actors : CreateCheck(a)
    BY <2>2 DEF CreateCheck, Goto, Exit, Located, AuthIsInHand
  <2>3. CASE \E a \in Actors : CreateWrite(a)
    BY <2>3 DEF CreateWrite, Goto, Exit, Located, AuthIsInHand
  <2>4. CASE \E a \in Actors : CreateFails(a)
    BY <2>4 DEF CreateFails, Exit, Located, AuthIsInHand
  <2>. QED
    BY <1>9, <2>0, <2>1, <2>2, <2>3, <2>4 DEF AnswerNext
<1>10. CASE (\E t \in Txs : PruneRemove(t)) \/ UNCHANGED vars
  BY <1>10 DEF PruneRemove
<1>11. CASE \E t \in Txs : ListPending(t)
  BY <1>11 DEF ListPending, Goto
<1>12. CASE \E t \in Txs : ScanFails(t)
  BY <1>12 DEF ScanFails, Goto, Exit
<1>. QED
  BY <1>1, <1>2, <1>3, <1>4, <1>5, <1>6, <1>7, <1>8, <1>9, <1>10, <1>11, <1>12 DEF Next,
     TxNext

\* What a scan takes over is read from the marker of its own transaction, and no
\* later scan keeps it (carriedDecision, evaluate).
LEMMA CarriedStep ==
  ASSUME TypeOK, MarkersAreSaved, MarkersAreTransactionLocal, CarriedIsBacked, [Next]_vars
  PROVE  CarriedIsBacked'
<1>a. Saved \subseteq Saved' /\ \A i \in Saved : report'[i] = report[i]
  BY RecordsStay
<1>. USE DEF TypeOK, ProcOK, ConsumeOK, vars, procVars, consumeVars
<1>. DEFINE Held == {"begin", "list", "rename", "source", "save"}
            Backed(i, t, b) == /\ i \in Saved /\ report[i].tx = t /\ report[i].auth # 0
                               /\ PhaseOf[report[i].b] = "pre" /\ PhaseOf[b] = "post"
                               /\ <<report[i].b, b>> \in Covers
<1>0. ASSUME \A t \in Txs : carried'[t] # 0 =>
               pc'[t] \in Held /\ Backed(carried'[t], t, cur'[t])
      PROVE  CarriedIsBacked'
  <2>. SUFFICES ASSUME NEW t \in Txs, carried'[t] # 0
                PROVE  /\ pc'[t] \in Held /\ carried'[t] \in Saved'
                       /\ report'[carried'[t]].tx = t /\ report'[carried'[t]].auth # 0
                       /\ PhaseOf[report'[carried'[t]].b] = "pre"
                       /\ PhaseOf[cur'[t]] = "post"
                       /\ <<report'[carried'[t]].b, cur'[t]>> \in Covers
    BY DEF CarriedIsBacked
  <2>1. pc'[t] \in Held /\ Backed(carried'[t], t, cur'[t])
    BY <1>0
  <2>2. carried'[t] \in Saved' /\ report'[carried'[t]] = report[carried'[t]]
    BY <1>a, <2>1
  <2>. QED
    BY <2>1, <2>2
<1>1. \A t \in Txs : carried[t] # 0 => pc[t] \in Held /\ Backed(carried[t], t, cur[t])
  BY DEF CarriedIsBacked
<1>2. CASE \E t \in Txs : Scan(t) \/ ReviewNow(t) \/ Rescan(t)
  <2>1. PICK t \in Txs, b \in Bindings, s \in {"first", "review", "rescan"} :
          BeginScan(t, b, s)
    BY <1>2 DEF Scan, ReviewNow, Rescan, SamePhase
  <2>2. /\ pc'[t] = "begin" /\ cur'[t] = b /\ carried'[t] = carriedDecision(t, b)
        /\ \A u \in Txs : u # t => /\ pc'[u] = pc[u] /\ cur'[u] = cur[u]
                                 /\ carried'[u] = carried[u]
    BY <2>1 DEF BeginScan
  <2>3. ASSUME carriedDecision(t, b) # 0 PROVE Backed(carriedDecision(t, b), t, b)
    <3>1. <<t, "pre">> \in Slots /\ "pre" \in MarkPhases
      BY DEF Slots, MarkPhases
    <3>2. /\ carriedDecision(t, b) = marker[<<t, "pre">>] /\ PhaseOf[b] = "post"
          /\ report[marker[<<t, "pre">>]].auth # 0
          /\ <<report[marker[<<t, "pre">>]].b, b>> \in Covers
      BY <2>3 DEF carriedDecision, SlotOf
    <3>3. /\ marker[<<t, "pre">>] \in Saved /\ report[marker[<<t, "pre">>]].tx = t
          /\ PhaseOf[report[marker[<<t, "pre">>]].b] = "pre"
      BY <2>3, <3>1, <3>2 DEF MarkersAreSaved, MarkersAreTransactionLocal
    <3>. QED
      BY <3>2, <3>3
  <2>. QED
    BY <1>0, <1>1, <2>2, <2>3
<1>3. ASSUME \A t \in Txs : \/ carried'[t] = 0
                            \/ carried'[t] = carried[t] /\ cur'[t] = cur[t] /\ pc'[t] \in Held
                            \/ UNCHANGED <<carried[t], cur[t], pc[t]>>
      PROVE  CarriedIsBacked'
  BY <1>0, <1>1, <1>3
<1>4. CASE \E t \in Txs : ListPending(t) \/ ConsumeRead(t) \/ ConsumeRename(t)
  <2>1. CASE \E t \in Txs : ListPending(t)
    BY <1>3, <2>1 DEF ListPending, Goto
  <2>2. CASE \E t \in Txs : ConsumeRead(t)
    BY <1>3, <2>2 DEF ConsumeRead, Goto
  <2>3. CASE \E t \in Txs : ConsumeRename(t)
    BY <1>3, <2>3 DEF ConsumeRename, Goto
  <2>. QED
    BY <1>4, <2>1, <2>2, <2>3
<1>5. CASE \E t \in Txs : AuthorizationSource(t) \/ ScanFails(t)
  <2>1. CASE \E t \in Txs : AuthorizationSource(t)
    BY <1>3, <2>1 DEF AuthorizationSource, Goto, Exit
  <2>2. CASE \E t \in Txs : ScanFails(t)
    BY <1>3, <2>2 DEF ScanFails, Goto, Exit
  <2>. QED
    BY <1>5, <2>1, <2>2
<1>6. CASE \E t \in Txs : Save(t)
  <2>1. PICK t \in Txs : Save(t)
    BY <1>6
  <2>2. carried' = [carried EXCEPT ![t] = 0]
    BY <2>1 DEF Save
  <2>3. \A u \in Txs : u # t => pc'[u] = pc[u] /\ cur'[u] = cur[u]
    BY <2>1 DEF Save, Goto, Exit
  <2>. QED
    BY <1>3, <2>2, <2>3
<1>7. CASE \E t \in Txs : EndTransaction(t)
  BY <1>3, <1>7 DEF EndTransaction, Exit
<1>8. ASSUME NEW a \in Actors, UNCHANGED carried, pc[a] \notin Held,
             \A c \in Actors : c # a => pc'[c] = pc[c] /\ cur'[c] = cur[c]
      PROVE  CarriedIsBacked'
  <2>1. \A t \in Txs : carried[t] # 0 => t # a
    BY <1>1, <1>8
  <2>. QED
    BY <1>3, <1>8, <2>1
<1>9. CASE \E t \in Txs : SweepOpen(t) \/ SweepJudge(t) \/ PrunePending(t) \/ PruneIDs(t)
  BY <1>8, <1>9 DEF SweepOpen, SweepJudge, PrunePending, PruneIDs, Goto
<1>10. CASE \E t \in Txs : WriteMarker(t) \/ CancelPending(t)
  <2>1. CASE \E t \in Txs : WriteMarker(t)
    BY <1>8, <2>1 DEF WriteMarker, Goto, Exit
  <2>2. CASE \E t \in Txs : CancelPending(t)
    BY <1>8, <2>2 DEF CancelPending, Exit
  <2>. QED
    BY <1>10, <2>1, <2>2
<1>11. CASE \E s \in Shells : Approve(s)
  BY <1>8, <1>11 DEF Approve
<1>12. CASE \E a \in Actors : AnswerNext(a)
  <2>1. PICK a \in Actors : AnswerNext(a)
    BY <1>12
  <2>2. pc[a] \notin Held /\ UNCHANGED carried
    BY <2>1 DEF AnswerNext, AnswerYes, AnswerNo, CreateCheck, CreateWrite, CreateFails
  <2>3. \A c \in Actors : c # a => pc'[c] = pc[c] /\ cur'[c] = cur[c]
    BY <2>1 DEF AnswerNext, AnswerYes, AnswerNo, CreateCheck, CreateWrite, CreateFails,
       Goto, Exit
  <2>. QED
    BY <1>8, <2>2, <2>3
<1>13. CASE (\E t \in Txs : PruneRemove(t)) \/ UNCHANGED vars
  BY <1>3, <1>13 DEF PruneRemove
<1>. QED
  BY <1>2, <1>4, <1>5, <1>6, <1>7, <1>9, <1>10, <1>11, <1>12, <1>13 DEF Next, TxNext

\* A saved report keeps what its decision rests on (ReportStore.Save).
LEMMA DecisionStays ==
  ASSUME TypeOK, Exact, [Next]_vars, NEW i \in Saved
  PROVE  (Answered(i) => Answered(i)') /\ (TakenOver(i) => TakenOver(i)')
<1>0. nextId \in Nat
  BY DEF TypeOK, FilesOK
<1>1. \A k \in Saved : report'[k] = report[k]
  BY RecordsStay
<1>2. \A k \in Saved : Answered(k) => Answered(k)'
  BY <1>1, RecordsStay DEF Answered, Exact, ExactReports
<1>3. 1 .. i - 1 \subseteq Saved
  BY <1>0
<1>. QED
  BY <1>1, <1>2, <1>3 DEF TakenOver

\* evaluate writes an allow for a clean scan, with a token in hand, or with a
\* decision taken over.
LEMMA DecisionsStep ==
  ASSUME TypeOK, Exact, StructuralIsNotListed, CarriedIsBacked,
         DecisionsComeFromTheUser, [Next]_vars
  PROVE  DecisionsComeFromTheUser'
<1>1. CASE \E t \in Txs : Save(t)
  <2>0. PICK t \in Txs : Save(t)
    BY <1>1
  <2>1. PICK o \in Outcomes(t) :
          report' = [i \in 1 .. nextId |->
            IF i = nextId THEN [b |-> cur[t], tx |-> t, decision |-> o.d,
                                eligible |-> o.e, auth |-> auth[t],
                                carried |-> carried[t]]
            ELSE report[i]]
    BY <2>0 DEF Save
  <2>2. PICK n \in Nat : n = nextId
    BY DEF TypeOK, FilesOK
  <2>3. /\ UNCHANGED asked /\ n # 0 /\ Saved = 1 .. n - 1
        /\ \A i \in Saved' : i = n \/ i \in Saved
    BY <2>0, <2>2 DEF Save, TypeOK, FilesOK, userVars
  <2>4. report'[n] = [b |-> cur[t], tx |-> t, decision |-> o.d, eligible |-> o.e,
                      auth |-> auth[t], carried |-> carried[t]]
    BY <2>1, <2>2, <2>3
  <2>5. ASSUME o.d = "allow", cur[t] \notin Clean
        PROVE  cur[t] \notin Structural /\ (Answered(n)' \/ TakenOver(n)')
    <3>1. CASE auth[t] # 0
      <4>1. asked[auth[t]].b = cur[t]
        BY <3>1 DEF Exact, ExactAuth
      <4>2. report'[n].auth = auth[t] /\ report'[n].b = cur[t]
        BY <2>4
      <4>3. Answered(n)'
        BY <2>3, <3>1, <4>1, <4>2 DEF Answered
      <4>. QED
        BY <3>1, <4>3 DEF StructuralIsNotListed
    <3>2. CASE auth[t] = 0
      <4>1. carried[t] # 0 /\ cur[t] \notin Structural
        BY <2>1, <2>5, <3>2 DEF Outcomes, AllFindingsDecided
      <4>2. PICK j \in Saved : j = carried[t]
        BY <4>1 DEF CarriedIsBacked
      <4>3. /\ report[j].tx = t /\ report[j].auth # 0
            /\ PhaseOf[report[j].b] = "pre" /\ PhaseOf[cur[t]] = "post"
            /\ <<report[j].b, cur[t]>> \in Covers
        BY <4>1, <4>2 DEF CarriedIsBacked
      <4>4. Answered(j)
        BY <4>3 DEF Answered, Exact, ExactReports
      <4>5. Answered(j)' /\ report'[j] = report[j]
        BY <4>4, DecisionStays, RecordsStay
      <4>6. report'[n].carried = j /\ report'[n].tx = t /\ report'[n].b = cur[t]
        BY <2>4, <4>2
      <4>7. j \in 1 .. n - 1
        BY <2>3
      <4>. QED
        BY <4>1, <4>3, <4>5, <4>6, <4>7 DEF TakenOver
    <3>. QED
      BY <3>1, <3>2
  <2>6. SUFFICES ASSUME NEW i \in Saved', report'[i].decision = "allow",
                        report'[i].b \notin Clean
                 PROVE  report'[i].b \notin Structural /\ (Answered(i)' \/ TakenOver(i)')
    BY DEF DecisionsComeFromTheUser
  <2>7. CASE i = n
    <3>1. report'[n].decision = o.d /\ report'[n].b = cur[t]
      BY <2>4
    <3>. QED
      BY <2>5, <2>6, <2>7, <3>1
  <2>8. CASE i \in Saved
    <3>1. report'[i] = report[i]
      BY <2>8, RecordsStay
    <3>2. report[i].b \notin Structural /\ (Answered(i) \/ TakenOver(i))
      BY <2>6, <2>8, <3>1 DEF DecisionsComeFromTheUser
    <3>. QED
      BY <2>8, <3>1, <3>2, DecisionStays
  <2>. QED
    BY <2>3, <2>7, <2>8
<1>2. CASE UNCHANGED <<report, nextId>>
  <2>. SUFFICES ASSUME NEW i \in Saved, report[i].decision = "allow",
                       report[i].b \notin Clean
                PROVE  report[i].b \notin Structural /\ (Answered(i)' \/ TakenOver(i)')
    BY <1>2 DEF DecisionsComeFromTheUser
  <2>. QED
    BY DecisionStays DEF DecisionsComeFromTheUser
<1>. QED
  BY <1>1, <1>2 DEF Next, TxNext, AnswerNext, Scan, ReviewNow, Rescan, BeginScan,
     ConsumeRead, ConsumeRename, AuthorizationSource, SweepOpen, SweepJudge,
     PrunePending, PruneIDs, PruneRemove, WriteMarker, CancelPending, EndTransaction,
     Approve, AnswerYes, AnswerNo, CreateCheck, CreateWrite, CreateFails, ListPending,
     ScanFails, vars, fileVars

\* An answer belongs to the process it was given to.
LEMMA HeldOwnStep ==
  ASSUME TypeOK, Exact, HeldIsOwn, [Next]_vars
  PROVE  HeldIsOwn'
<1>. USE DEF TypeOK, ConsumeOK, UserOK, HeldIsOwn, vars, userVars, tokenVars
<1>0. \A a \in Actors : held[a] # 0 => asked'[held[a]] = asked[held[a]]
  BY RecordsStay DEF Exact, ExactHeld
<1>1. CASE \E a \in Actors : AnswerYes(a)
  <2>1. PICK a \in Actors : AnswerYes(a)
    BY <1>1
  <2>2. asked'[nextConf].by = a /\ held' = [held EXCEPT ![a] = nextConf]
    BY <2>1 DEF AnswerYes
  <2>. QED
    BY <1>0, <2>2
<1>2. CASE \A a \in Actors : held'[a] \in {held[a], 0}
  BY <1>0, <1>2
<1>. QED
  BY <1>1, <1>2 DEF Next, TxNext, AnswerNext, Scan, ReviewNow, Rescan, BeginScan,
     ConsumeRead, ConsumeRename, AuthorizationSource, Save, SweepOpen, SweepJudge,
     PrunePending, PruneIDs, PruneRemove, WriteMarker, CancelPending, EndTransaction,
     Approve, AnswerNo, CreateCheck, CreateWrite, CreateFails, ListPending, ScanFails

\* An inline token's process goes on to the rescan, and from there to the cancel.
LEMMA InlineRescanStep ==
  ASSUME TypeOK, InlineIsRescanned, [Next]_vars
  PROVE  InlineIsRescanned'
<1>. USE DEF TypeOK, ProcOK, ConsumeOK, InlineIsRescanned, RescanPCs, vars, procVars,
            tokenVars
<1>1. CASE \E t \in Txs : Scan(t) \/ ReviewNow(t) \/ Rescan(t)
  BY <1>1 DEF Scan, ReviewNow, Rescan, BeginScan
<1>2. CASE \E t \in Txs : ConsumeRead(t) \/ ConsumeRename(t)
  BY <1>2 DEF ConsumeRead, ConsumeRename, Goto
<1>3. CASE \E t \in Txs : AuthorizationSource(t)
  BY <1>3 DEF AuthorizationSource, Goto, Exit
<1>4. CASE \E t \in Txs : Save(t)
  BY <1>4 DEF Save, Goto, Exit
<1>5. CASE \E t \in Txs : SweepOpen(t) \/ SweepJudge(t) \/ PrunePending(t) \/ PruneIDs(t)
  BY <1>5 DEF SweepOpen, SweepJudge, PrunePending, PruneIDs, Goto
<1>6. CASE \E t \in Txs : WriteMarker(t)
  BY <1>6 DEF WriteMarker, Goto, Exit
<1>7. CASE \E t \in Txs : CancelPending(t) \/ EndTransaction(t)
  BY <1>7 DEF CancelPending, EndTransaction, Exit
<1>8. CASE \E u \in Shells : Approve(u)
  BY <1>8 DEF Approve
<1>9. CASE \E a \in Actors : AnswerYes(a) \/ AnswerNo(a)
  BY <1>9 DEF AnswerYes, AnswerNo, Goto, Exit
<1>10. CASE \E a \in Actors : CreateCheck(a)
  BY <1>10 DEF CreateCheck, Goto, Exit
<1>11. CASE \E a \in Actors : CreateWrite(a)
  BY <1>11 DEF CreateWrite, Goto, Exit
<1>12. CASE (\E t \in Txs : PruneRemove(t)) \/ UNCHANGED vars
  BY <1>12 DEF PruneRemove
<1>13. CASE \E t \in Txs : ListPending(t) \/ ScanFails(t)
  BY <1>13 DEF ListPending, ScanFails, Goto, Exit
<1>14. CASE \E a \in Actors : CreateFails(a)
  BY <1>14 DEF CreateFails, Exit
<1>. QED
  BY <1>1, <1>2, <1>3, <1>4, <1>5, <1>6, <1>7, <1>8, <1>9, <1>10, <1>11, <1>12, <1>13,
     <1>14 DEF Next, TxNext, AnswerNext

\* A token written for an inline answer is known to its process until it is spent
\* or cancelled (createInlineToken, ApprovalStore.CancelPending).
LEMMA InlinePendingStep ==
  ASSUME TypeOK, Located, Exact, HeldIsOwn, InlineIsPending, InlineIsRescanned,
         [Next]_vars
  PROVE  InlineIsPending'
<1>. USE DEF TypeOK, FilesOK, ProcOK, ConsumeOK, InlineIsPending, vars, procVars,
            tokenVars, fileVars, userVars
<1>0. \A i \in Ids : pending[i] # 0 => asked'[pending[i]] = asked[pending[i]]
  BY RecordsStay DEF Exact, ExactPending
<1>1. CASE \E a \in Actors : CreateWrite(a)
  <2>1. PICK a \in Actors : CreateWrite(a)
    BY <1>1
  <2>2. /\ rid[a] \in Ids /\ pending' = [pending EXCEPT ![rid[a]] = held[a]]
        /\ UNCHANGED asked
    BY <2>1, SavedType DEF CreateWrite, Located, ReportIsSaved, userVars
  <2>3. held[a] # 0 => asked[held[a]].by = a
    BY DEF HeldIsOwn
  <2>4. CASE a \in Txs
    <3>1. inline[a] = 0 /\ inline' = [inline EXCEPT ![a] = rid[a]] /\ pc[a] # "dead"
      BY <2>1, <2>4 DEF CreateWrite, InlineIsRescanned, RescanPCs
    <3>2. \A t \in Txs : t # a => pc'[t] = pc[t] /\ inline'[t] = inline[t]
      BY <2>1, <2>4, <3>1 DEF CreateWrite, Goto
    <3>3. UNCHANGED stranded /\ inline'[a] = rid[a]
          /\ \A i \in Ids : IF i = rid[a] THEN pending'[i] = held[a]
                            ELSE pending'[i] = pending[i]
      <4>1. UNCHANGED stranded
        BY <2>1 DEF CreateWrite
      <4>2. inline'[a] = rid[a]
        BY <2>4, <3>1
      <4>3. \A i \in Ids : IF i = rid[a] THEN pending'[i] = held[a]
                          ELSE pending'[i] = pending[i]
        BY <2>2
      <4>. QED
        BY <4>1, <4>2, <4>3
    <3>4. SUFFICES ASSUME NEW t \in Txs, NEW i \in Ids, pending'[i] # 0,
                          asked[pending'[i]].by = t
                   PROVE  pc'[t] = "dead" \/ inline'[t] = i \/ pending'[i] \in stranded
      BY <2>2, <3>3
    <3>5. CASE i = rid[a]
      BY <2>3, <3>3, <3>4, <3>5
    <3>6. CASE i # rid[a]
      BY <3>1, <3>2, <3>3, <3>4, <3>6
    <3>. QED
      BY <3>5, <3>6
  <2>5. CASE a \notin Txs
    <3>1. \A t \in Txs : t # a /\ pc'[t] = pc[t] /\ inline'[t] = inline[t]
      BY <2>1, <2>5 DEF CreateWrite, Exit
    <3>2. UNCHANGED stranded
          /\ \A i \in Ids : IF i = rid[a] THEN pending'[i] = held[a]
                            ELSE pending'[i] = pending[i]
      BY <2>1, <2>2 DEF CreateWrite
    <3>. QED
      BY <2>2, <2>3, <3>1, <3>2
  <2>. QED
    BY <2>4, <2>5
<1>2. CASE \E t \in Txs : CancelPending(t)
  <2>1. PICK t \in Txs : CancelPending(t)
    BY <1>2
  <2>2. /\ \/ /\ \A i \in Ids : pending'[i] = IF i = inline[t] THEN 0 ELSE pending[i]
              /\ UNCHANGED stranded
           \/ /\ UNCHANGED pending
              /\ stranded' = stranded \cup {c \in Confs : c = pending[inline[t]]}
        /\ UNCHANGED asked
    BY <2>1 DEF CancelPending
  <2>3. \A u \in Txs : u # t => pc'[u] = pc[u] /\ inline'[u] = inline[u]
    BY <2>1 DEF CancelPending, Exit
  <2>4. pc[t] # "dead"
    BY <2>1 DEF CancelPending
  <2>. QED
    BY <2>2, <2>3, <2>4
<1>3. CASE \E t \in Txs : EndTransaction(t)
  <2>1. PICK t \in Txs : EndTransaction(t)
    BY <1>3
  <2>2. /\ UNCHANGED <<pending, asked, stranded>> /\ pc'[t] = "dead"
        /\ \A u \in Txs : u # t => pc'[u] = pc[u] /\ inline'[u] = inline[u]
    BY <2>1 DEF EndTransaction, Exit, userVars
  <2>. QED
    BY <2>2
<1>13. CASE \E a \in Actors : CreateFails(a)
  <2>1. PICK a \in Actors : CreateFails(a)
    BY <1>13
  <2>2. /\ \A t \in Txs : pc[t] = "dead" => pc'[t] = "dead"
        /\ UNCHANGED <<inline, asked>> /\ stranded \subseteq stranded'
        /\ \A i \in Ids : pending'[i] = pending[i] \/ pending'[i] \in stranded'
    BY <2>1 DEF CreateFails, Exit
  <2>. QED
    BY <2>2
<1>4. ASSUME UNCHANGED <<inline, stranded>>,
             \A i \in Ids : pending'[i] \in {pending[i], 0},
             \A t \in Txs : pc[t] = "dead" => pc'[t] = "dead"
      PROVE  InlineIsPending'
  BY <1>0, <1>4
<1>5. CASE \E t \in Txs : Scan(t) \/ ReviewNow(t) \/ Rescan(t)
  BY <1>4, <1>5 DEF Scan, ReviewNow, Rescan, BeginScan
<1>6. CASE \E t \in Txs : ConsumeRead(t) \/ ConsumeRename(t)
  <2>1. CASE \E t \in Txs : ConsumeRead(t)
    BY <1>4, <2>1 DEF ConsumeRead, Goto
  <2>2. CASE \E t \in Txs : ConsumeRename(t)
    BY <1>4, <2>2 DEF ConsumeRename, Goto
  <2>. QED
    BY <1>6, <2>1, <2>2
<1>7. CASE \E t \in Txs : AuthorizationSource(t) \/ Save(t)
  BY <1>4, <1>7 DEF AuthorizationSource, Save, Goto, Exit
<1>8. CASE \E t \in Txs : SweepOpen(t) \/ SweepJudge(t) \/ PrunePending(t) \/ PruneIDs(t)
  BY <1>4, <1>8 DEF SweepOpen, SweepJudge, PrunePending, PruneIDs, Goto
<1>9. CASE \E t \in Txs : PruneRemove(t) \/ WriteMarker(t)
  BY <1>4, <1>9 DEF PruneRemove, WriteMarker, Goto, Exit
<1>10. CASE \E u \in Shells : Approve(u)
  BY <1>4, <1>10 DEF Approve
<1>11. CASE \E a \in Actors : AnswerYes(a) \/ AnswerNo(a) \/ CreateCheck(a)
  BY <1>4, <1>11 DEF AnswerYes, AnswerNo, CreateCheck, Goto, Exit
<1>12. CASE UNCHANGED vars
  BY <1>4, <1>12
<1>14. CASE \E t \in Txs : ListPending(t) \/ ScanFails(t)
  BY <1>4, <1>14 DEF ListPending, ScanFails, Goto, Exit
<1>. QED
  BY <1>1, <1>2, <1>3, <1>5, <1>6, <1>7, <1>8, <1>9, <1>10, <1>11, <1>12, <1>13, <1>14
     DEF Next, TxNext, AnswerNext

\* A larger set of reports has no fewer members.
LEMMA MoreNewer ==
  ASSUME NEW T, IsFiniteSet(T), NEW S \in SUBSET T, NEW n \in Int, Cardinality(S) >= n
  PROVE  Cardinality(T) >= n
<1>1. IsFiniteSet(S) /\ Cardinality(S) <= Cardinality(T)
  BY FS_Subset
<1>2. Cardinality(S) \in Nat /\ Cardinality(T) \in Nat
  BY <1>1, FS_CardinalityType
<1>. QED
  BY <1>1, <1>2

\* The reports of the store are finitely many.
LEMMA NamesAreFinite ==
  ASSUME NEW n \in Int, NEW S \in SUBSET (1 .. n - 1)
  PROVE  IsFiniteSet(S) /\ S \subseteq Int /\ \A i : IsFiniteSet(Newer(S, i))
<1>0. IsFiniteSet(1 .. n - 1)
  BY FS_Interval
<1>1. IsFiniteSet(S)
  BY <1>0, FS_Subset
<1>2. \A i : Newer(S, i) \in SUBSET S
  BY DEF Newer
<1>. QED
  BY <1>1, <1>2, FS_Subset

\* Prune removes the oldest names, each in a step of its own, and no other process
\* removes a newer one that is not itself that old (ReportStore.Prune).
LEMMA VictimStep ==
  ASSUME TypeOK, TypeOK', VictimsAreOld, [Next]_vars
  PROVE  /\ VictimsAreOld'
         /\ \A i \in store \ store' : Cardinality(Newer(store', i)) >= Retention
<1>. USE DEF VictimsAreOld, vars, fileVars, pruneVars
<1>0. /\ store \subseteq Int /\ store' \subseteq Int /\ Retention \in Int
      /\ \A i : IsFiniteSet(Newer(store', i))
      /\ \A t \in Txs : victims[t] \subseteq Ids
  <2>1. nextId \in Int /\ store \in SUBSET (1 .. nextId - 1)
    BY DEF TypeOK, FilesOK
  <2>2. nextId' \in Int /\ store' \in SUBSET (1 .. nextId' - 1)
    <3>1. FilesOK'
      BY DEF TypeOK
    <3>2. nextId' \in 1 .. MaxReports + 1
      BY <3>1 DEF FilesOK
    <3>3. store' \subseteq Saved'
      BY <3>1 DEF FilesOK
    <3>4. nextId' \in Int
      BY <3>2
    <3>. QED
      BY <3>3, <3>4
  <2>3. /\ store \subseteq Int /\ store' \subseteq Int
        /\ \A i : IsFiniteSet(Newer(store', i))
    BY <2>1, <2>2, NamesAreFinite
  <2>. QED
    BY <2>3 DEF TypeOK, PruneOK
<1>1. ASSUME store \subseteq store', \A t \in Txs : victims'[t] \subseteq victims[t]
      PROVE  VictimsAreOld' /\ store \ store' = {}
  <2>. SUFFICES ASSUME NEW t \in Txs, NEW i \in victims[t]
                PROVE  Cardinality(Newer(store', i)) >= Retention
    BY <1>1
  <2>1. Newer(store, i) \in SUBSET Newer(store', i) /\ Cardinality(Newer(store, i)) >= Retention
    BY <1>1 DEF Newer
  <2>. QED
    BY <1>0, <2>1, MoreNewer
<1>2. CASE \E t \in Txs : PruneIDs(t)
  <2>1. PICK t \in Txs : PruneIDs(t)
    BY <1>2
  <2>2. /\ UNCHANGED store
        /\ \A u \in Txs : u # t => victims'[u] = victims[u]
        /\ victims'[t] \subseteq Older(store)
    BY <2>1 DEF PruneIDs, TypeOK, PruneOK
  <2>3. \A i \in Older(store) : Cardinality(Newer(store, i)) >= Retention
    BY DEF Older, Newer
  <2>. QED
    BY <2>2, <2>3
<1>3. CASE \E t \in Txs : PruneRemove(t)
  <2>1. PICK t \in Txs, i \in Ids :
          /\ i \in victims[t] /\ store' = store \ {i}
          /\ \A u \in Txs : victims'[u] \subseteq victims[u]
    BY <1>3 DEF PruneRemove, TypeOK, PruneOK
  <2>2. Newer(store', i) = Newer(store, i) /\ Cardinality(Newer(store, i)) >= Retention
    BY <1>0, <2>1 DEF Newer
  <2>3. ASSUME NEW u \in Txs, NEW k \in victims[u]
        PROVE  Cardinality(Newer(store', k)) >= Retention
    <3>0. k \in Int /\ i \in Int
      BY <1>0
    <3>1. CASE k >= i
      <4>1. Newer(store', k) = Newer(store, k)
        BY <1>0, <2>1, <3>0, <3>1 DEF Newer
      <4>. QED
        BY <4>1
    <3>2. CASE k < i
      <4>1. \A j \in store' : j > i => j > k
        BY <1>0, <3>0, <3>2
      <4>2. Newer(store', i) \in SUBSET Newer(store', k)
        BY <4>1 DEF Newer
      <4>. QED
        BY <1>0, <2>2, <4>2, MoreNewer
    <3>. QED
      BY <3>0, <3>1, <3>2
  <2>. QED
    BY <2>1, <2>2, <2>3
<1>4. CASE \E t \in Txs : Save(t)
  BY <1>1, <1>4 DEF Save
<1>5. CASE \E t \in Txs : EndTransaction(t)
  <2>1. store' = store /\ \A u \in Txs : victims'[u] \subseteq victims[u]
    BY <1>5 DEF EndTransaction, TypeOK, PruneOK
  <2>. QED
    BY <1>1, <2>1
<1>6. CASE UNCHANGED <<store, victims>>
  BY <1>1, <1>6
<1>. QED
  BY <1>2, <1>3, <1>4, <1>5, <1>6 DEF Next, TxNext, AnswerNext, Scan, ReviewNow, Rescan,
     BeginScan, ConsumeRead, ConsumeRename, AuthorizationSource, SweepOpen, SweepJudge,
     PrunePending, WriteMarker, CancelPending, Approve, AnswerYes, AnswerNo,
     CreateCheck, CreateWrite, CreateFails, ListPending, ScanFails

\* The second invariant, on top of the first.
THEOREM StoreInductive == Spec => []StoreInv
<1>. USE DEF StoreInv, IInv
<1>1. Init => StoreInv
  <2>1. Init => /\ MarkersAreSaved /\ MarkersAreTransactionLocal /\ ListingEnds
                /\ StructuralIsNotListed /\ VictimsAreOld /\ CarriedIsBacked
    BY DEF Init, MarkersAreSaved, MarkersAreTransactionLocal, ListingEnds,
       StructuralIsNotListed, VictimsAreOld, CarriedIsBacked, Slots
  <2>2. Init => /\ ScansOwnTheirReports /\ DecisionsComeFromTheUser /\ HeldIsOwn
                /\ InlineIsPending /\ InlineIsRescanned
    BY DEF Init, ScansOwnTheirReports, DecisionsComeFromTheUser, HeldIsOwn,
       InlineIsPending, InlineIsRescanned
  <2>. QED
    BY <2>1, <2>2
<1>2. IInv /\ IInv' /\ StoreInv /\ [Next]_vars => StoreInv'
  BY OwnReportStep, MarkerStep, ListingStep, CarriedStep, DecisionsStep, HeldOwnStep,
     InlineRescanStep, InlinePendingStep, VictimStep
<1>. QED
  BY <1>1, <1>2, Inductive, PTL DEF Spec

\* The decision of one yay is never read as that of another for the same checkout
\* (markerLocation names the transaction).
THEOREM LocalMarkers == Spec => []MarkersAreTransactionLocal
<1>1. StoreInv => MarkersAreTransactionLocal
  BY DEF StoreInv
<1>. QED
  BY <1>1, StoreInductive, PTL

\* Blocked content is allowed only on an answer about it, or about the recipe its own
\* transaction overrode, for any findings, any relation of recipes to contents and any
\* number of transactions, shells and prunes between them (evaluate, carriedDecision).
THEOREM DecisionsFromTheUser == Spec => []DecisionsComeFromTheUser
<1>1. StoreInv => DecisionsComeFromTheUser
  BY DEF StoreInv
<1>. QED
  BY <1>1, StoreInductive, PTL

\* When its scan ends, an inline answer is spent or cancelled or the call to write or
\* cancel it had failed, whatever other processes do with the pending tokens meanwhile
\* (runScan).
THEOREM InlineTokensEnd == Spec => []InlineAnswersDieWithTheirScan
<1>1. StoreInv => InlineAnswersDieWithTheirScan
  BY DEF StoreInv, InlineIsPending, InlineIsRescanned, InlineAnswersDieWithTheirScan,
     RescanPCs
<1>. QED
  BY <1>1, StoreInductive, PTL

\* Concurrent prunes never remove one of the newest Retention reports
\* (ReportStore.Prune).
THEOREM NewestKept == Spec => PruneKeepsTheNewest
<1>1. IInv /\ IInv' /\ StoreInv /\ [Next]_vars =>
        [\A i \in store \ store' : Cardinality({j \in store' : j > i}) >= Retention]_vars
  BY VictimStep DEF IInv, StoreInv, Newer
<1>. QED
  BY <1>1, Inductive, StoreInductive, PTL DEF Spec, PruneKeepsTheNewest
=============================================================================

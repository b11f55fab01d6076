--------------------------- MODULE JobQueueProofs ---------------------------
(***************************************************************************)
(* Proofs about JobQueue, for all jobs, workers, closers and bounds.       *)
(***************************************************************************)
EXTENDS JobQueue, FiniteSetTheorems, TLAPS

\* An idle queue with an empty jobs table is well typed.
LEMMA TypeInit == Init => TypeOK
<1> SUFFICES ASSUME Init PROVE TypeOK
  OBVIOUS
<1> USE JobQueueAssumption DEF Init
<1>1. TableOK
  BY DEF TableOK, Status
<1>2. MainOK
  BY DEF MainOK, MainPcs, Results
<1>3. BufOK
  BY DEF BufOK
<1>4. WorkersOK
  BY DEF WorkersOK, WPcs, JobCopy, NoJob, Status
<1>5. CloseOK
  BY DEF CloseOK, CPcs
<1>6. QED
  BY <1>1, <1>2, <1>3, <1>4, <1>5 DEF TypeOK

\* What processJob does to a job whose handler failed: it stays the same job,
\* keeps its type, and its status stays or becomes failed.
LEMMA RetriedType ==
  ASSUME NEW c \in JobCopy, c.id \in Jobs
  PROVE  /\ Retried(c) \in JobCopy
         /\ Retried(c).id = c.id
         /\ Retried(c).status \in {c.status, "failed"}
<1> DEFINE limit == TryLimit[TypeOf[c.id]]
           tries == IF limit # 0 THEN c.tryCount + 1 ELSE c.tryCount
<1>1. limit \in Nat /\ tries \in Nat
  BY JobQueueAssumption DEF JobCopy
<1>2. [c EXCEPT !.tryCount = tries, !.status = "failed"] \in JobCopy
  BY <1>1 DEF JobCopy, Status
<1>3. [c EXCEPT !.tryCount = tries, !.due = FALSE] \in JobCopy
  BY <1>1 DEF JobCopy, Status
<1> HIDE DEF limit, tries
<1>4. \/ Retried(c) = [c EXCEPT !.tryCount = tries, !.status = "failed"]
      \/ Retried(c) = [c EXCEPT !.tryCount = tries, !.due = FALSE]
  BY DEF Retried, limit, tries
<1>5. QED
  BY <1>2, <1>3, <1>4 DEF JobCopy

\* No operation of the queue, of its callers or of a fault leaves the types.
LEMMA TypeStep == TypeOK /\ [Next]_vars => TypeOK'
<1> SUFFICES ASSUME TypeOK, [Next]_vars PROVE TypeOK'
  OBVIOUS
<1> USE JobQueueAssumption DEF TypeOK, table, mainV, workV, closeV
<1>1. CASE ProcessStart
  <2>1. MainOK'
    BY <1>1 DEF ProcessStart, MainOK, MainPcs, Results
  <2>2. BufOK'
    BY <1>1 DEF ProcessStart, BufOK
  <2>3. WorkersOK'
    BY <1>1 DEF ProcessStart, WorkersOK, WPcs, JobCopy, NoJob, Status
  <2>4. CloseOK'
    BY <1>1 DEF ProcessStart, CloseOK, CPcs
  <2>5. QED
    BY <1>1, <2>1, <2>2, <2>3, <2>4 DEF ProcessStart, TableOK
<1>2. CASE MainPoll
  <2>1. MainOK'
    BY <1>2 DEF MainPoll, MainOK, MainPcs, Results, CheckExit, MainStops
  <2>2. CloseOK'
    BY <1>2 DEF MainPoll, CloseOK, CPcs, CheckExit, MainStops
  <2>3. QED
    BY <1>2, <2>1, <2>2 DEF MainPoll, TableOK, BufOK, WorkersOK
<1>3. CASE MainCollect
  <2>1. MainOK'
    BY <1>3 DEF MainCollect, MainOK, MainPcs, Results, Representatives, Collected
  <2>2. QED
    BY <1>3, <2>1 DEF MainCollect, TableOK, BufOK, WorkersOK, CloseOK
<1>4. CASE MainNextRow
  <2>1. MainOK'
    BY <1>4 DEF MainNextRow, MainOK, MainPcs, Results, CheckExit, MainStops
  <2>2. CloseOK'
    BY <1>4 DEF MainNextRow, CloseOK, CPcs, CheckExit, MainStops
  <2>3. QED
    BY <1>4, <2>1, <2>2 DEF MainNextRow, TableOK, BufOK, WorkersOK
<1>5. CASE MainSend
  <2>1. MainOK'
    BY <1>5 DEF MainSend, MainOK, MainPcs, Results
  <2>2. BufOK'
    BY <1>5 DEF MainSend, BufOK, MainOK, uuidWorker
  <2>3. QED
    BY <1>5, <2>1, <2>2 DEF MainSend, TableOK, WorkersOK, CloseOK
<1>6. CASE MainSleep
  <2>1. MainOK'
    BY <1>6 DEF MainSleep, MainOK, MainPcs, Results
  <2>2. QED
    BY <1>6, <2>1 DEF MainSleep, TableOK, BufOK, WorkersOK, CloseOK
<1>7. CASE MainJoin
  <2>1. MainOK'
    BY <1>7 DEF MainJoin, MainOK, MainPcs, Results
  <2>2. QED
    BY <1>7, <2>1 DEF MainJoin, TableOK, BufOK, WorkersOK, CloseOK
<1>8. CASE MainTellExited
  <2>1. MainOK'
    BY <1>8 DEF MainTellExited, MainOK, MainPcs, Results
  <2>2. CloseOK'
    BY <1>8 DEF MainTellExited, CloseOK, CPcs
  <2>3. QED
    BY <1>8, <2>1, <2>2 DEF MainTellExited, TableOK, BufOK, WorkersOK
<1>9. CASE ProcessReturn
  <2>1. MainOK'
    BY <1>9 DEF ProcessReturn, MainOK, MainPcs, Results
  <2>2. WorkersOK'
    BY <1>9 DEF ProcessReturn, WorkersOK, WPcs, JobCopy, NoJob, Status
  <2>3. CloseOK'
    BY <1>9 DEF ProcessReturn, CloseOK, CPcs
  <2>4. QED
    BY <1>9, <2>1, <2>2, <2>3 DEF ProcessReturn, TableOK, BufOK
<1>10. CASE MainError
  <2>1. MainOK'
    BY <1>10 DEF MainError, MainOK, MainPcs, Results, MainStops
  <2>2. QED
    BY <1>10, <2>1 DEF MainError, TableOK, BufOK, WorkersOK, CloseOK
<1>11. CASE Crash
  <2>1. TableOK'
    BY <1>11 DEF Crash, TableOK, Status, JobCopy
  <2>2. MainOK'
    <3>1. faults' \in [db : Nat, tx : Nat, crash : Nat]
      <4>1. faults' = [faults EXCEPT !.crash = faults.crash + 1]
        BY <1>11 DEF Crash
      <4>2. QED
        BY <4>1 DEF MainOK
    <3>2. QED
      BY <1>11, <3>1 DEF Crash, MainOK, MainPcs, Results
  <2>3. BufOK'
    BY <1>11 DEF Crash, BufOK
  <2>4. WorkersOK'
    BY <1>11 DEF Crash, WorkersOK, WPcs, JobCopy, NoJob, Status
  <2>5. CloseOK'
    BY <1>11 DEF Crash, CloseOK, CPcs
  <2>6. QED
    BY <2>1, <2>2, <2>3, <2>4, <2>5
<1>12. CASE ReactivateSave
  <2>1. TableOK'
    BY <1>12 DEF ReactivateSave, TableOK, Status, JobCopy, Save
  <2>2. QED
    BY <1>12, <2>1 DEF ReactivateSave, MainOK, BufOK, WorkersOK, CloseOK
<1>13. ASSUME NEW j \in Jobs, AddCheck(j) PROVE TypeOK'
  <2>1. TableOK'
    BY <1>13 DEF AddCheck, TableOK, Status, JobCopy
  <2>2. QED
    BY <1>13, <2>1 DEF AddCheck, MainOK, BufOK, WorkersOK, CloseOK
<1>14. ASSUME NEW j \in Jobs, AddInsert(j) PROVE TypeOK'
  <2>1. TableOK'
    BY <1>14 DEF AddInsert, TableOK, Status, JobCopy, InsertJob
  <2>2. QED
    BY <1>14, <2>1 DEF AddInsert, MainOK, BufOK, WorkersOK, CloseOK
<1>15. ASSUME NEW j \in Jobs, AddAbort(j) PROVE TypeOK'
  <2>1. TableOK'
    BY <1>15 DEF AddAbort, TableOK, Status, JobCopy
  <2>2. QED
    BY <1>15, <2>1 DEF AddAbort, MainOK, BufOK, WorkersOK, CloseOK
<1>16. ASSUME NEW j \in Jobs, TerminateChannel(j) PROVE TypeOK'
  <2>1. TableOK'
    BY <1>16 DEF TerminateChannel, TableOK, Status, JobCopy
  <2>2. QED
    BY <1>16, <2>1 DEF TerminateChannel, MainOK, BufOK, WorkersOK, CloseOK
<1>17. ASSUME NEW j \in Jobs, ReactivateRead(j) PROVE TypeOK'
  <2>1. TableOK'
    BY <1>17 DEF ReactivateRead, TableOK, Status, JobCopy
  <2>2. QED
    BY <1>17, <2>1 DEF ReactivateRead, MainOK, BufOK, WorkersOK, CloseOK
<1>18. ASSUME NEW j \in Jobs, Elapse(j) PROVE TypeOK'
  <2>1. TableOK'
    BY <1>18 DEF Elapse, TableOK, Status, JobCopy
  <2>2. QED
    BY <1>18, <2>1 DEF Elapse, MainOK, BufOK, WorkersOK, CloseOK
<1>19. ASSUME NEW w \in Workers, WorkerRecv(w) PROVE TypeOK'
  <2>1. BufOK'
    BY <1>19 DEF WorkerRecv, BufOK
  <2>2. WorkersOK'
    <3>1. Head(buf[w]) \in Jobs
      BY <1>19 DEF WorkerRecv, BufOK
    <3>2. [NoJob EXCEPT !.id = Head(buf[w])] \in JobCopy
      BY <3>1 DEF NoJob, JobCopy, Status
    <3>3. loc' \in [Workers -> JobCopy] /\ loc'[w].id \in Jobs
      BY <1>19, <3>1, <3>2 DEF WorkerRecv, WorkersOK, NoJob
    <3>4. \A v \in Workers \ {w} : loc'[v] = loc[v] /\ wpc'[v] = wpc[v]
      BY <1>19 DEF WorkerRecv, WorkersOK, Goto
    <3>5. QED
      BY <1>19, <3>3, <3>4 DEF WorkerRecv, WorkersOK, WPcs, Goto
  <2>3. QED
    BY <1>19, <2>1, <2>2 DEF WorkerRecv, TableOK, MainOK, CloseOK
<1>20. ASSUME NEW w \in Workers, WorkerEnd(w) PROVE TypeOK'
  <2>1. WorkersOK'
    BY <1>20 DEF WorkerEnd, WorkersOK, WPcs, JobCopy, NoJob, Status, Goto
  <2>2. QED
    BY <1>20, <2>1 DEF WorkerEnd, TableOK, MainOK, BufOK, CloseOK
<1>21. ASSUME NEW w \in Workers, WorkerLookup(w) PROVE TypeOK'
  <2>1. WorkersOK'
    <3> DEFINE j == loc[w].id
    <3>1. j \in Jobs
      BY <1>21 DEF WorkerLookup, WorkersOK
    <3>2. [id |-> j, status |-> status[j], tryCount |-> tryCount[j], due |-> due[j]] \in JobCopy
      BY <3>1 DEF TableOK, JobCopy
    <3>3. NoJob \in JobCopy
      BY DEF NoJob, JobCopy, Status
    <3>4. wpc' \in [Workers -> WPcs] /\ wres' \in [Workers -> BOOLEAN]
      BY <1>21 DEF WorkerLookup, WorkersOK, WPcs, Goto
    <3>5. loc' \in [Workers -> JobCopy]
      BY <1>21, <3>2, <3>3 DEF WorkerLookup, WorkersOK, Forget
    <3>6. wpc'[w] = "run" => loc'[w].id \in Jobs
      BY <1>21, <3>1 DEF WorkerLookup, WorkersOK, Goto
    <3>7. wpc'[w] \in {"recv", "signal", "run"}
      BY <1>21 DEF WorkerLookup, WorkersOK, Goto
    <3>8. \A v \in Workers \ {w} : loc'[v] = loc[v] /\ wpc'[v] = wpc[v]
      BY <1>21 DEF WorkerLookup, WorkersOK, Goto, Forget
    <3>9. QED
      BY <3>4, <3>5, <3>6, <3>7, <3>8 DEF WorkersOK
  <2>2. QED
    BY <1>21, <2>1 DEF WorkerLookup, TableOK, MainOK, BufOK, CloseOK
<1>22. ASSUME NEW w \in Workers, WorkerRun(w) PROVE TypeOK'
  <2>1. WorkersOK'
    <3>1. loc[w] \in JobCopy /\ loc[w].id \in Jobs
      BY <1>22 DEF WorkerRun, WorkersOK
    <3>2. Retried(loc[w]) \in JobCopy /\ Retried(loc[w]).id = loc[w].id
      BY <3>1, RetriedType
    <3>3. loc' \in [Workers -> JobCopy] /\ loc'[w].id \in Jobs
      <4>1. [loc[w] EXCEPT !.status = "done"] \in JobCopy
        BY <3>1 DEF JobCopy, Status
      <4>2. loc' = [loc EXCEPT ![w] = [loc[w] EXCEPT !.status = "done"]]
              \/ loc' = [loc EXCEPT ![w] = Retried(loc[w])]
        BY <1>22 DEF WorkerRun
      <4>3. [loc[w] EXCEPT !.status = "done"].id = loc[w].id
        BY <3>1 DEF JobCopy
      <4>4. \E c \in JobCopy : c.id \in Jobs /\ loc' = [loc EXCEPT ![w] = c]
        BY <3>1, <3>2, <4>1, <4>2, <4>3
      <4>5. loc \in [Workers -> JobCopy]
        BY DEF WorkersOK
      <4>6. QED
        BY <4>4, <4>5
    <3>4. \A v \in Workers \ {w} : loc'[v] = loc[v] /\ wpc'[v] = wpc[v]
      BY <1>22 DEF WorkerRun, WorkersOK, Goto
    <3>5. QED
      BY <1>22, <3>3, <3>4 DEF WorkerRun, WorkersOK, WPcs, Goto
  <2>2. QED
    BY <1>22, <2>1 DEF WorkerRun, TableOK, MainOK, BufOK, CloseOK
<1>23. ASSUME NEW w \in Workers, WorkerRecheck(w) PROVE TypeOK'
  <2>1. WorkersOK'
    BY <1>23 DEF WorkerRecheck, WorkersOK, WPcs, JobCopy, NoJob, Status, Goto
  <2>2. QED
    BY <1>23, <2>1 DEF WorkerRecheck, TableOK, MainOK, BufOK, CloseOK
<1>24. ASSUME NEW w \in Workers, WorkerSave(w) PROVE TypeOK'
  <2>1. TableOK'
    BY <1>24 DEF WorkerSave, TableOK, Status, JobCopy, WorkersOK, Save
  <2>2. WorkersOK'
    BY <1>24 DEF WorkerSave, WorkersOK, WPcs, JobCopy, NoJob, Status, Goto, Forget
  <2>3. QED
    BY <1>24, <2>1, <2>2 DEF WorkerSave, MainOK, BufOK, CloseOK
<1>25. ASSUME NEW w \in Workers, WorkerSignal(w) PROVE TypeOK'
  <2>1. WorkersOK'
    BY <1>25 DEF WorkerSignal, WorkersOK, WPcs, JobCopy, NoJob, Status, Goto
  <2>2. CloseOK'
    BY <1>25 DEF WorkerSignal, CloseOK, CPcs
  <2>3. QED
    BY <1>25, <2>1, <2>2 DEF WorkerSignal, TableOK, MainOK, BufOK
<1>26. ASSUME NEW w \in Workers, WorkerDrain(w) PROVE TypeOK'
  <2>1. BufOK'
    BY <1>26 DEF WorkerDrain, BufOK
  <2>2. WorkersOK'
    BY <1>26 DEF WorkerDrain, WorkersOK, WPcs, JobCopy, NoJob, Status, Goto
  <2>3. QED
    BY <1>26, <2>1, <2>2 DEF WorkerDrain, TableOK, MainOK, CloseOK
<1>27. ASSUME NEW w \in Workers, WorkerError(w) PROVE TypeOK'
  <2>1. MainOK'
    BY <1>27 DEF WorkerError, MainOK, MainPcs, Results
  <2>2. WorkersOK'
    BY <1>27 DEF WorkerError, WorkersOK, WPcs, JobCopy, NoJob, Status, Goto, Forget
  <2>3. QED
    BY <1>27, <2>1, <2>2 DEF WorkerError, TableOK, BufOK, CloseOK
<1>28. ASSUME NEW w \in Workers, WorkerRecheckError(w) PROVE TypeOK'
  <2>1. MainOK'
    BY <1>28 DEF WorkerRecheckError, MainOK, MainPcs, Results
  <2>2. WorkersOK'
    BY <1>28 DEF WorkerRecheckError, WorkersOK, WPcs, JobCopy, NoJob, Status, Goto, Forget
  <2>3. QED
    BY <1>28, <2>1, <2>2 DEF WorkerRecheckError, TableOK, BufOK, CloseOK
<1>29. ASSUME NEW c \in Closers, CloseCall(c) PROVE TypeOK'
  <2>1. CloseOK'
    BY <1>29 DEF CloseCall, CloseOK, CPcs
  <2>2. QED
    BY <1>29, <2>1 DEF CloseCall, TableOK, MainOK, BufOK, WorkersOK
<1>30. ASSUME NEW c \in Closers, CloseLock(c) PROVE TypeOK'
  <2>1. CloseOK'
    BY <1>30 DEF CloseLock, CloseOK, CPcs
  <2>2. QED
    BY <1>30, <2>1 DEF CloseLock, TableOK, MainOK, BufOK, WorkersOK
<1>31. ASSUME NEW c \in Closers, CloseAsk(c) PROVE TypeOK'
  <2>1. CloseOK'
    BY <1>31 DEF CloseAsk, CloseOK, CPcs
  <2>2. QED
    BY <1>31, <2>1 DEF CloseAsk, TableOK, MainOK, BufOK, WorkersOK
<1>32. ASSUME NEW c \in Closers, CloseReturn(c) PROVE TypeOK'
  <2>1. CloseOK'
    BY <1>32 DEF CloseReturn, CloseOK, CPcs
  <2>2. QED
    BY <1>32, <2>1 DEF CloseReturn, TableOK, MainOK, BufOK, WorkersOK
<1>33. CASE UNCHANGED vars
  BY <1>33 DEF vars, TableOK, MainOK, BufOK, WorkersOK, CloseOK
<1>34. QED
  BY <1>1, <1>2, <1>3, <1>4, <1>5, <1>6, <1>7, <1>8, <1>9, <1>10, <1>11, <1>12, <1>13, <1>14, <1>15, <1>16, <1>17, <1>18, <1>19, <1>20, <1>21, <1>22, <1>23, <1>24, <1>25, <1>26, <1>27, <1>28, <1>29, <1>30, <1>31, <1>32, <1>33 DEF Next, MainNext, WorkerNext, CloserNext, JobNext, FaultNext

\* The type invariant holds in every reachable state of the queue.
THEOREM TypeCorrect == Spec => []TypeOK
  BY TypeInit, TypeStep, PTL DEF Spec

-----------------------------------------------------------------------------
(* Routing, and mutual exclusion of the handlers of one related object.    *)

\* Nothing is on its way to a worker at first.
LEMMA RoutedInit == Init => Routed
  BY DEF Init, Routed, Busy

\* MainSend routes an id by its related object and no step moves it elsewhere.
LEMMA RoutedStep == TypeOK /\ Routed /\ [Next]_vars => Routed'
<1> SUFFICES ASSUME TypeOK, Routed, [Next]_vars PROVE Routed'
  OBVIOUS
<1> USE DEF TypeOK, Routed, Busy, table, mainV, workV, closeV
<1>1. CASE ProcessStart
  BY <1>1 DEF ProcessStart
<1>2. CASE ProcessReturn
  BY <1>2 DEF ProcessReturn
<1>3. CASE Crash
  BY <1>3 DEF Crash
<1>4. CASE MainSend
  <2> DEFINE u == WorkerOf[RelOf[sending]]
  <2>1. sending \in Jobs /\ u \in Workers /\ buf[u] \in Seq(Jobs)
    BY <1>4, JobQueueAssumption DEF MainSend, MainOK, BufOK
  <2>2. buf' = [buf EXCEPT ![u] = Append(buf[u], sending)]
    BY <1>4 DEF MainSend, uuidWorker
  <2> HIDE DEF u
  <2>3. \A i \in 1..Len(buf'[u]) : WorkerOf[RelOf[buf'[u][i]]] = u
    <3>1. buf'[u] = Append(buf[u], sending)
      BY <2>1, <2>2 DEF BufOK
    <3>2. \A i \in 1..Len(buf[u]) : WorkerOf[RelOf[buf[u][i]]] = u
      BY <2>1
    <3>3. WorkerOf[RelOf[sending]] = u
      BY DEF u
    <3>4. QED
      BY <2>1, <3>1, <3>2, <3>3
  <2>4. \A w \in Workers \ {u} : buf'[w] = buf[w]
    BY <2>1, <2>2 DEF BufOK
  <2>5. wpc' = wpc /\ loc' = loc
    BY <1>4 DEF MainSend
  <2>6. QED
    BY <2>3, <2>4, <2>5
<1>5. ASSUME NEW w \in Workers, WorkerRecv(w) PROVE Routed'
  <2>1. buf[w] \in Seq(Jobs) /\ buf[w] # <<>>
    BY <1>5 DEF WorkerRecv, BufOK
  <2>2. WorkerOf[RelOf[Head(buf[w])]] = w
    BY <2>1
  <2>3. \A i \in 1..Len(Tail(buf[w])) : WorkerOf[RelOf[Tail(buf[w])[i]]] = w
    BY <2>1
  <2>4. loc'[w].id = Head(buf[w])
    BY <1>5 DEF WorkerRecv, WorkersOK, NoJob
  <2>5. buf'[w] = Tail(buf[w])
    BY <1>5 DEF WorkerRecv, BufOK
  <2>6. \A v \in Workers \ {w} : buf'[v] = buf[v] /\ loc'[v] = loc[v] /\ wpc'[v] = wpc[v]
    BY <1>5 DEF WorkerRecv, BufOK, WorkersOK, Goto
  <2>7. \A v \in Workers : \A i \in 1..Len(buf'[v]) : WorkerOf[RelOf[buf'[v][i]]] = v
    <3>1. \A i \in 1..Len(buf'[w]) : WorkerOf[RelOf[buf'[w][i]]] = w
      BY <2>3, <2>5
    <3>2. ASSUME NEW v \in Workers \ {w}
          PROVE  \A i \in 1..Len(buf'[v]) : WorkerOf[RelOf[buf'[v][i]]] = v
      BY <2>6
    <3>3. QED
      BY <3>1, <3>2
  <2>8. \A v \in Workers : (wpc'[v] = "lookup" \/ Busy(v)') => WorkerOf[RelOf[loc'[v].id]] = v
    BY <2>2, <2>4, <2>6
  <2>9. QED
    BY <2>7, <2>8
<1>6. ASSUME NEW w \in Workers, WorkerDrain(w) PROVE Routed'
  <2>1. buf[w] \in Seq(Jobs)
    BY DEF BufOK
  <2>2. buf[w] # <<>> =>
          \A i \in 1..Len(Tail(buf[w])) : WorkerOf[RelOf[Tail(buf[w])[i]]] = w
    BY <2>1
  <2>3. \A i \in 1..Len(buf'[w]) : WorkerOf[RelOf[buf'[w][i]]] = w
    BY <1>6, <2>1, <2>2 DEF WorkerDrain, BufOK
  <2>4. \A v \in Workers \ {w} : buf'[v] = buf[v]
    BY <1>6 DEF WorkerDrain, BufOK
  <2>5. loc' = loc /\ wpc' = [wpc EXCEPT ![w] = "stopped"]
    BY <1>6 DEF WorkerDrain, Goto
  <2>6. QED
    BY <2>3, <2>4, <2>5 DEF WorkersOK
<1>7. ASSUME NEW w \in Workers, WorkerLookup(w) PROVE Routed'
  <2>1. wpc'[w] \in {"recv", "signal"} \/ loc'[w].id = loc[w].id
    BY <1>7 DEF WorkerLookup, WorkersOK, Goto
  <2>2. wpc[w] = "lookup" /\ buf' = buf
    BY <1>7 DEF WorkerLookup
  <2>3. \A v \in Workers \ {w} : loc'[v] = loc[v] /\ wpc'[v] = wpc[v]
    BY <1>7 DEF WorkerLookup, WorkersOK, Goto, Forget
  <2>4. QED
    BY <2>1, <2>2, <2>3
<1>8. ASSUME NEW w \in Workers, WorkerRun(w) PROVE Routed'
  <2>1. loc'[w].id = loc[w].id
    <3>1. loc[w] \in JobCopy /\ loc[w].id \in Jobs
      BY <1>8 DEF WorkerRun, WorkersOK
    <3>2. Retried(loc[w]).id = loc[w].id
      BY <3>1, RetriedType
    <3>3. QED
      BY <1>8, <3>1, <3>2 DEF WorkerRun, WorkersOK, JobCopy
  <2>2. wpc[w] = "run" /\ buf' = buf
    BY <1>8 DEF WorkerRun
  <2>3. \A v \in Workers \ {w} : loc'[v] = loc[v] /\ wpc'[v] = wpc[v]
    BY <1>8 DEF WorkerRun, WorkersOK, Goto
  <2>4. QED
    BY <2>1, <2>2, <2>3
<1>9. ASSUME NEW w \in Workers, WorkerRecheck(w) PROVE Routed'
  BY <1>9 DEF WorkerRecheck, WorkersOK, JobCopy, Goto
<1>10. ASSUME NEW w \in Workers,
              \/ WorkerEnd(w) \/ WorkerSave(w) \/ WorkerSignal(w)
              \/ WorkerError(w) \/ WorkerRecheckError(w)
       PROVE Routed'
  <2>1. buf' = buf /\ wpc'[w] \in {"recv", "signal", "drain", "stopped"}
    BY <1>10 DEF WorkerEnd, WorkerSave, WorkerSignal, WorkerError, WorkerRecheckError,
                 WorkersOK, Goto
  <2>2. \A v \in Workers \ {w} : loc'[v] = loc[v] /\ wpc'[v] = wpc[v]
    BY <1>10 DEF WorkerEnd, WorkerSave, WorkerSignal, WorkerError, WorkerRecheckError,
                 WorkersOK, Goto, Forget
  <2>3. QED
    BY <2>1, <2>2
<1>11. CASE UNCHANGED <<buf, wpc, loc>>
  BY <1>11
<1>12. QED
  BY <1>1, <1>2, <1>3, <1>4, <1>5, <1>6, <1>7, <1>8, <1>9, <1>10, <1>11
  DEF Next, MainNext, WorkerNext, CloserNext, JobNext, FaultNext, vars,
      MainPoll, MainCollect, MainNextRow, MainSleep, MainJoin, MainTellExited,
      MainError, ReactivateSave, AddCheck, AddInsert, AddAbort, TerminateChannel,
      ReactivateRead, Elapse, CloseCall, CloseLock, CloseAsk, CloseReturn

\* Two workers never run jobs of one object, because both jobs would have been
\* routed to the same worker.
LEMMA RoutedExclusive == TypeOK /\ Routed => OneHandlerPerRelated
  BY DEF Routed, OneHandlerPerRelated, Busy

\* Handlers of one related object never overlap, in any instance of the queue.
THEOREM MutualExclusion == Spec => []OneHandlerPerRelated
<1>1. Init => TypeOK /\ Routed
  BY TypeInit, RoutedInit
<1>2. TypeOK /\ Routed /\ [Next]_vars => (TypeOK /\ Routed)'
  BY TypeStep, RoutedStep
<1>3. QED
  BY <1>1, <1>2, RoutedExclusive, PTL DEF Spec

-----------------------------------------------------------------------------
(* The inductive invariant: every other step leaves all it speaks of as it *)
(* was, because it changes neither the table nor a copy of a row.          *)

Steps == <<status, tryCount, adding, ui, wpc, loc>>

\* The steps that matter for the table, the writers and the workers; every other
\* step (main routine, Close, time, a send) leaves those alone.
LEMMA OtherSteps ==
  ASSUME [Next]_vars
  PROVE  \/ UNCHANGED Steps
         \/ ProcessStart \/ ProcessReturn \/ Crash \/ ReactivateSave
         \/ \E j \in Jobs : \/ AddCheck(j) \/ AddInsert(j) \/ AddAbort(j)
                            \/ TerminateChannel(j) \/ ReactivateRead(j)
         \/ \E w \in Workers : \/ WorkerRecv(w) \/ WorkerEnd(w) \/ WorkerLookup(w)
                               \/ WorkerRun(w) \/ WorkerRecheck(w) \/ WorkerSave(w)
                               \/ WorkerSignal(w) \/ WorkerDrain(w)
                               \/ WorkerError(w) \/ WorkerRecheckError(w)
  BY DEF Next, MainNext, WorkerNext, CloserNext, JobNext, FaultNext, vars, Steps,
         table, mainV, workV, closeV, MainPoll, MainCollect, MainNextRow, MainSend,
         MainSleep, MainJoin, MainTellExited, MainError, Elapse,
         CloseCall, CloseLock, CloseAsk, CloseReturn

\* The steps of a worker w concern its own program counter and copy only.
LEMMA OneWorker ==
  ASSUME TypeOK, NEW w \in Workers,
         \/ WorkerRecv(w) \/ WorkerEnd(w) \/ WorkerLookup(w) \/ WorkerRun(w)
         \/ WorkerRecheck(w) \/ WorkerSave(w) \/ WorkerSignal(w) \/ WorkerDrain(w)
         \/ WorkerError(w) \/ WorkerRecheckError(w)
  PROVE  \A v \in Workers \ {w} : wpc'[v] = wpc[v] /\ loc'[v] = loc[v]
<1> USE DEF TypeOK, WorkersOK, Goto, Forget, workV
<1>1. CASE WorkerRecv(w) \/ WorkerEnd(w) \/ WorkerLookup(w)
  BY <1>1 DEF WorkerRecv, WorkerEnd, WorkerLookup
<1>2. CASE WorkerRun(w) \/ WorkerRecheck(w) \/ WorkerSave(w)
  BY <1>2 DEF WorkerRun, WorkerRecheck, WorkerSave
<1>3. CASE WorkerSignal(w) \/ WorkerDrain(w) \/ WorkerError(w) \/ WorkerRecheckError(w)
  BY <1>3 DEF WorkerSignal, WorkerDrain, WorkerError, WorkerRecheckError
<1>4. QED
  BY <1>1, <1>2, <1>3

\* Every step of a worker but the save leaves the table alone.
LEMMA WorkersReadOnly ==
  ASSUME NEW w \in Workers,
         \/ WorkerRecv(w) \/ WorkerEnd(w) \/ WorkerLookup(w) \/ WorkerRun(w)
         \/ WorkerRecheck(w) \/ WorkerSignal(w) \/ WorkerDrain(w)
         \/ WorkerError(w) \/ WorkerRecheckError(w)
  PROVE  UNCHANGED <<status, tryCount, adding, ui>>
  BY DEF WorkerRecv, WorkerEnd, WorkerLookup, WorkerRun, WorkerRecheck,
         WorkerSignal, WorkerDrain, WorkerError, WorkerRecheckError, table

\* The handler's return and the recheck keep the worker's job; the copy stays
\* active, is settled, or is found canceled.
LEMMA SameJob ==
  ASSUME TypeOK, NEW w \in Workers, WorkerRun(w) \/ WorkerRecheck(w)
  PROVE  /\ loc'[w].id = loc[w].id
         /\ loc[w] \in JobCopy /\ loc[w].id \in Jobs
         /\ \/ loc'[w] = [loc[w] EXCEPT !.status = "done"]
            \/ WorkerRun(w) /\ loc'[w] = Retried(loc[w])
            \/ loc'[w] = [loc[w] EXCEPT !.status = "canceled"]
            \/ WorkerRecheck(w) /\ loc'[w] = loc[w]
<1> USE DEF TypeOK, WorkersOK
<1>1. loc[w] \in JobCopy /\ loc[w].id \in Jobs
  BY DEF WorkerRun, WorkerRecheck
<1>2. CASE WorkerRun(w)
  <2>1. \/ loc'[w] = [loc[w] EXCEPT !.status = "done"]
        \/ loc'[w] = Retried(loc[w])
    BY <1>2 DEF WorkerRun
  <2>2. Retried(loc[w]).id = loc[w].id /\ [loc[w] EXCEPT !.status = "done"].id = loc[w].id
    BY <1>1, RetriedType DEF JobCopy
  <2>3. QED
    BY <1>1, <1>2, <2>1, <2>2
<1>3. CASE WorkerRecheck(w)
  <2>1. \/ loc'[w] = [loc[w] EXCEPT !.status = "canceled"]
        \/ loc'[w] = loc[w]
    BY <1>3 DEF WorkerRecheck
  <2>2. [loc[w] EXCEPT !.status = "canceled"].id = loc[w].id
    BY <1>1 DEF JobCopy
  <2>3. QED
    BY <1>1, <1>3, <2>1, <2>2
<1>4. QED
  BY <1>2, <1>3

\* Of the writers of the table only a job's own worker can settle it while it runs.
LEMMA RunningStep == IInv /\ [Next]_vars => RunningNotSettled'
<1> SUFFICES ASSUME IInv, [Next]_vars,
                    NEW v \in Workers, Busy(v)'
             PROVE  status'[loc'[v].id] \in {"active", "canceled"}
  BY DEF RunningNotSettled
<1> USE DEF IInv, TypeOK, RunningNotSettled
<1>1. CASE UNCHANGED Steps
  BY <1>1 DEF Steps, Busy
<1>2. CASE ProcessStart \/ ProcessReturn \/ Crash
  BY <1>2 DEF ProcessStart, ProcessReturn, Crash, Busy
<1>3. CASE ReactivateSave
  BY <1>3 DEF ReactivateSave, Save, PendingOK, TableOK, Busy, WorkersOK, workV
<1>4. ASSUME NEW j \in Jobs,
             \/ AddCheck(j) \/ AddInsert(j) \/ AddAbort(j)
             \/ TerminateChannel(j) \/ ReactivateRead(j)
      PROVE  status'[loc'[v].id] \in {"active", "canceled"}
  <2>1. Busy(v) /\ loc' = loc /\ loc[v].id \in Jobs
    BY <1>4 DEF AddCheck, AddInsert, AddAbort, TerminateChannel, ReactivateRead,
                workV, Busy, WorkersOK
  <2>2. QED
    BY <1>4, <2>1 DEF AddCheck, AddInsert, AddAbort, TerminateChannel, ReactivateRead,
                      InsertJob, TableOK, table, Active
<1>5. ASSUME NEW w \in Workers, WorkerLookup(w)
      PROVE  status'[loc'[v].id] \in {"active", "canceled"}
  <2>1. CASE v = w
    BY <1>5, <2>1 DEF WorkerLookup, Runnable, Active, Busy, Goto, Forget, WorkersOK, table
  <2>2. CASE v # w
    BY <1>5, <2>2, OneWorker, WorkersReadOnly DEF Busy
  <2>3. QED
    BY <2>1, <2>2
<1>6. ASSUME NEW w \in Workers, WorkerRun(w) \/ WorkerRecheck(w)
      PROVE  status'[loc'[v].id] \in {"active", "canceled"}
  <2>1. CASE v = w
    <3>1. loc[w] \in JobCopy /\ loc[w].id \in Jobs /\ Busy(w)
      BY <1>6 DEF WorkerRun, WorkerRecheck, WorkersOK, Busy
    <3>2. loc'[w].id = loc[w].id
      BY <1>6, <3>1, SameJob
    <3>3. QED
      BY <1>6, <2>1, <3>1, <3>2, WorkersReadOnly
  <2>2. CASE v # w
    BY <1>6, <2>2, OneWorker, WorkersReadOnly DEF Busy
  <2>3. QED
    BY <2>1, <2>2
<1>7. ASSUME NEW w \in Workers, WorkerSave(w)
      PROVE  status'[loc'[v].id] \in {"active", "canceled"}
  <2>1. v # w
    BY <1>7 DEF WorkerSave, Busy, Goto, WorkersOK
  <2>2. Busy(v) /\ loc'[v] = loc[v] /\ loc[v].id \in Jobs
    BY <1>7, <2>1, OneWorker DEF Busy, WorkersOK
  <2>3. loc[v].id # loc[w].id
    BY <1>7, <2>1, <2>2, RoutedExclusive DEF WorkerSave, OneHandlerPerRelated, Busy
  <2>4. status'[loc[v].id] = status[loc[v].id]
    BY <1>7, <2>2, <2>3 DEF WorkerSave, Save, TableOK
  <2>5. QED
    BY <2>2, <2>4
<1>8. ASSUME NEW w \in Workers,
             \/ WorkerRecv(w) \/ WorkerEnd(w) \/ WorkerSignal(w) \/ WorkerDrain(w)
             \/ WorkerError(w) \/ WorkerRecheckError(w)
      PROVE  status'[loc'[v].id] \in {"active", "canceled"}
  <2>1. v # w
    BY <1>8 DEF WorkerRecv, WorkerEnd, WorkerSignal, WorkerDrain, WorkerError,
                WorkerRecheckError, Busy, Goto, WorkersOK
  <2>2. QED
    BY <1>8, <2>1, OneWorker, WorkersReadOnly DEF Busy
<1>9. QED
  BY <1>1, <1>2, <1>3, <1>4, <1>5, <1>6, <1>7, <1>8, OtherSteps

\* A call of Add or ReactivateJob holds a row that still is what it checked.
LEMMA PendingStep == IInv /\ [Next]_vars => PendingOK'
<1> SUFFICES ASSUME IInv, [Next]_vars PROVE PendingOK'
  OBVIOUS
<1> USE DEF IInv, TypeOK, PendingOK, TableOK
<1>1. CASE UNCHANGED Steps
  BY <1>1 DEF Steps
<1>2. CASE ProcessStart \/ ProcessReturn \/ Crash
  BY <1>2 DEF ProcessStart, ProcessReturn, Crash, table
<1>3. CASE ReactivateSave
  BY <1>3 DEF ReactivateSave, Save
<1>4. ASSUME NEW j \in Jobs, AddCheck(j) \/ AddAbort(j) PROVE PendingOK'
  BY <1>4 DEF AddCheck, AddAbort, table
<1>5. ASSUME NEW j \in Jobs, AddInsert(j) PROVE PendingOK'
  BY <1>5 DEF AddInsert, InsertJob
<1>6. ASSUME NEW j \in Jobs, TerminateChannel(j) PROVE PendingOK'
  BY <1>6 DEF TerminateChannel, Active
<1>7. ASSUME NEW j \in Jobs, ReactivateRead(j) PROVE PendingOK'
  BY <1>7 DEF ReactivateRead, table
<1>8. ASSUME NEW w \in Workers, WorkerSave(w) PROVE PendingOK'
  <2>1. Busy(w) /\ loc[w].id \in Jobs /\ loc[w].status # "none"
    BY <1>8 DEF WorkerSave, Busy, WorkersOK, CopyOK
  <2>2. status[loc[w].id] \in {"active", "canceled"}
    BY <2>1 DEF RunningNotSettled
  <2>3. loc[w].id \notin adding
    BY <2>2
  <2>4. status' = [status EXCEPT ![loc[w].id] = loc[w].status] /\ adding' = adding /\ ui' = ui
    BY <1>8 DEF WorkerSave, Save
  <2>5. QED
    BY <2>1, <2>3, <2>4
<1>9. ASSUME NEW w \in Workers,
             \/ WorkerRecv(w) \/ WorkerEnd(w) \/ WorkerLookup(w) \/ WorkerRun(w)
             \/ WorkerRecheck(w) \/ WorkerSignal(w) \/ WorkerDrain(w)
             \/ WorkerError(w) \/ WorkerRecheckError(w)
      PROVE  PendingOK'
  BY <1>9, WorkersReadOnly
<1>10. QED
  BY <1>1, <1>2, <1>3, <1>4, <1>5, <1>6, <1>7, <1>8, <1>9, OtherSteps

\* A failed try of a job with tries left uses up the limit exactly when the job
\* fails.
LEMMA RetriedTries ==
  ASSUME NEW c \in JobCopy, c.id \in Jobs, c.status = "active",
         TryLimit[TypeOf[c.id]] # 0 => c.tryCount < TryLimit[TypeOf[c.id]]
  PROVE  LET limit == TryLimit[TypeOf[c.id]] IN
         /\ Retried(c).status = "active" /\ limit # 0 => Retried(c).tryCount < limit
         /\ Retried(c).status = "failed" => limit # 0 /\ Retried(c).tryCount = limit
<1> DEFINE limit == TryLimit[TypeOf[c.id]]
           tries == IF limit # 0 THEN c.tryCount + 1 ELSE c.tryCount
<1>1. limit \in Nat /\ c.tryCount \in Nat /\ (limit # 0 => c.tryCount < limit)
  BY JobQueueAssumption DEF JobCopy
<1>2. CASE limit # 0 /\ tries >= limit
  <2>1. Retried(c) = [c EXCEPT !.tryCount = tries, !.status = "failed"]
    BY <1>2 DEF Retried
  <2>2. Retried(c).status = "failed" /\ Retried(c).tryCount = tries
    BY <2>1 DEF JobCopy
  <2>3. QED
    BY <1>1, <1>2, <2>2
<1>3. CASE ~(limit # 0 /\ tries >= limit)
  <2>1. Retried(c) = [c EXCEPT !.tryCount = tries, !.due = FALSE]
    BY <1>3 DEF Retried
  <2>2. Retried(c).status = "active" /\ Retried(c).tryCount = tries
    BY <2>1 DEF JobCopy
  <2>3. QED
    BY <1>1, <1>3, <2>2
<1>4. QED
  BY <1>2, <1>3

\* A worker's copy stays within the limit through run, recheck and save.
LEMMA CopyStep == IInv /\ [Next]_vars => CopyOK'
<1> DEFINE Ok(v) == LET limit == TryLimit[TypeOf[loc[v].id]] IN
             /\ wpc[v] \in {"run", "recheck"} => loc[v].status = "active"
             /\ wpc[v] = "save" => loc[v].status \in {"active", "canceled", "done", "failed"}
             /\ Busy(v) /\ loc[v].status = "active" /\ limit # 0 => loc[v].tryCount < limit
             /\ Busy(v) /\ loc[v].status = "failed" => limit # 0 /\ loc[v].tryCount = limit
<1> SUFFICES ASSUME IInv, [Next]_vars, NEW v \in Workers PROVE Ok(v)'
  BY DEF CopyOK
<1>0. Ok(v)
  BY DEF IInv, CopyOK
<1> USE DEF IInv, TypeOK, WorkersOK
<1>1. CASE UNCHANGED Steps
  BY <1>0, <1>1 DEF Steps, Busy
<1>2. CASE ProcessStart \/ ProcessReturn \/ Crash
  BY <1>2 DEF ProcessStart, ProcessReturn, Crash, Busy
<1>3. CASE ReactivateSave
  BY <1>0, <1>3 DEF ReactivateSave, workV, Busy
<1>4. ASSUME NEW j \in Jobs,
             \/ AddCheck(j) \/ AddInsert(j) \/ AddAbort(j)
             \/ TerminateChannel(j) \/ ReactivateRead(j)
      PROVE  Ok(v)'
  BY <1>0, <1>4 DEF AddCheck, AddInsert, AddAbort, TerminateChannel, ReactivateRead, workV, Busy
<1>5. ASSUME NEW w \in Workers, v # w,
             \/ WorkerRecv(w) \/ WorkerEnd(w) \/ WorkerLookup(w) \/ WorkerRun(w)
             \/ WorkerRecheck(w) \/ WorkerSave(w) \/ WorkerSignal(w) \/ WorkerDrain(w)
             \/ WorkerError(w) \/ WorkerRecheckError(w)
      PROVE  Ok(v)'
  BY <1>0, <1>5, OneWorker DEF Busy
<1>6. CASE WorkerLookup(v)
  <2>1. CASE wpc'[v] = "run"
    <3> DEFINE j == loc[v].id
    <3>1. j \in Jobs /\ Active(j)
      BY <1>6, <2>1 DEF WorkerLookup, Runnable, Goto
    <3>2. loc'[v] = [id |-> j, status |-> status[j], tryCount |-> tryCount[j], due |-> due[j]]
      BY <1>6, <2>1 DEF WorkerLookup, Goto
    <3>3. loc'[v].id = j /\ loc'[v].status = "active" /\ loc'[v].tryCount = tryCount[j]
      BY <3>1, <3>2 DEF Active
    <3>4. TryLimit[TypeOf[j]] # 0 => tryCount[j] < TryLimit[TypeOf[j]]
      BY <3>1 DEF TriesRespectLimit
    <3> HIDE DEF j
    <3>5. QED
      BY <2>1, <3>3, <3>4
  <2>2. CASE wpc'[v] # "run"
    BY <1>6, <2>2 DEF WorkerLookup, Goto, Busy
  <2>3. QED
    BY <2>1, <2>2
<1>7. CASE WorkerRun(v)
  <2>1. loc[v] \in JobCopy /\ loc[v].id \in Jobs /\ loc[v].status = "active"
    BY <1>0, <1>7 DEF WorkerRun
  <2>2. TryLimit[TypeOf[loc[v].id]] # 0 => loc[v].tryCount < TryLimit[TypeOf[loc[v].id]]
    BY <1>0, <1>7, <2>1 DEF WorkerRun, Busy
  <2>3. wpc'[v] = IF loc'[v].status = "active" THEN "recheck" ELSE "save"
    BY <1>7 DEF WorkerRun, Goto
  <2>4. CASE loc'[v] = [loc[v] EXCEPT !.status = "done"]
    <3>1. loc'[v].status = "done"
      BY <2>1, <2>4 DEF JobCopy
    <3>2. QED
      BY <2>3, <3>1
  <2>5. CASE loc'[v] = Retried(loc[v])
    <3>1. loc'[v].id = loc[v].id /\ loc'[v].status \in {"active", "failed"}
      BY <2>1, <2>5, RetriedType
    <3>2. LET limit == TryLimit[TypeOf[loc[v].id]] IN
          /\ loc'[v].status = "active" /\ limit # 0 => loc'[v].tryCount < limit
          /\ loc'[v].status = "failed" => limit # 0 /\ loc'[v].tryCount = limit
      BY <2>1, <2>2, <2>5, RetriedTries
    <3>3. QED
      BY <2>3, <3>1, <3>2
  <2>6. QED
    BY <1>7, <2>4, <2>5 DEF WorkerRun
<1>8. CASE WorkerRecheck(v)
  <2>1. loc[v] \in JobCopy /\ wpc'[v] = "save" /\ wpc[v] = "recheck"
    BY <1>8 DEF WorkerRecheck, Goto
  <2>2. CASE loc'[v] = [loc[v] EXCEPT !.status = "canceled"]
    <3>1. loc'[v].status = "canceled"
      BY <2>1, <2>2 DEF JobCopy
    <3>2. QED
      BY <2>1, <3>1
  <2>3. CASE loc'[v] = loc[v]
    BY <1>0, <2>1, <2>3 DEF Busy
  <2>4. QED
    BY <1>8, <2>2, <2>3 DEF WorkerRecheck
<1>9. CASE \/ WorkerRecv(v) \/ WorkerEnd(v) \/ WorkerSave(v) \/ WorkerSignal(v)
          \/ WorkerDrain(v) \/ WorkerError(v) \/ WorkerRecheckError(v)
  <2>1. wpc'[v] \in {"lookup", "recv", "signal", "drain", "stopped"}
    BY <1>9 DEF WorkerRecv, WorkerEnd, WorkerSave, WorkerSignal, WorkerDrain, WorkerError,
                WorkerRecheckError, Goto
  <2>2. QED
    BY <2>1 DEF Busy
<1>10. QED
  BY <1>1, <1>2, <1>3, <1>4, <1>5, <1>6, <1>7, <1>8, <1>9, OtherSteps

\* Saves of workers and of ReactivateJob keep the tries of every row within limit.
LEMMA TriesStep == IInv /\ [Next]_vars => TriesRespectLimit'
<1> DEFINE Ok(j) == LET limit == TryLimit[TypeOf[j]] IN
             /\ Active(j) /\ limit # 0 => tryCount[j] < limit
             /\ status[j] = "failed" => limit # 0 /\ tryCount[j] = limit
<1> SUFFICES ASSUME IInv, [Next]_vars, NEW k \in Jobs PROVE Ok(k)'
  BY DEF TriesRespectLimit
<1>0. Ok(k) /\ TryLimit[TypeOf[k]] \in Nat
  BY JobQueueAssumption DEF IInv, TriesRespectLimit
<1> USE DEF IInv, TypeOK, TableOK, Active
<1>1. CASE UNCHANGED <<status, tryCount>>
  BY <1>0, <1>1
<1>2. ASSUME NEW j \in Jobs, AddInsert(j) PROVE Ok(k)'
  BY <1>0, <1>2 DEF AddInsert, InsertJob
<1>3. ASSUME NEW j \in Jobs, TerminateChannel(j) PROVE Ok(k)'
  BY <1>0, <1>3 DEF TerminateChannel
<1>4. CASE ReactivateSave
  BY <1>0, <1>4 DEF ReactivateSave, Save, PendingOK
<1>5. ASSUME NEW w \in Workers, WorkerSave(w) PROVE Ok(k)'
  <2>1. loc[w].id \in Jobs /\ Busy(w)
    BY <1>5 DEF WorkerSave, WorkersOK, Busy
  <2>2. status' = [status EXCEPT ![loc[w].id] = loc[w].status]
        /\ tryCount' = [tryCount EXCEPT ![loc[w].id] = loc[w].tryCount]
    BY <1>5 DEF WorkerSave, Save
  <2>3. CASE k = loc[w].id
    BY <2>1, <2>2, <2>3 DEF CopyOK
  <2>4. CASE k # loc[w].id
    BY <1>0, <2>1, <2>2, <2>4
  <2>5. QED
    BY <2>3, <2>4
<1>6. QED
  <2>1. ProcessStart \/ ProcessReturn \/ Crash => UNCHANGED <<status, tryCount>>
    BY DEF ProcessStart, ProcessReturn, Crash, table
  <2>2. ASSUME NEW j \in Jobs, AddCheck(j) \/ AddAbort(j) \/ ReactivateRead(j)
        PROVE  UNCHANGED <<status, tryCount>>
    BY <2>2 DEF AddCheck, AddAbort, ReactivateRead, table
  <2>3. UNCHANGED Steps => UNCHANGED <<status, tryCount>>
    BY DEF Steps
  <2>4. QED
    BY <1>1, <1>2, <1>3, <1>4, <1>5, <2>1, <2>2, <2>3, OtherSteps, WorkersReadOnly

\* The inductive invariant holds initially.
LEMMA InvInit == Init => IInv
<1> SUFFICES ASSUME Init PROVE IInv
  OBVIOUS
<1>1. PendingOK /\ CopyOK /\ RunningNotSettled /\ TriesRespectLimit
  BY DEF Init, PendingOK, CopyOK, RunningNotSettled, TriesRespectLimit, Busy, Active, NoJob
<1>2. QED
  BY <1>1, TypeInit, RoutedInit DEF IInv

\* The inductive invariant is preserved by every step.
LEMMA InvStep == IInv /\ [Next]_vars => IInv'
  BY TypeStep, RoutedStep, PendingStep, CopyStep, RunningStep, TriesStep DEF IInv

\* The invariant is inductive, so it holds in every reachable state.
THEOREM InvCorrect == Spec => []IInv
  BY InvInit, InvStep, PTL DEF Spec

\* Only the worker that runs a job settles it.
THEOREM RunningCorrect == Spec => []RunningNotSettled
<1>1. IInv => RunningNotSettled
  BY DEF IInv
<1>2. QED
  BY <1>1, InvCorrect, PTL

\* No job is tried more often than its type allows, whatever is canceled,
\* reactivated or lost in a crash.
THEOREM TriesCorrect == Spec => []TriesRespectLimit
<1>1. IInv => TriesRespectLimit
  BY DEF IInv
<1>2. QED
  BY <1>1, InvCorrect, PTL

-----------------------------------------------------------------------------
(* A done job stays done, unless ReactivateJob saves a row it read before. *)

\* A step that takes a job out of done is the save of a ReactivateJob call.
LEMMA DoneStep ==
  ASSUME IInv, [Next]_vars, NEW j \in Jobs, status[j] = "done", status'[j] # "done"
  PROVE  ui # None /\ ui' = None /\ ui.id = j
<1> USE DEF IInv, TypeOK, TableOK
<1>1. CASE ReactivateSave
  BY <1>1 DEF ReactivateSave, Save
<1>2. ASSUME NEW i \in Jobs, AddInsert(i) \/ TerminateChannel(i) PROVE FALSE
  BY <1>2 DEF AddInsert, InsertJob, TerminateChannel, Active, PendingOK
<1>3. ASSUME NEW w \in Workers, WorkerSave(w) PROVE FALSE
  <2>1. loc[w].id \in Jobs /\ status[loc[w].id] \in {"active", "canceled"}
    BY <1>3 DEF WorkerSave, WorkersOK, RunningNotSettled, Busy
  <2>2. status' = [status EXCEPT ![loc[w].id] = loc[w].status]
    BY <1>3 DEF WorkerSave, Save
  <2>3. QED
    BY <2>1, <2>2
<1>4. ProcessStart \/ ProcessReturn \/ Crash => status' = status
  BY DEF ProcessStart, ProcessReturn, Crash, table
<1>5. ASSUME NEW i \in Jobs, AddCheck(i) \/ AddAbort(i) \/ ReactivateRead(i)
      PROVE  status' = status
  BY <1>5 DEF AddCheck, AddAbort, ReactivateRead, table
<1>6. UNCHANGED Steps => status' = status
  BY DEF Steps
<1>7. QED
  BY <1>1, <1>2, <1>3, <1>4, <1>5, <1>6, OtherSteps, WorkersReadOnly

\* No step of the queue takes a job out of done; only a racing ReactivateJob
\* does.
THEOREM DoneFinal == Spec => DoneIsFinal
<1>1. IInv /\ [Next]_vars =>
        [\A j \in Jobs : status[j] = "done" /\ status'[j] # "done" =>
            ui # None /\ ui' = None /\ ui.id = j]_vars
  BY DoneStep
<1>2. QED
  BY <1>1, InvCorrect, PTL DEF Spec, DoneIsFinal

-----------------------------------------------------------------------------
(* The queue implements JobExecution.                                      *)

\* A step of worker w changes what is running by w's own job at most.
LEMMA RunningChange ==
  ASSUME NEW w \in Workers,
         \A v \in Workers \ {w} : wpc'[v] = wpc[v] /\ loc'[v] = loc[v]
  PROVE  /\ ~Busy(w) /\ ~Busy(w)' => Running' = Running
         /\ Busy(w) /\ Busy(w)' /\ loc'[w].id = loc[w].id => Running' = Running
         /\ ~Busy(w) /\ Busy(w)' => Running' = Running \cup {loc'[w].id}
         /\ ~Busy(w)' => Running' \in SUBSET Running
<1>1. \A v \in Workers \ {w} : Busy(v)' <=> Busy(v)
  BY DEF Busy
<1>2. QED
  BY <1>1 DEF Running

\* An idle queue is an idle abstract execution.
LEMMA RefinementInit == Init => Execution!Init
  BY DEF Init, Execution!Init, Running, Busy

\* Every step of the queue is a step of the abstract execution or a stutter.
LEMMA RefinementStep == IInv /\ [Next]_vars => [Execution!Next]_Execution!vars
<1> SUFFICES ASSUME IInv, [Next]_vars PROVE [Execution!Next]_Execution!vars
  OBVIOUS
<1> USE DEF IInv, TypeOK, Execution!vars
<1>1. CASE UNCHANGED Steps
  BY <1>1 DEF Steps, Running, Busy
<1>2. CASE ProcessStart \/ ProcessReturn \/ Crash
  <2>1. status' = status /\ Running' = {}
    BY <1>2 DEF ProcessStart, ProcessReturn, Crash, table, Running, Busy
  <2>2. QED
    BY <2>1 DEF Execution!Next, Execution!Abandon
<1>3. CASE ReactivateSave
  <2>1. Running' = Running
    BY <1>3 DEF ReactivateSave, workV, Running, Busy
  <2>2. Execution!Reactivate(ui.id) /\ ui.id \in Jobs
    BY <1>3, <2>1 DEF ReactivateSave, Save, PendingOK, TableOK, Execution!Reactivate
  <2>3. QED
    BY <2>2 DEF Execution!Next
<1>4. ASSUME NEW j \in Jobs,
             \/ AddCheck(j) \/ AddInsert(j) \/ AddAbort(j)
             \/ TerminateChannel(j) \/ ReactivateRead(j)
      PROVE  [Execution!Next]_Execution!vars
  <2>1. Running' = Running
    BY <1>4 DEF AddCheck, AddInsert, AddAbort, TerminateChannel, ReactivateRead,
                workV, Running, Busy
  <2>2. CASE AddCheck(j) \/ AddAbort(j) \/ ReactivateRead(j)
    BY <2>1, <2>2 DEF AddCheck, AddAbort, ReactivateRead, table
  <2>3. CASE AddInsert(j)
    <3>1. Execution!Add(j)
      BY <2>1, <2>3 DEF AddInsert, InsertJob, PendingOK, Execution!Add
    <3>2. QED
      BY <3>1 DEF Execution!Next
  <2>4. CASE TerminateChannel(j)
    <3>1. status' = [i \in Jobs |->
                       IF i = j THEN "active"
                       ELSE IF status[i] = "active" /\ RelOf[i] = RelOf[j] THEN "canceled"
                       ELSE status[i]]
      BY <2>4 DEF TerminateChannel, Active
    <3>2. Execution!Terminate(j)
      BY <2>1, <2>4, <3>1 DEF TerminateChannel, Execution!Terminate
    <3>3. QED
      BY <3>2 DEF Execution!Next
  <2>5. QED
    BY <1>4, <2>2, <2>3, <2>4
<1>5. ASSUME NEW w \in Workers, WorkerLookup(w)
      PROVE  [Execution!Next]_Execution!vars
  <2> DEFINE j == loc[w].id
  <2>1. status' = status /\ j \in Jobs /\ ~Busy(w)
    BY <1>5 DEF WorkerLookup, WorkersOK, table, Busy
  <2>2. CASE ~Busy(w)'
    BY <1>5, <2>1, <2>2, OneWorker, RunningChange
  <2>3. CASE Busy(w)'
    <3>1. Active(j) /\ loc'[w].id = j
      BY <1>5, <2>3 DEF WorkerLookup, WorkersOK, Runnable, Goto, Busy
    <3>2. Running' = Running \cup {j}
      BY <1>5, <2>1, <2>3, <3>1, OneWorker, RunningChange
    <3>3. \A i \in Running : RelOf[i] # RelOf[j]
      BY <1>5, <2>1 DEF Running, Routed, WorkerLookup, Busy
    <3>4. Execution!Start(j)
      BY <2>1, <3>1, <3>2, <3>3 DEF Execution!Start, Active
    <3>5. QED
      BY <2>1, <3>4 DEF Execution!Next
  <2>4. QED
    BY <2>2, <2>3
<1>6. ASSUME NEW w \in Workers, WorkerRun(w) \/ WorkerRecheck(w)
      PROVE  [Execution!Next]_Execution!vars
  <2>1. status' = status /\ Busy(w) /\ Busy(w)'
    BY <1>6 DEF WorkerRun, WorkerRecheck, table, Busy, Goto, WorkersOK
  <2>2. Running' = Running
    BY <1>6, <2>1, SameJob, OneWorker, RunningChange
  <2>3. QED
    BY <2>1, <2>2
<1>7. ASSUME NEW w \in Workers, WorkerSave(w)
      PROVE  [Execution!Next]_Execution!vars
  <2> DEFINE j == loc[w].id
  <2>1. j \in Jobs /\ Busy(w) /\ ~Busy(w)'
    BY <1>7 DEF WorkerSave, WorkersOK, Busy, Goto
  <2>2. \A v \in Workers \ {w} : Busy(v) => loc[v].id # j
    BY <2>1, RoutedExclusive DEF OneHandlerPerRelated
  <2>3. Running' = Running \ {j}
    <3>1. \A v \in Workers \ {w} : (Busy(v)' <=> Busy(v)) /\ loc'[v] = loc[v]
      BY <1>7, OneWorker DEF Busy
    <3>2. QED
      BY <2>1, <2>2, <3>1 DEF Running
  <2>4. status[j] \in {"active", "canceled"} /\ j \in Running
    BY <2>1 DEF RunningNotSettled, Running
  <2>5. \E s \in {"active", "canceled", "done", "failed"} :
          status' = [status EXCEPT ![j] = s]
    BY <1>7 DEF WorkerSave, Save, CopyOK
  <2>6. Execution!Settle(j)
    BY <2>3, <2>4, <2>5 DEF Execution!Settle
  <2>7. QED
    BY <2>1, <2>6 DEF Execution!Next
<1>8. ASSUME NEW w \in Workers,
             \/ WorkerRecv(w) \/ WorkerEnd(w) \/ WorkerSignal(w) \/ WorkerDrain(w)
             \/ WorkerError(w) \/ WorkerRecheckError(w)
      PROVE  [Execution!Next]_Execution!vars
  <2>1. status' = status /\ ~Busy(w)'
    BY <1>8 DEF WorkerRecv, WorkerEnd, WorkerSignal, WorkerDrain, WorkerError,
                WorkerRecheckError, table, Busy, Goto, WorkersOK
  <2>2. Running' \in SUBSET Running
    BY <1>8, <2>1, OneWorker, RunningChange
  <2>3. QED
    BY <2>1, <2>2 DEF Execution!Next, Execution!Abandon
<1>9. QED
  BY <1>1, <1>2, <1>3, <1>4, <1>5, <1>6, <1>7, <1>8, OtherSteps

\* The queue implements the abstract execution of jobs, for every number of
\* jobs, objects, workers and closers and every number of faults.
THEOREM Refinement == Spec => ImplementsExecution
<1>1. Init => Execution!Init
  BY RefinementInit
<1>2. IInv /\ [Next]_vars => [Execution!Next]_Execution!vars
  BY RefinementStep
<1>3. QED
  BY <1>1, <1>2, InvCorrect, PTL DEF Spec, ImplementsExecution, Execution!Spec

-----------------------------------------------------------------------------
(* ErrQueueClosed.  Close and a worker that fails put the same token into  *)
(* q.exit, so a token says only that one of the two happened; the worker's *)
(* result, which MainJoin waits for, tells them apart.                     *)

Closing == \E c \in Closers : cpc[c] \in {"wait", "returned"}

StopAsked == Closing \/ \E w \in Workers : wres[w]

\* Every token, and every main routine that took one, has a closer or a failed
\* worker behind it, until the join leaves only the closer.
CloseInv ==
  /\ \A w \in Workers : wpc[w] = "signal" => wres[w]
  /\ exit > 0 => StopAsked
  /\ mainPc = "join" /\ mainErr = "closed" => StopAsked
  /\ ClosedOnlyByClose

\* Nothing has asked the idle queue to stop.
LEMMA CloseInit == Init => CloseInv
  BY DEF Init, CloseInv, ClosedOnlyByClose

\* No step adds a token without a reason, or forgets the reason of one.
LEMMA CloseStep == TypeOK /\ CloseInv /\ [Next]_vars => CloseInv'
<1> SUFFICES ASSUME TypeOK, CloseInv, [Next]_vars PROVE CloseInv'
  OBVIOUS
<1> USE DEF TypeOK, WorkersOK, CloseOK, MainOK, CloseInv, ClosedOnlyByClose, Closing,
            StopAsked, table, mainV, workV, closeV
<1>1. CASE ProcessStart
  BY <1>1 DEF ProcessStart
<1>2. CASE Crash
  BY <1>2 DEF Crash
<1>3. CASE ProcessReturn
  BY <1>3 DEF ProcessReturn
<1>4. CASE MainPoll
  BY <1>4 DEF MainPoll, CheckExit, MainStops
<1>5. CASE MainNextRow
  BY <1>5 DEF MainNextRow, CheckExit, MainStops
<1>6. CASE MainError
  BY <1>6 DEF MainError, MainStops
<1>7. CASE MainJoin
  BY <1>7 DEF MainJoin
<1>8. CASE MainCollect \/ MainSend \/ MainSleep \/ MainTellExited
  BY <1>8 DEF MainCollect, MainSend, MainSleep, MainTellExited
<1>9. ASSUME NEW w \in Workers, WorkerLookup(w) \/ WorkerError(w) PROVE CloseInv'
  <2>1. UNCHANGED <<mainPc, mainErr, exit, cpc>>
    BY <1>9 DEF WorkerLookup, WorkerError
  <2>2. wpc'[w] = "signal" => wres'[w]
    BY <1>9 DEF WorkerLookup, WorkerError, Goto
  <2>3. \A v \in Workers \ {w} : wpc'[v] = wpc[v] /\ wres'[v] = wres[v]
    BY <1>9 DEF WorkerLookup, WorkerError, Goto
  <2>4. wres[w] => wres'[w]
    BY <1>9 DEF WorkerLookup, WorkerError
  <2>5. StopAsked => StopAsked'
    BY <2>1, <2>3, <2>4
  <2>6. QED
    BY <2>1, <2>2, <2>3, <2>5
<1>10. ASSUME NEW w \in Workers, WorkerSignal(w) PROVE CloseInv'
  BY <1>10 DEF WorkerSignal, Goto
<1>11. ASSUME NEW w \in Workers,
              \/ WorkerRecv(w) \/ WorkerEnd(w) \/ WorkerRun(w) \/ WorkerRecheck(w)
              \/ WorkerSave(w) \/ WorkerDrain(w) \/ WorkerRecheckError(w)
       PROVE  CloseInv'
  <2>1. UNCHANGED <<mainPc, mainErr, exit, cpc, wres>>
    BY <1>11 DEF WorkerRecv, WorkerEnd, WorkerRun, WorkerRecheck, WorkerSave, WorkerDrain,
                 WorkerRecheckError
  <2>2. wpc'[w] # "signal" /\ \A v \in Workers \ {w} : wpc'[v] = wpc[v]
    BY <1>11 DEF WorkerRecv, WorkerEnd, WorkerRun, WorkerRecheck, WorkerSave, WorkerDrain,
                 WorkerRecheckError, Goto
  <2>3. QED
    BY <2>1, <2>2
<1>12. ASSUME NEW c \in Closers,
              CloseCall(c) \/ CloseLock(c) \/ CloseAsk(c) \/ CloseReturn(c)
       PROVE  CloseInv'
  <2>1. UNCHANGED <<mainPc, mainErr, wpc, wres>>
    BY <1>12 DEF CloseCall, CloseLock, CloseAsk, CloseReturn
  <2>2. Closing => Closing'
    BY <1>12 DEF CloseCall, CloseLock, CloseAsk, CloseReturn
  <2>3. exit' = exit \/ Closing'
    BY <1>12 DEF CloseCall, CloseLock, CloseAsk, CloseReturn
  <2>4. QED
    BY <2>1, <2>2, <2>3
<1>13. CASE UNCHANGED <<mainV, workV, cpc, exit>>
  BY <1>13
<1>14. QED
  BY <1>1, <1>2, <1>3, <1>4, <1>5, <1>6, <1>7, <1>8, <1>9, <1>10, <1>11, <1>12, <1>13
  DEF Next, MainNext, WorkerNext, CloserNext, JobNext, FaultNext, vars, ReactivateSave,
      AddCheck, AddInsert, AddAbort, TerminateChannel, ReactivateRead, Elapse

\* Process returns ErrQueueClosed only if Close was called, however many workers
\* fail, whatever they fail of and whichever token the main routine takes.
THEOREM ClosedCorrect == Spec => []ClosedOnlyByClose
<1>1. TypeOK /\ CloseInv /\ [Next]_vars => (TypeOK /\ CloseInv)'
  BY TypeStep, CloseStep
<1>2. CloseInv => ClosedOnlyByClose
  BY DEF CloseInv
<1>3. QED
  BY <1>1, <1>2, TypeInit, CloseInit, PTL DEF Spec

-----------------------------------------------------------------------------
(* Duplicates.  Add checks before it inserts, and nothing but the bound on *)
(* concurrent calls keeps the answer true in between.                      *)

\* One call of Add at a time.
OneAdder == MaxAdding = 1

\* A job of j's kind and transaction, or without a transaction, has no row.
FirstOfEvent(j) ==
  HashOf[j] # None =>
    \A i \in Jobs : status[i] # "none" /\ SameKind(i, j) => HashOf[i] \notin {None, HashOf[j]}

\* An event has at most one job of a kind, whatever became of it.
EventOnce ==
  \A i, j \in Jobs :
    (i # j /\ SameKind(i, j) /\ TypeOf[i] \notin Duplicated /\ HashOf[i] # None
       /\ status[i] # "none" /\ status[j] # "none") => HashOf[i] # HashOf[j]

EventInv ==
  /\ \A i, j \in adding : i = j
  /\ \A j \in adding : TypeOf[j] \in Duplicated \/ FirstOfEvent(j)
  /\ EventOnce

\* The check of a call that is alone leaves that call alone.
LEMMA SoleAdder ==
  ASSUME OneAdder, TypeOK, NEW j \in Jobs, AddCheck(j)
  PROVE  adding' = {j}
<1>1. IsFiniteSet(adding)
  BY FinitenessAssumption, FS_Subset DEF TypeOK, TableOK
<1>2. Cardinality(adding) \in Nat /\ Cardinality(adding) < 1
  BY <1>1, FS_CardinalityType DEF AddCheck, OneAdder
<1>3. adding = {}
  BY <1>1, <1>2, FS_EmptySet
<1>4. QED
  BY <1>3 DEF AddCheck

\* A row appears by an insert or with a terminated channel, and never goes.
LEMMA RowsStep ==
  ASSUME IInv, [Next]_vars
  PROVE  \/ /\ \A i \in Jobs : status'[i] # "none" <=> status[i] # "none"
            /\ adding' \subseteq adding \/ \E j \in Jobs : AddCheck(j)
         \/ \E j \in Jobs : AddInsert(j) \/ TerminateChannel(j)
<1> DEFINE Same == \A i \in Jobs : status'[i] # "none" <=> status[i] # "none"
<1> USE DEF IInv, TypeOK, TableOK
<1>1. CASE UNCHANGED Steps
  BY <1>1 DEF Steps
<1>2. CASE ProcessStart \/ ProcessReturn \/ Crash
  BY <1>2 DEF ProcessStart, ProcessReturn, Crash, table
<1>3. CASE ReactivateSave
  <2>1. ui.id \in Jobs /\ status[ui.id] # "none" /\ ui.status = "active"
    BY <1>3 DEF ReactivateSave, PendingOK
  <2>2. status' = [status EXCEPT ![ui.id] = ui.status] /\ adding' = adding
    BY <1>3 DEF ReactivateSave, Save
  <2>3. QED
    BY <2>1, <2>2
<1>4. ASSUME NEW j \in Jobs, AddCheck(j) \/ AddAbort(j) \/ ReactivateRead(j)
      PROVE  Same /\ (adding' \subseteq adding \/ AddCheck(j))
  BY <1>4 DEF AddCheck, AddAbort, ReactivateRead, table
<1>5. ASSUME NEW w \in Workers, WorkerSave(w)
      PROVE  Same /\ adding' = adding
  <2>1. loc[w].id \in Jobs /\ Busy(w) /\ loc[w].status # "none"
    BY <1>5 DEF WorkerSave, WorkersOK, Busy, CopyOK
  <2>2. status[loc[w].id] # "none"
    BY <2>1 DEF RunningNotSettled
  <2>3. status' = [status EXCEPT ![loc[w].id] = loc[w].status] /\ adding' = adding
    BY <1>5 DEF WorkerSave, Save
  <2>4. QED
    BY <2>1, <2>2, <2>3
<1>6. ASSUME NEW w \in Workers,
             \/ WorkerRecv(w) \/ WorkerEnd(w) \/ WorkerLookup(w) \/ WorkerRun(w)
             \/ WorkerRecheck(w) \/ WorkerSignal(w) \/ WorkerDrain(w)
             \/ WorkerError(w) \/ WorkerRecheckError(w)
      PROVE  Same /\ adding' = adding
  BY <1>6, WorkersReadOnly
<1>7. QED
  BY <1>1, <1>2, <1>3, <1>4, <1>5, <1>6, OtherSteps

\* A row that passed the check, inserted while nothing else was, is the only one
\* of its event.
LEMMA EventStep ==
  ASSUME OneAdder, IInv, EventInv, [Next]_vars
  PROVE  EventInv'
<1> USE DEF EventInv, IInv, TypeOK, TableOK
<1>1. ASSUME \A i \in Jobs : status'[i] # "none" <=> status[i] # "none",
             adding' \subseteq adding
      PROVE  EventInv'
  <2>1. EventOnce'
    BY <1>1 DEF EventOnce
  <2>2. ASSUME NEW j \in adding' PROVE TypeOf[j] \in Duplicated \/ FirstOfEvent(j)'
    BY <1>1, <2>2 DEF FirstOfEvent
  <2>3. QED
    BY <1>1, <2>1, <2>2
<1>2. ASSUME NEW j \in Jobs, AddCheck(j) PROVE EventInv'
  <2>1. adding' = {j} /\ status' = status
    BY <1>2, SoleAdder DEF AddCheck, table
  <2>2. TypeOf[j] \in Duplicated \/ FirstOfEvent(j)
    BY <1>2 DEF AddCheck, checkDuplicated, FirstOfEvent
  <2>3. QED
    BY <2>1, <2>2 DEF FirstOfEvent, EventOnce
<1>3. ASSUME NEW j \in Jobs, AddInsert(j) PROVE EventInv'
  <2>1. adding' = {} /\ status' = [status EXCEPT ![j] = "active"] /\ status[j] = "none"
    BY <1>3 DEF AddInsert, InsertJob, PendingOK
  <2>2. TypeOf[j] \in Duplicated \/ FirstOfEvent(j)
    BY <1>3 DEF AddInsert
  <2>3. EventOnce'
    BY <2>1, <2>2 DEF EventOnce, FirstOfEvent, SameKind
  <2>4. QED
    BY <2>1, <2>3
<1>4. ASSUME NEW j \in Jobs, TerminateChannel(j) PROVE EventInv'
  <2>1. adding' = adding /\ TypeOf[j] \in Terminating
    BY <1>4 DEF TerminateChannel
  <2>2. \A i \in Jobs \ {j} : status'[i] # "none" <=> status[i] # "none"
    BY <1>4 DEF TerminateChannel, Active
  <2>3. TypeOf[j] \in Duplicated \/ FirstOfEvent(j)
    BY <1>4 DEF TerminateChannel, checkDuplicated, FirstOfEvent
  <2>4. EventOnce'
    BY <2>2, <2>3 DEF EventOnce, FirstOfEvent, SameKind
  <2>5. ASSUME NEW k \in adding PROVE TypeOf[k] \in Duplicated \/ FirstOfEvent(k)'
    <3>1. ~SameKind(j, k)
      BY <2>1 DEF PendingOK, SameKind
    <3>2. QED
      BY <2>2, <3>1 DEF FirstOfEvent
  <2>6. QED
    BY <2>1, <2>4, <2>5
<1>5. QED
  BY <1>1, <1>2, <1>3, <1>4, RowsStep

\* With one Add at a time an event of the blockchain has one job of a kind ever,
\* through cancelations, reactivations, retries and crashes: the check compares
\* with rows of every status, so no writer of the table can undo it.
THEOREM EventsOnce == OneAdder => (Spec => []EventOnce)
<1> SUFFICES ASSUME OneAdder PROVE Spec => []EventOnce
  OBVIOUS
<1>1. Init => EventInv
  BY DEF Init, EventInv, EventOnce
<1>2. IInv /\ EventInv /\ [Next]_vars => EventInv'
  BY EventStep
<1>3. EventInv => EventOnce
  BY DEF EventInv
<1>4. QED
  BY <1>1, <1>2, <1>3, InvCorrect, PTL DEF Spec

-----------------------------------------------------------------------------
(* A job without a transaction is compared with active jobs only, so the   *)
(* answer also depends on nobody making a settled job active again.        *)

\* One call of Add at a time, and neither of the two writers that make a settled
\* row active: ReactivateJob, and TerminateChannel, whose cancelation the save of
\* the running worker may overwrite.
OnlyAdds == OneAdder /\ ~CanReactivate /\ Terminating = {}

\* No worker is about to save a job as canceled.
NoneCanceled == \A w \in Workers : wpc[w] = "save" => loc[w].status # "canceled"

DupInv ==
  /\ ui = None
  /\ \A j \in Jobs : status[j] # "canceled"
  /\ NoneCanceled
  /\ \A i, j \in adding : i = j
  /\ \A j \in adding : TypeOf[j] \in Duplicated \/ checkDuplicated(j)
  /\ NoDuplicates

\* A step that adds no row, makes none active and starts no call of Add keeps
\* the answer of the check.
LEMMA DupKept ==
  ASSUME DupInv, NoneCanceled', ui' = None, adding' \subseteq adding,
         \A i \in Jobs : /\ status'[i] # "canceled"
                         /\ status'[i] # "none" => status[i] # "none"
                         /\ status'[i] = "active" => status[i] = "active"
  PROVE  DupInv'
<1>1. ASSUME NEW j \in adding' PROVE TypeOf[j] \in Duplicated \/ checkDuplicated(j)'
  <2>1. TypeOf[j] \in Duplicated \/ checkDuplicated(j)
    BY DEF DupInv
  <2>2. QED
    BY <2>1 DEF checkDuplicated, Active
<1>2. NoDuplicates'
  BY DEF DupInv, NoDuplicates, Active
<1>3. QED
  BY <1>1, <1>2 DEF DupInv

\* The recheck finds no canceled row.
LEMMA NoneCanceledStep ==
  ASSUME IInv, DupInv, [Next]_vars
  PROVE  NoneCanceled'
<1> SUFFICES ASSUME NEW v \in Workers, wpc'[v] = "save"
             PROVE  loc'[v].status # "canceled"
  BY DEF NoneCanceled
<1> USE DEF IInv, TypeOK, WorkersOK
<1>1. CASE wpc[v] = "save" /\ loc'[v] = loc[v]
  BY <1>1 DEF DupInv, NoneCanceled
<1>2. CASE UNCHANGED Steps
  BY <1>1, <1>2 DEF Steps
<1>3. CASE ProcessStart \/ ProcessReturn \/ Crash
  BY <1>3 DEF ProcessStart, ProcessReturn, Crash
<1>4. CASE ReactivateSave
  BY <1>1, <1>4 DEF ReactivateSave, workV
<1>5. ASSUME NEW j \in Jobs,
             \/ AddCheck(j) \/ AddInsert(j) \/ AddAbort(j)
             \/ TerminateChannel(j) \/ ReactivateRead(j)
      PROVE  loc'[v].status # "canceled"
  BY <1>1, <1>5 DEF AddCheck, AddInsert, AddAbort, TerminateChannel, ReactivateRead, workV
<1>6. ASSUME NEW w \in Workers, v # w,
             \/ WorkerRecv(w) \/ WorkerEnd(w) \/ WorkerLookup(w) \/ WorkerRun(w)
             \/ WorkerRecheck(w) \/ WorkerSave(w) \/ WorkerSignal(w) \/ WorkerDrain(w)
             \/ WorkerError(w) \/ WorkerRecheckError(w)
      PROVE  loc'[v].status # "canceled"
  BY <1>1, <1>6, OneWorker
<1>7. CASE WorkerRun(v)
  <2>1. loc[v] \in JobCopy /\ loc[v].id \in Jobs /\ loc[v].status = "active"
    BY <1>7 DEF WorkerRun, CopyOK
  <2>2. [loc[v] EXCEPT !.status = "done"].status = "done"
    BY <2>1 DEF JobCopy
  <2>3. Retried(loc[v]).status \in {"active", "failed"}
    BY <2>1, RetriedType
  <2>4. loc'[v] = [loc[v] EXCEPT !.status = "done"] \/ loc'[v] = Retried(loc[v])
    BY <1>7 DEF WorkerRun
  <2>5. QED
    BY <2>2, <2>3, <2>4
<1>8. CASE WorkerRecheck(v)
  <2>1. loc[v].id \in Jobs /\ loc[v].status = "active"
    BY <1>8 DEF WorkerRecheck, CopyOK
  <2>2. status[loc[v].id] # "canceled"
    BY <2>1 DEF DupInv
  <2>3. QED
    BY <1>8, <2>1, <2>2 DEF WorkerRecheck
<1>9. CASE \/ WorkerRecv(v) \/ WorkerEnd(v) \/ WorkerLookup(v) \/ WorkerSave(v)
           \/ WorkerSignal(v) \/ WorkerDrain(v) \/ WorkerError(v) \/ WorkerRecheckError(v)
  BY <1>9 DEF WorkerRecv, WorkerEnd, WorkerLookup, WorkerSave, WorkerSignal, WorkerDrain,
              WorkerError, WorkerRecheckError, Goto
<1>10. QED
  BY <1>2, <1>3, <1>4, <1>5, <1>6, <1>7, <1>8, <1>9, OtherSteps

\* An insert keeps to what its check found; every other step leaves the check's
\* answer as it was.
LEMMA DupStep ==
  ASSUME OnlyAdds, IInv, DupInv, [Next]_vars
  PROVE  DupInv'
<1> USE DEF IInv, TypeOK, TableOK
<1>0. ui = None /\ NoneCanceled' /\ \A i \in Jobs : status[i] # "canceled"
  BY NoneCanceledStep DEF DupInv
<1>1. CASE UNCHANGED Steps
  BY <1>0, <1>1, DupKept DEF Steps
<1>2. CASE ProcessStart \/ ProcessReturn \/ Crash
  BY <1>0, <1>2, DupKept DEF ProcessStart, ProcessReturn, Crash, table
<1>3. ~ReactivateSave
  BY <1>0 DEF ReactivateSave
<1>4. ASSUME NEW j \in Jobs PROVE ~TerminateChannel(j) /\ ~ReactivateRead(j)
  BY DEF OnlyAdds, TerminateChannel, ReactivateRead
<1>5. ASSUME NEW j \in Jobs, AddCheck(j) PROVE DupInv'
  <2>1. adding' = {j} /\ status' = status /\ ui' = ui
    BY <1>5, SoleAdder DEF AddCheck, table, OnlyAdds
  <2>2. TypeOf[j] \in Duplicated \/ checkDuplicated(j)
    BY <1>5 DEF AddCheck
  <2>3. QED
    BY <1>0, <2>1, <2>2 DEF DupInv, NoDuplicates, checkDuplicated, Active
<1>6. ASSUME NEW j \in Jobs, AddAbort(j) PROVE DupInv'
  BY <1>0, <1>6, DupKept DEF AddAbort, table
<1>7. ASSUME NEW j \in Jobs, AddInsert(j) PROVE DupInv'
  <2>1. /\ adding' = {} /\ ui' = ui
        /\ status' = [status EXCEPT ![j] = "active"] /\ status[j] = "none"
    BY <1>7 DEF AddInsert, InsertJob, PendingOK, DupInv
  <2>2. TypeOf[j] \in Duplicated \/ checkDuplicated(j)
    BY <1>7 DEF AddInsert, DupInv
  <2>3. NoDuplicates'
    BY <2>1, <2>2 DEF DupInv, NoDuplicates, checkDuplicated, SameKind, Active
  <2>4. QED
    BY <1>0, <2>1, <2>3 DEF DupInv
<1>8. ASSUME NEW w \in Workers, WorkerSave(w) PROVE DupInv'
  <2>1. /\ loc[w].id \in Jobs /\ Busy(w)
        /\ loc[w].status \in {"active", "canceled", "done", "failed"}
    BY <1>8 DEF WorkerSave, WorkersOK, Busy, CopyOK
  <2>2. status[loc[w].id] = "active"
    BY <1>0, <2>1 DEF RunningNotSettled
  <2>3. status' = [status EXCEPT ![loc[w].id] = loc[w].status] /\ adding' = adding /\ ui' = ui
    BY <1>8 DEF WorkerSave, Save
  <2>4. loc[w].status # "canceled"
    BY <1>8 DEF WorkerSave, DupInv, NoneCanceled
  <2>5. QED
    BY <1>0, <2>1, <2>2, <2>3, <2>4, DupKept
<1>9. ASSUME NEW w \in Workers,
             \/ WorkerRecv(w) \/ WorkerEnd(w) \/ WorkerLookup(w) \/ WorkerRun(w)
             \/ WorkerRecheck(w) \/ WorkerSignal(w) \/ WorkerDrain(w)
             \/ WorkerError(w) \/ WorkerRecheckError(w)
      PROVE  DupInv'
  BY <1>0, <1>9, WorkersReadOnly, DupKept
<1>10. QED
  BY <1>1, <1>2, <1>3, <1>4, <1>5, <1>6, <1>7, <1>8, <1>9, OtherSteps

\* With one Add at a time, no cancelation and no reactivation, checkDuplicated
\* admits one job per kind and transaction ever, and no second active job next
\* to one without transaction, through retries, database errors and crashes.
\* Each of the three conditions is needed.
THEOREM DuplicatesCorrect == OnlyAdds => (Spec => []NoDuplicates)
<1> SUFFICES ASSUME OnlyAdds PROVE Spec => []NoDuplicates
  OBVIOUS
<1>1. Init => DupInv
  BY DEF Init, DupInv, NoneCanceled, NoDuplicates
<1>2. IInv /\ DupInv /\ [Next]_vars => DupInv'
  BY DupStep
<1>3. DupInv => NoDuplicates
  BY DEF DupInv
<1>4. QED
  BY <1>1, <1>2, <1>3, InvCorrect, PTL DEF Spec
=============================================================================

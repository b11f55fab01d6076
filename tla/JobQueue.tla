------------------------------ MODULE JobQueue ------------------------------
(***************************************************************************)
(* The job queue of dappctrl (job/queue.go): a table of jobs in the        *)
(* database, the main routine that collects active jobs, the workers that  *)
(* run handlers, Add, Close, and the two other writers of the table,       *)
(* TerminateChannel (proc/channel.go) and ReactivateJob (ui/jobs.go).      *)
(*                                                                         *)
(* A member of Jobs is one call of Add: the row it would insert.  Time is  *)
(* abstracted to whether a row's not_before has passed.                    *)
(***************************************************************************)
EXTENDS Naturals, Sequences, FiniteSets

CONSTANTS
  Jobs,          \* calls of Add, each with the id of the row it inserts
  Rels,          \* related objects (channels, offerings, accounts...)
  Types,         \* job types
  Workers,       \* worker goroutines
  Closers,       \* calls of Close
  None,          \* "no job", "no one", "no transaction hash"
  RelOf,         \* Jobs -> Rels
  TypeOf,        \* Jobs -> Types
  HashOf,        \* Jobs -> transaction hashes; None when there is no EthLog or the
                 \* job updates balances
  Prio,          \* Rels -> Nat, the rank of the related type when collecting
  WorkerOf,      \* Rels -> Workers, crc32(related_id) % len(workers)
  Duplicated,    \* types whose duplicates are not checked
  Delayed,       \* types with a FirstStartDelay
  HasHandler,    \* types with a handler in the HandlerMap
  Terminating,   \* types added by TerminateChannel
  TryLimit,      \* Types -> Nat, 0 means no limit
  WorkerBufLen,
  CollectJobs,
  MaxAdding,     \* bound: calls of Add between their check and their insert
  MaxErrs,       \* bound: database errors outside the worker's recheck
  MaxTxErrs,     \* bound: database errors inside the worker's recheck
  MaxCrashes,    \* bound: crashes of the program
  CanReactivate  \* whether the UI calls ReactivateJob

ASSUME JobQueueAssumption ==
  /\ None \notin Jobs \cup Closers
  /\ RelOf \in [Jobs -> Rels]
  /\ TypeOf \in [Jobs -> Types]
  /\ Prio \in [Rels -> Nat]
  /\ WorkerOf \in [Rels -> Workers]
  /\ TryLimit \in [Types -> Nat]
  /\ WorkerBufLen \in Nat \ {0}
  /\ CollectJobs \in Nat \ {0}
  /\ CanReactivate \in BOOLEAN

ASSUME FinitenessAssumption ==
  /\ IsFiniteSet(Workers)
  /\ IsFiniteSet(Jobs)

VARIABLES
  status,    \* [Jobs -> Status], the jobs table
  tryCount,  \* [Jobs -> Nat]
  due,       \* [Jobs -> BOOLEAN], not_before <= now
  adding,    \* calls of Add that passed checkDuplicated, not yet inserted
  ui,        \* the row a ReactivateJob call has read, None when there is none
  mainPc,    \* control of Process and processMain
  mainErr,   \* the error Process holds or has returned
  rows,      \* rows of the collecting query not yet passed on
  sending,   \* the job the main routine is passing to its worker
  buf,       \* [Workers -> Seq(Jobs)], the channels w.job
  wpc,       \* [Workers -> control of processWorker]
  loc,       \* [Workers -> the worker's copy of its job]
  wres,      \* [Workers -> BOOLEAN], the worker ended with an error
  exitOpen,  \* q.exit # nil
  exit,      \* tokens in the channel q.exit
  exited,    \* tokens in the channel q.exited
  mtx,       \* the closer that holds q.mtx, None when it is free
  cpc,       \* [Closers -> control of Close]
  faults     \* how many faults of each kind have happened

table  == <<status, tryCount, due>>
mainV  == <<mainPc, mainErr, rows, sending>>
workV  == <<wpc, loc, wres>>
closeV == <<exitOpen, exited, mtx, cpc>>
vars   == <<table, adding, ui, mainV, buf, workV, closeV, exit, faults>>

Status  == {"none", "active", "done", "failed", "canceled"}
MainPcs == {"stopped", "poll", "collect", "pass", "send", "join", "tell", "finish"}
WPcs    == {"down", "recv", "lookup", "run", "recheck", "save", "signal",
            "drain", "stopped"}
CPcs    == {"idle", "lock", "ask", "wait", "returned"}
Results == {"none", "closed", "error"}
JobCopy == [id : Jobs \cup {None}, status : Status, tryCount : Nat, due : BOOLEAN]
NoJob   == [id |-> None, status |-> "none", tryCount |-> 0, due |-> FALSE]

-----------------------------------------------------------------------------
(* The jobs table and its writers outside the queue's own goroutines.      *)

Active(j) == status[j] = "active"

SameKind(i, j) == RelOf[i] = RelOf[j] /\ TypeOf[i] = TypeOf[j]

\* Mutant of checkDuplicated: an event's job is compared with active jobs only.
checkDuplicated_ActiveOnly(j) ==
  \A i \in Jobs : SameKind(i, j) => ~Active(i)

\* An event's job is a duplicate of any job of its kind, whatever its status,
\* that stems from the same transaction or has no transaction; any other job
\* is a duplicate of an active job of its kind.  Rows that other calls have
\* not committed yet are not seen.
checkDuplicated(j) ==
  \A i \in Jobs :
    status[i] # "none" /\ SameKind(i, j) =>
      IF HashOf[j] # None THEN HashOf[i] \notin {None, HashOf[j]}
                          ELSE ~Active(i)

\* The insert of a row that passed the check.
InsertJob(j) ==
  /\ status' = [status EXCEPT ![j] = "active"]
  /\ tryCount' = [tryCount EXCEPT ![j] = 0]
  /\ due' = [due EXCEPT ![j] = TypeOf[j] \notin Delayed]

\* Add up to the insert: the duplicate check reads outside the caller's
\* transaction, so calls interleave between check and insert.
AddCheck(j) ==
  /\ status[j] = "none"
  /\ j \notin adding
  /\ TypeOf[j] \notin Terminating
  /\ Cardinality(adding) < MaxAdding
  /\ TypeOf[j] \in Duplicated \/ checkDuplicated(j)
  /\ adding' = adding \cup {j}
  /\ UNCHANGED <<table, ui, mainV, buf, workV, closeV, exit, faults>>

\* The row becomes visible: the insert, or the commit of the transaction.
AddInsert(j) ==
  /\ j \in adding
  /\ adding' = adding \ {j}
  /\ InsertJob(j)
  /\ UNCHANGED <<ui, mainV, buf, workV, closeV, exit, faults>>

\* The insert fails, or the caller rolls its transaction back.
AddAbort(j) ==
  /\ j \in adding
  /\ adding' = adding \ {j}
  /\ UNCHANGED <<table, ui, mainV, buf, workV, closeV, exit, faults>>

\* TerminateChannel, one transaction under the channel's row lock: refuse if
\* the same job is active, cancel every active job of the channel, add the
\* terminating job.  The channel's service status is left to the environment.
TerminateChannel(j) ==
  /\ status[j] = "none"
  /\ TypeOf[j] \in Terminating
  /\ ~\E i \in Jobs : SameKind(i, j) /\ Active(i)
  /\ TypeOf[j] \in Duplicated \/ checkDuplicated(j)
  /\ status' = [i \in Jobs |->
                  CASE i = j -> "active"
                    [] i # j /\ Active(i) /\ RelOf[i] = RelOf[j] -> "canceled"
                    [] OTHER -> status[i]]
  /\ tryCount' = [tryCount EXCEPT ![j] = 0]
  /\ due' = [due EXCEPT ![j] = TypeOf[j] \notin Delayed]
  /\ UNCHANGED <<adding, ui, mainV, buf, workV, closeV, exit, faults>>

\* ReactivateJob reads the row and refuses a done or an active job ...
ReactivateRead(j) ==
  /\ CanReactivate
  /\ ui = None
  /\ status[j] \in {"failed", "canceled"}
  /\ ui' = [id |-> j, status |-> "active", tryCount |-> 0, due |-> due[j]]
  /\ UNCHANGED <<table, adding, mainV, buf, workV, closeV, exit, faults>>

\* A save writes every column of the row.
Save(c) ==
  /\ status' = [status EXCEPT ![c.id] = c.status]
  /\ tryCount' = [tryCount EXCEPT ![c.id] = c.tryCount]
  /\ due' = [due EXCEPT ![c.id] = c.due]

\* ... and later saves the whole row it read, made active again.
ReactivateSave ==
  /\ ui # None
  /\ Save(ui)
  /\ ui' = None
  /\ UNCHANGED <<adding, mainV, buf, workV, closeV, exit, faults>>

\* A row's not_before passes.
Elapse(j) ==
  /\ Active(j)
  /\ ~due[j]
  /\ due' = [due EXCEPT ![j] = TRUE]
  /\ UNCHANGED <<status, tryCount, adding, ui, mainV, buf, workV, closeV, exit, faults>>

-----------------------------------------------------------------------------
(* Process and processMain.                                                *)

\* Process takes the mutex, makes the channels and starts the workers.
ProcessStart ==
  /\ mainPc = "stopped"
  /\ ~exitOpen
  /\ mtx = None
  /\ exitOpen' = TRUE
  /\ exit' = 0
  /\ exited' = 0
  /\ buf' = [w \in Workers |-> <<>>]
  /\ wpc' = [w \in Workers |-> "recv"]
  /\ wres' = [w \in Workers |-> FALSE]
  /\ mainPc' = "poll"
  /\ mainErr' = "none"
  /\ UNCHANGED <<table, adding, ui, rows, sending, loc, mtx, cpc, faults>>

MainStops(err) ==
  /\ mainPc' = "join"
  /\ mainErr' = err
  /\ rows' = {}

\* Mutant of CheckExit: a token is taken whether or not there is one.
CheckExit_Blind(next) ==
  /\ exit' = exit - 1
  /\ MainStops("closed")
  /\ UNCHANGED sending

\* checkExit takes one token; without one the routine goes on with next.
CheckExit(next) ==
  \/ /\ exit > 0
     /\ exit' = exit - 1
     /\ MainStops("closed")
     /\ UNCHANGED sending
  \/ /\ exit = 0
     /\ next
     /\ UNCHANGED <<exit, mainErr>>

MainPoll ==
  /\ mainPc = "poll"
  /\ CheckExit(mainPc' = "collect" /\ UNCHANGED <<rows, sending>>)
  /\ UNCHANGED <<table, adding, ui, buf, workV, closeV, faults>>

\* DISTINCT ON (related_id): any one active job of each related object.
Representatives ==
  {R \in SUBSET {j \in Jobs : Active(j)} :
     /\ \A i, j \in R : RelOf[i] = RelOf[j] => i = j
     /\ \A j \in Jobs : Active(j) => \E i \in R : RelOf[i] = RelOf[j]}

\* Only then are the rows that are not due dropped, and the rest limited to
\* the CollectJobs of the highest rank.
Collected(R) ==
  LET D == {j \in R : due[j]}
  IN  {S \in SUBSET D :
         /\ Cardinality(S) <= CollectJobs
         /\ S # D => Cardinality(S) = CollectJobs
         /\ \A i \in S, j \in D \ S : Prio[RelOf[i]] <= Prio[RelOf[j]]}

MainCollect ==
  /\ mainPc = "collect"
  /\ \E R \in Representatives : rows' \in Collected(R)
  /\ mainPc' = "pass"
  /\ UNCHANGED <<table, adding, ui, mainErr, sending, buf, workV, closeV, exit, faults>>

\* The query, rows.Scan or rows.Err fails.
MainError ==
  /\ mainPc \in {"collect", "pass"}
  /\ faults.db < MaxErrs
  /\ faults' = [faults EXCEPT !.db = @ + 1]
  /\ MainStops("error")
  /\ UNCHANGED <<table, adding, ui, sending, buf, workV, closeV, exit>>

\* rows.Next: the next row in rank order; the rank decides between rows, the
\* creation time, left open here, between rows of one rank.
MainNextRow ==
  /\ mainPc = "pass"
  /\ rows # {}
  /\ CheckExit(\E j \in rows :
       /\ \A i \in rows : Prio[RelOf[j]] <= Prio[RelOf[i]]
       /\ sending' = j
       /\ rows' = rows \ {j}
       /\ mainPc' = "send")
  /\ UNCHANGED <<table, adding, ui, buf, workV, closeV, faults>>

\* No more rows: sleep for the rest of the period and start over.
MainSleep ==
  /\ mainPc = "pass"
  /\ rows = {}
  /\ mainPc' = "poll"
  /\ UNCHANGED <<table, adding, ui, mainErr, rows, sending, buf, workV, closeV, exit, faults>>

uuidWorker(rel) == WorkerOf[rel]

\* Mutant of MainSend: the job goes to any worker.
MainSend_AnyWorker ==
  /\ mainPc = "send"
  /\ \E w \in Workers :
       /\ Len(buf[w]) < WorkerBufLen
       /\ buf' = [buf EXCEPT ![w] = Append(@, sending)]
  /\ sending' = None
  /\ mainPc' = "pass"
  /\ UNCHANGED <<table, adding, ui, mainErr, rows, workV, closeV, exit, faults>>

\* The send blocks while the worker's channel is full.
MainSend ==
  LET w == uuidWorker(RelOf[sending]) IN
  /\ mainPc = "send"
  /\ Len(buf[w]) < WorkerBufLen
  /\ buf' = [buf EXCEPT ![w] = Append(@, sending)]
  /\ sending' = None
  /\ mainPc' = "pass"
  /\ UNCHANGED <<table, adding, ui, mainErr, rows, workV, closeV, exit, faults>>

\* Mutant of MainJoin: the workers' errors are dropped.
MainJoin_ErrorsDropped ==
  /\ mainPc = "join"
  /\ \A w \in Workers : wpc[w] = "stopped"
  /\ mainPc' = "tell"
  /\ UNCHANGED <<table, adding, ui, mainErr, rows, sending, buf, workV, closeV, exit, faults>>

\* The workers' channels are closed; Process waits for every result, and a
\* worker's error replaces ErrQueueClosed.
MainJoin ==
  /\ mainPc = "join"
  /\ \A w \in Workers : wpc[w] = "stopped"
  /\ mainErr' = IF mainErr = "closed" /\ \E w \in Workers : wres[w]
                THEN "error" ELSE mainErr
  /\ mainPc' = "tell"
  /\ UNCHANGED <<table, adding, ui, rows, sending, buf, workV, closeV, exit, faults>>

\* Mutant of MainTellExited: nothing is sent to q.exited.
MainTellExited_Silent ==
  /\ mainPc = "tell"
  /\ mainPc' = "finish"
  /\ UNCHANGED <<table, adding, ui, mainErr, rows, sending, buf, workV, closeV, exit, faults>>

MainTellExited ==
  /\ mainPc = "tell"
  /\ exited = 0
  /\ exited' = 1
  /\ mainPc' = "finish"
  /\ UNCHANGED <<table, adding, ui, mainErr, rows, sending, buf, workV,
                 exitOpen, mtx, cpc, exit, faults>>

\* Process takes the mutex again to set q.exit to nil, and returns.
ProcessReturn ==
  /\ mainPc = "finish"
  /\ mtx = None
  /\ exitOpen' = FALSE
  /\ mainPc' = "stopped"
  /\ wpc' = [w \in Workers |-> "down"]
  /\ UNCHANGED <<table, adding, ui, mainErr, rows, sending, buf, loc, wres,
                 exited, mtx, cpc, exit, faults>>

-----------------------------------------------------------------------------
(* processWorker.                                                          *)

ChannelsClosed == mainPc \in {"join", "tell", "finish"}

Goto(w, pc) == wpc' = [wpc EXCEPT ![w] = pc]

Forget(w) == loc' = [loc EXCEPT ![w] = NoJob]

\* id := <-w.job; only the id travels, the row is read afterwards.
WorkerRecv(w) ==
  /\ wpc[w] = "recv"
  /\ buf[w] # <<>>
  /\ loc' = [loc EXCEPT ![w] = [NoJob EXCEPT !.id = Head(buf[w])]]
  /\ buf' = [buf EXCEPT ![w] = Tail(@)]
  /\ Goto(w, "lookup")
  /\ UNCHANGED <<table, adding, ui, mainV, wres, closeV, exit, faults>>

\* The channel is closed and empty: the loop ends without an error.
WorkerEnd(w) ==
  /\ wpc[w] = "recv"
  /\ buf[w] = <<>>
  /\ ChannelsClosed
  /\ Goto(w, "stopped")
  /\ UNCHANGED <<table, adding, ui, mainV, buf, loc, wres, closeV, exit, faults>>

\* Mutant of Runnable: the job is not looked at again before it is run.
Runnable_Unchecked(j) == status[j] # "none"

Runnable(j) == Active(j) /\ due[j]

\* The row is read; a job that is no longer active or not due is skipped, one
\* without a handler ends the worker with ErrHandlerNotFound.
WorkerLookup(w) ==
  LET j == loc[w].id IN
  /\ wpc[w] = "lookup"
  /\ \/ /\ ~Runnable(j)
        /\ Goto(w, "recv")
        /\ Forget(w)
        /\ UNCHANGED wres
     \/ /\ Runnable(j)
        /\ TypeOf[j] \notin HasHandler
        /\ wres' = [wres EXCEPT ![w] = TRUE]
        /\ Goto(w, "signal")
        /\ Forget(w)
     \/ /\ Runnable(j)
        /\ TypeOf[j] \in HasHandler
        /\ loc' = [loc EXCEPT ![w] = [id |-> j, status |-> status[j],
                                      tryCount |-> tryCount[j], due |-> due[j]]]
        /\ Goto(w, "run")
        /\ UNCHANGED wres
  /\ UNCHANGED <<table, adding, ui, mainV, buf, closeV, exit, faults>>

\* Mutant of Retried: one try more than the limit.
Retried_OffByOne(c) ==
  LET limit == TryLimit[TypeOf[c.id]]
      tries == IF limit # 0 THEN c.tryCount + 1 ELSE c.tryCount
  IN  IF limit # 0 /\ tries > limit
      THEN [c EXCEPT !.tryCount = tries, !.status = "failed"]
      ELSE [c EXCEPT !.tryCount = tries, !.due = FALSE]

\* Mutant of Retried: tries are not counted.
Retried_Uncounted(c) == [c EXCEPT !.due = FALSE]

\* processJob after the handler returned an error: count the try and either
\* fail the job or schedule a retry.
Retried(c) ==
  LET limit == TryLimit[TypeOf[c.id]]
      tries == IF limit # 0 THEN c.tryCount + 1 ELSE c.tryCount
  IN  IF limit # 0 /\ tries >= limit
      THEN [c EXCEPT !.tryCount = tries, !.status = "failed"]
      ELSE [c EXCEPT !.tryCount = tries, !.due = FALSE]

\* The handler returns; a job that is to be retried is rechecked before the
\* save, any other is saved at once.
WorkerRun(w) ==
  /\ wpc[w] = "run"
  /\ \/ loc' = [loc EXCEPT ![w].status = "done"]
     \/ loc' = [loc EXCEPT ![w] = Retried(@)]
  /\ Goto(w, IF loc'[w].status = "active" THEN "recheck" ELSE "save")
  /\ UNCHANGED <<table, adding, ui, mainV, buf, wres, closeV, exit, faults>>

\* A transaction of its own reads the row: a job canceled meanwhile is not to
\* be retried.  The transaction ends before the save.
WorkerRecheck(w) ==
  /\ wpc[w] = "recheck"
  /\ loc' = IF status[loc[w].id] = "canceled"
            THEN [loc EXCEPT ![w].status = "canceled"] ELSE loc
  /\ Goto(w, "save")
  /\ UNCHANGED <<table, adding, ui, mainV, buf, wres, closeV, exit, faults>>

\* Begin, the select or the commit of that transaction fails.  Its err shadows
\* the loop's err, which stays nil: the worker ends without a word.
WorkerRecheckError(w) ==
  /\ wpc[w] = "recheck"
  /\ faults.tx < MaxTxErrs
  /\ faults' = [faults EXCEPT !.tx = @ + 1]
  /\ Goto(w, "stopped")
  /\ Forget(w)
  /\ UNCHANGED <<table, adding, ui, mainV, buf, wres, closeV, exit>>

WorkerSave(w) ==
  /\ wpc[w] = "save"
  /\ Save(loc[w])
  /\ Goto(w, "recv")
  /\ Forget(w)
  /\ UNCHANGED <<adding, ui, mainV, buf, wres, closeV, exit, faults>>

\* Reading the row or saving it fails.
WorkerError(w) ==
  /\ wpc[w] \in {"lookup", "save"}
  /\ faults.db < MaxErrs
  /\ faults' = [faults EXCEPT !.db = @ + 1]
  /\ wres' = [wres EXCEPT ![w] = TRUE]
  /\ Goto(w, "signal")
  /\ Forget(w)
  /\ UNCHANGED <<table, adding, ui, mainV, buf, closeV, exit>>

\* q.exit <- struct{}{}: the channel holds one token per worker.
WorkerSignal(w) ==
  /\ wpc[w] = "signal"
  /\ exit < Cardinality(Workers)
  /\ exit' = exit + 1
  /\ Goto(w, "drain")
  /\ UNCHANGED <<table, adding, ui, mainV, buf, loc, wres, closeV, faults>>

\* Mutant of WorkerDrain: nothing is taken out of the channel.
WorkerDrain_Nothing(w) ==
  /\ wpc[w] = "drain"
  /\ Goto(w, "stopped")
  /\ UNCHANGED <<table, adding, ui, mainV, buf, loc, wres, closeV, exit, faults>>

\* One job is taken out, so that the main routine is not blocked passing one.
WorkerDrain(w) ==
  /\ wpc[w] = "drain"
  /\ buf' = IF buf[w] = <<>> THEN buf ELSE [buf EXCEPT ![w] = Tail(@)]
  /\ Goto(w, "stopped")
  /\ UNCHANGED <<table, adding, ui, mainV, loc, wres, closeV, exit, faults>>

-----------------------------------------------------------------------------
(* Close, and a crash of the program.                                      *)

CloseCall(c) ==
  /\ cpc[c] = "idle"
  /\ cpc' = [cpc EXCEPT ![c] = "lock"]
  /\ UNCHANGED <<table, adding, ui, mainV, buf, workV, exitOpen, exited, mtx, exit, faults>>

CloseLock(c) ==
  /\ cpc[c] = "lock"
  /\ mtx = None
  /\ \/ /\ ~exitOpen
        /\ cpc' = [cpc EXCEPT ![c] = "returned"]
        /\ UNCHANGED mtx
     \/ /\ exitOpen
        /\ cpc' = [cpc EXCEPT ![c] = "ask"]
        /\ mtx' = c
  /\ UNCHANGED <<table, adding, ui, mainV, buf, workV, exitOpen, exited, exit, faults>>

CloseAsk(c) ==
  /\ cpc[c] = "ask"
  /\ exit < Cardinality(Workers)
  /\ exit' = exit + 1
  /\ cpc' = [cpc EXCEPT ![c] = "wait"]
  /\ UNCHANGED <<table, adding, ui, mainV, buf, workV, exitOpen, exited, mtx, faults>>

CloseReturn(c) ==
  /\ cpc[c] = "wait"
  /\ exited = 1
  /\ exited' = 0
  /\ mtx' = None
  /\ cpc' = [cpc EXCEPT ![c] = "returned"]
  /\ UNCHANGED <<table, adding, ui, mainV, buf, workV, exitOpen, exit, faults>>

\* The program dies: everything but the table is lost.
Crash ==
  /\ faults.crash < MaxCrashes
  /\ faults' = [faults EXCEPT !.crash = @ + 1]
  /\ adding' = {}
  /\ ui' = None
  /\ mainPc' = "stopped"
  /\ mainErr' = "none"
  /\ rows' = {}
  /\ sending' = None
  /\ buf' = [w \in Workers |-> <<>>]
  /\ wpc' = [w \in Workers |-> "down"]
  /\ wres' = [w \in Workers |-> FALSE]
  /\ exitOpen' = FALSE
  /\ exit' = 0
  /\ exited' = 0
  /\ mtx' = None
  /\ cpc' = [c \in Closers |-> "idle"]
  /\ loc' = [w \in Workers |-> NoJob]
  /\ UNCHANGED table

-----------------------------------------------------------------------------
Init ==
  /\ status = [j \in Jobs |-> "none"]
  /\ tryCount = [j \in Jobs |-> 0]
  /\ due = [j \in Jobs |-> FALSE]
  /\ adding = {}
  /\ ui = None
  /\ mainPc = "stopped"
  /\ mainErr = "none"
  /\ rows = {}
  /\ sending = None
  /\ buf = [w \in Workers |-> <<>>]
  /\ wpc = [w \in Workers |-> "down"]
  /\ loc = [w \in Workers |-> NoJob]
  /\ wres = [w \in Workers |-> FALSE]
  /\ exitOpen = FALSE
  /\ exit = 0
  /\ exited = 0
  /\ mtx = None
  /\ cpc = [c \in Closers |-> "idle"]
  /\ faults = [db |-> 0, tx |-> 0, crash |-> 0]

-----------------------------------------------------------------------------
MainNext ==
  \/ ProcessStart \/ MainPoll \/ MainCollect \/ MainNextRow \/ MainSend
  \/ MainSleep \/ MainJoin \/ MainTellExited \/ ProcessReturn

WorkerNext(w) ==
  \/ WorkerRecv(w) \/ WorkerEnd(w) \/ WorkerLookup(w) \/ WorkerRun(w)
  \/ WorkerRecheck(w) \/ WorkerSave(w) \/ WorkerSignal(w) \/ WorkerDrain(w)

CloserNext(c) == CloseLock(c) \/ CloseAsk(c) \/ CloseReturn(c)

JobNext(j) ==
  \/ AddCheck(j) \/ AddInsert(j) \/ AddAbort(j)
  \/ TerminateChannel(j) \/ ReactivateRead(j) \/ Elapse(j)

FaultNext ==
  \/ MainError
  \/ \E w \in Workers : WorkerError(w) \/ WorkerRecheckError(w)
  \/ Crash

Next ==
  \/ MainNext
  \/ \E w \in Workers : WorkerNext(w)
  \/ \E c \in Closers : CloseCall(c) \/ CloserNext(c)
  \/ \E j \in Jobs : JobNext(j)
  \/ ReactivateSave
  \/ FaultNext

Spec == Init /\ [][Next]_vars

(***************************************************************************)
(* Goroutines are scheduled fairly, handlers return, time passes.  Nothing *)
(* makes a caller add, cancel, reactivate or close, and no fault has to    *)
(* happen.                                                                 *)
(***************************************************************************)
Fairness ==
  /\ WF_vars(MainNext)
  /\ \A w \in Workers : WF_vars(WorkerNext(w))
  /\ \A c \in Closers : WF_vars(CloserNext(c))
  /\ \A j \in Jobs : WF_vars(Elapse(j))

FairSpec == Spec /\ Fairness

-----------------------------------------------------------------------------
(* Properties.                                                             *)

TableOK ==
  /\ status \in [Jobs -> Status]
  /\ tryCount \in [Jobs -> Nat]
  /\ due \in [Jobs -> BOOLEAN]
  /\ adding \subseteq Jobs
  /\ ui = None \/ (ui \in JobCopy /\ ui.id \in Jobs)

MainOK ==
  /\ mainPc \in MainPcs
  /\ mainErr \in Results
  /\ rows \subseteq Jobs
  /\ sending \in Jobs \cup {None}
  /\ mainPc = "send" => sending \in Jobs
  /\ faults \in [db : Nat, tx : Nat, crash : Nat]

BufOK == buf \in [Workers -> Seq(Jobs)]

WorkersOK ==
  /\ wpc \in [Workers -> WPcs]
  /\ wres \in [Workers -> BOOLEAN]
  /\ loc \in [Workers -> JobCopy]
  /\ \A w \in Workers : wpc[w] \in {"lookup", "run", "recheck", "save"} => loc[w].id \in Jobs

CloseOK ==
  /\ exitOpen \in BOOLEAN
  /\ exit \in Nat
  /\ exited \in {0, 1}
  /\ mtx \in Closers \cup {None}
  /\ cpc \in [Closers -> CPcs]

\* The type invariant: every variable has its type, and a worker that has taken
\* an id from its channel, or a main routine about to send one, has a job.
TypeOK == TableOK /\ MainOK /\ BufOK /\ WorkersOK /\ CloseOK

Busy(w) == wpc[w] \in {"run", "recheck", "save"}

\* An id, once on its way, is in the channel or the hands of its own worker.
Routed ==
  /\ \A w \in Workers : \A i \in 1..Len(buf[w]) : WorkerOf[RelOf[buf[w][i]]] = w
  /\ \A w \in Workers : (wpc[w] = "lookup" \/ Busy(w)) => WorkerOf[RelOf[loc[w].id]] = w

\* What is known of the rows others hold a copy of or are about to insert.
PendingOK ==
  /\ \A j \in adding : status[j] = "none" /\ TypeOf[j] \notin Terminating
  /\ ui # None => ui.status = "active" /\ ui.tryCount = 0 /\ status[ui.id] # "none"

\* A worker's copy is active until its handler has returned, and counts tries
\* as the table does.
CopyOK ==
  \A w \in Workers :
    LET limit == TryLimit[TypeOf[loc[w].id]] IN
    /\ wpc[w] \in {"run", "recheck"} => loc[w].status = "active"
    /\ wpc[w] = "save" => loc[w].status \in {"active", "canceled", "done", "failed"}
    /\ Busy(w) /\ loc[w].status = "active" /\ limit # 0 => loc[w].tryCount < limit
    /\ Busy(w) /\ loc[w].status = "failed" => limit # 0 /\ loc[w].tryCount = limit

\* The queue implements JobExecution: a job runs from the moment its worker has
\* read it as active until the worker has saved it.
Running == {loc[w].id : w \in {v \in Workers : Busy(v)}}

Execution == INSTANCE JobExecution WITH running <- Running

\* Whatever the interleaving of the main routine, workers, Add, cancelation,
\* reactivation, database errors and crashes, the queue keeps JobExecution's
\* promise: one run per related object, and only its own run settles a job.
ImplementsExecution == Execution!Spec

\* Handlers of one related object never overlap: uuidWorker sends all jobs of
\* an object to one worker, so handlers may read and write its rows freely.
OneHandlerPerRelated ==
  \A v, w \in Workers :
    Busy(v) /\ Busy(w) /\ v # w => RelOf[loc[v].id] # RelOf[loc[w].id]

\* While a worker is between reading a job and saving it nobody else settles
\* it, so the worker's full-row save never turns a done or failed row back.
RunningNotSettled ==
  \A w \in Workers : Busy(w) => status[loc[w].id] \in {"active", "canceled"}

\* A limited job has tries left while it is active, in the table and in every
\* copy, and fails exactly when they are used up; an unlimited job never fails.
TriesRespectLimit ==
  \A j \in Jobs :
    LET limit == TryLimit[TypeOf[j]] IN
    /\ Active(j) /\ limit # 0 => tryCount[j] < limit
    /\ status[j] = "failed" => limit # 0 /\ tryCount[j] = limit

\* Process reports ErrQueueClosed only if Close was called: an error of a
\* worker stops the main routine through the same channel as Close.
ClosedOnlyByClose ==
  mainPc \in {"tell", "finish", "stopped"} /\ mainErr = "closed" =>
    \E c \in Closers : cpc[c] \in {"wait", "returned"}

\* The inductive invariant: routing gives mutual exclusion, mutual exclusion
\* gives that only its own worker settles a job, and the copies keep to the
\* same limits as the table.
IInv == TypeOK /\ Routed /\ PendingOK /\ CopyOK /\ RunningNotSettled /\ TriesRespectLimit

\* No job is run again once it is done, unless ReactivateJob saves it.
DoneIsFinal ==
  [][\A j \in Jobs : status[j] = "done" /\ status'[j] # "done" =>
        ui # None /\ ui' = None /\ ui.id = j]_vars

\* With one Add at a time, checkDuplicated admits one job per kind and
\* transaction ever, and no second active job next to one without transaction.
NoDuplicates ==
  \A i, j \in Jobs :
    (i # j /\ SameKind(i, j) /\ TypeOf[i] \notin Duplicated
       /\ status[i] # "none" /\ status[j] # "none") =>
      IF HashOf[i] = None THEN ~(Active(i) /\ Active(j))
                          ELSE HashOf[i] # HashOf[j]

\* As long as nothing stops Process, every job that was added is eventually
\* done, failed or canceled, behind full channels, retries and delayed jobs of
\* the same object.
JobsSettle ==
  [](faults.db = 0 /\ \A c \in Closers : cpc[c] = "idle") =>
    \A j \in Jobs : Active(j) ~> ~Active(j)

\* Close returns: the main routine takes its token, the workers finish.
CloseReturns == \A c \in Closers : cpc[c] = "lock" ~> cpc[c] \in {"returned", "idle"}

\* "This function does not return until an error occurs or Close() is called":
\* when a worker ends, Process returns, even if the main routine is blocked
\* passing a job to that worker.
WorkerEndStopsProcess ==
  \A w \in Workers : wpc[w] \in {"signal", "stopped"} ~> mainPc = "stopped"

\* "If job was canceled while running a handler make sure it won't be retried":
\* a canceled job becomes active again only by ReactivateJob.
CanceledNotRetried ==
  [][\A j \in Jobs : status[j] = "canceled" /\ status'[j] = "active" =>
        ui # None /\ ui' = None]_vars
=============================================================================

------------------------- MODULE ServiceLifecycle -------------------------
(***************************************************************************)
(* The life of one channel as one controller sees it: the row of the       *)
(* channel (its channel status and its service status), the jobs that      *)
(* change it (proc/worker/agent.go, client.go, common.go), the orders that *)
(* add and cancel jobs (proc/channel.go) given by the user (ui/channel.go) *)
(* and by the billing monitors, the session server and its adapter (sess), *)
(* the jobs made from the events of the contract (bc/jobsmaker.go) and the *)
(* recovery after a crash (data/recover.go).                               *)
(*                                                                         *)
(* `role' says whether the controller is the agent's or the client's; the  *)
(* other side is part of the environment.  The jobs of a channel run one   *)
(* at a time and in any order (JobQueue: one job of a related object is    *)
(* collected, whichever the database returns).  The receipt of the channel *)
(* is reduced to `paid': its amounts are the subject of Payment.           *)
(***************************************************************************)
EXTENDS Naturals

CONSTANTS
  Roles,        \* roles to look at, a subset of {"agent", "client"}
  PayFirst,     \* the offering is prepaid or has a setup price
  MaxOrders,    \* bound: orders of the user and of the billing monitors
  MaxSessions,  \* bound: sessions of the adapter
  MaxFaults,    \* bound: crashes and failed handlers, below every TryLimit
  MaxLoad       \* bound: orders, faults and (twice) sessions together

ASSUME LifecycleAssumption ==
  /\ Roles \subseteq {"agent", "client"}
  /\ PayFirst \in BOOLEAN
  /\ MaxOrders \in Nat /\ MaxSessions \in Nat /\ MaxFaults \in Nat
  /\ MaxLoad \in Nat

ChannelStatus == {"none", "pending", "active", "wait_challenge", "in_challenge",
                  "wait_uncoop", "closed_coop", "closed_uncoop"}
Transitional  == {"activating", "suspending", "terminating"}
ServiceStatus == {"none", "pending", "active", "suspended", "terminated"} \cup Transitional

\* Job types of a channel, those of the two roles under one name; the job
\* completeServiceTransition by the status in its data.
Events      == {"created", "requested", "coop", "uncoop"}
Orders      == {"suspend", "unsuspend", "terminate"}
Completions == {"toActive", "toSuspended", "toTerminated"}
Kinds       == Events \cup Orders \cup Completions \cup {"create", "endpoint", "request", "settle"}

Target == [toActive |-> "active", toSuspended |-> "suspended", toTerminated |-> "terminated"]

\* The channel in the contract and the transactions that change it.
ChainStatus == {"none", "open", "challenge", "ended", "coop", "uncoop"}
Closed      == {"coop", "uncoop"}
Txs         == {"create", "request", "settle", "coop"}

Run   == [kind : Kinds \cup {"none"}, stage : {"run", "save"},
          res : {"ok", "refused", "fault"}, counted : BOOLEAN]
Count == [orders : Nat, sessions : Nat, faults : Nat]
NoRun == [kind |-> "none", stage |-> "run", res |-> "ok", counted |-> FALSE]

VARIABLES
  role,   \* role of the controller
  ch,     \* channel_status of the row, "none" when there is no row
  svc,    \* service_status of the row
  block,  \* the row has the number of the channel's block
  jobs,   \* [Kinds -> Nat], jobs of the channel with status active
  run,    \* the running handler; counted: its job is still active
  paid,   \* the agent has a receipt
  coopJob,\* a job AfterCooperativeClose has been added, whatever became of it
  chain,  \* the channel in the contract
  txs,    \* transactions sent and not mined
  log,    \* events of the contract that are not jobs yet
  notes,  \* callbacks of saved jobs that have not run
  cmd,    \* commands the adapter has got and not obeyed
  call,   \* completion the session server has decided on and not added
  sess,   \* the adapter has a session
  count   \* [orders, sessions, faults], for the bounds

dbVars      == <<ch, svc, block, paid, coopJob>>
chainVars   == <<chain, txs, log>>
adapterVars == <<notes, cmd, call, sess>>
vars == <<role, dbVars, jobs, run, chainVars, adapterVars, count>>

TypeOK ==
  /\ role \in {"agent", "client"}
  /\ ch \in ChannelStatus /\ svc \in ServiceStatus
  /\ block \in BOOLEAN /\ paid \in BOOLEAN /\ coopJob \in BOOLEAN
  /\ jobs \in [Kinds -> Nat]
  /\ run \in Run
  /\ chain \in ChainStatus /\ txs \subseteq Txs /\ log \subseteq Events
  /\ notes \subseteq Kinds /\ cmd \subseteq {"start", "stop"}
  /\ call \in Completions \cup {"none"} /\ sess \in BOOLEAN
  /\ count \in Count

Init ==
  /\ role \in Roles
  /\ ch = "none" /\ svc = "none" /\ block = FALSE /\ paid = FALSE /\ coopJob = FALSE
  /\ jobs = [k \in Kinds |-> 0] /\ run = NoRun
  /\ chain = "none" /\ txs = {} /\ log = {}
  /\ notes = {} /\ cmd = {} /\ call = "none" /\ sess = FALSE
  /\ count = [orders |-> 0, sessions |-> 0, faults |-> 0]

Load == count.orders + count.faults + 2 * count.sessions

-----------------------------------------------------------------------------
(* The contract and the other side.                                        *)

\* What a mined transaction does to the channel, if the contract accepts it.
Applies(t) ==
  CASE t = "create"  -> chain = "none"
    [] t = "request" -> chain = "open"
    [] t = "settle"  -> chain = "ended"
    [] t = "coop"    -> chain \in {"open", "challenge", "ended"}

EventOf == [create |-> "created", request |-> "requested", settle |-> "uncoop", coop |-> "coop"]
AfterTx == [create |-> "open", request |-> "challenge", settle |-> "uncoop", coop |-> "coop"]

Take(t) == chain' = AfterTx[t] /\ log' = log \cup {EventOf[t]}

Mine(t) ==
  /\ t \in txs
  /\ txs' = txs \ {t}
  /\ IF Applies(t) THEN Take(t) ELSE UNCHANGED <<chain, log>>
  /\ UNCHANGED <<role, dbVars, jobs, run, adapterVars, count>>

ChallengeEnds ==
  /\ chain = "challenge"
  /\ chain' = "ended"
  /\ UNCHANGED <<role, dbVars, jobs, run, txs, log, adapterVars, count>>

\* A transaction of the other side is mined: the client creates and closes a
\* channel of this agent, the agent closes a channel of this client.
OtherSide(t) ==
  /\ t \in (IF role = "agent" THEN {"create", "request", "settle"} ELSE {"coop"})
  /\ Applies(t) /\ Take(t)
  /\ UNCHANGED <<role, dbVars, jobs, run, txs, adapterVars, count>>

\* A cheque is accepted (Payment).
Pay ==
  /\ role = "agent" /\ ch = "active" /\ svc # "terminated" /\ ~paid
  /\ paid' = TRUE
  /\ UNCHANGED <<role, ch, svc, block, coopJob, jobs, run, chainVars, adapterVars, count>>

-----------------------------------------------------------------------------
(* Events become jobs.                                                     *)

\* The rows findChannelID looks at: an event of creation is found by its
\* transaction, the others by the block of the channel.  The agent makes a new
\* row for each creation.
findChannelID(e) ==
  IF e = "created" THEN role = "agent" \/ ch # "none" ELSE block

\* Logs are taken in the order of the chain, and one without a row is dropped.
onExistingChannelEvent(e) ==
  /\ e \in log
  /\ e # "created" => "created" \notin log
  /\ e \in Closed => "requested" \notin log
  /\ log' = log \ {e}
  /\ jobs' = IF findChannelID(e) THEN [jobs EXCEPT ![e] = @ + 1] ELSE jobs
  /\ coopJob' = (coopJob \/ (e = "coop" /\ findChannelID(e)))
  /\ UNCHANGED <<role, ch, svc, block, paid, run, chain, txs, adapterVars, count>>

-----------------------------------------------------------------------------
(* Orders (proc.Processor).  Each runs in a transaction that locks the row. *)

NoActiveJobs == \A k \in Kinds : jobs[k] = 0

\* Mutant of alterServiceStatus: other jobs of the channel are not looked for.
alterServiceStatus_Unchecked(k) ==
  /\ jobs' = [jobs EXCEPT ![k] = @ + 1]
  /\ UNCHANGED run

alterServiceStatus(k) ==
  /\ NoActiveJobs
  /\ jobs' = [jobs EXCEPT ![k] = 1]
  /\ UNCHANGED run

SuspendChannel  == svc = "active" /\ alterServiceStatus("suspend")
ActivateChannel == svc \in {"pending", "suspended"} /\ alterServiceStatus("unsuspend")

\* Terminating cancels the other active jobs of the channel, and that of the
\* running handler.
CanTerminate == svc \in {"pending", "active", "suspended"} /\ jobs["terminate"] = 0
cancelJobs   == jobs' = [k \in Kinds |-> IF k = "terminate" THEN 1 ELSE 0]

TerminateChannel ==
  /\ CanTerminate
  /\ cancelJobs
  /\ run' = [run EXCEPT !.counted = FALSE]

Ordered ==
  /\ count.orders < MaxOrders /\ Load < MaxLoad
  /\ count' = [count EXCEPT !.orders = @ + 1]
  /\ UNCHANGED <<role, dbVars, chainVars, adapterVars>>

\* The user closes a channel without the agent; job.Add refuses a second job.
createPreUncooperativeCloseRequest ==
  /\ role = "client" /\ jobs["request"] = 0
  /\ jobs' = [jobs EXCEPT !["request"] = 1]
  /\ UNCHANGED run

ChangeChannelStatus ==
  /\ ch # "none"
  /\ \/ SuspendChannel
     \/ ActivateChannel
     \/ TerminateChannel
     \/ createPreUncooperativeCloseRequest
  /\ Ordered

\* The user of the client accepts an offering.
AcceptOffering ==
  /\ role = "client" /\ ch = "none" /\ chain = "none" /\ txs = {} /\ NoActiveJobs /\ run = NoRun
  /\ jobs' = [jobs EXCEPT !["create"] = 1]
  /\ UNCHANGED <<role, dbVars, run, chainVars, adapterVars, count>>

\* The checks of the agent's monitor: whom the query selects, what is ordered.
\* Which units, times and receipts satisfy HAVING is left open.
VerifyUnitsBasedChannels ==
  role = "agent" /\ svc \in {"pending", "active"} /\ ch # "pending" /\ TerminateChannel /\ Ordered
VerifyChannelsForInactivity ==
  role = "agent" /\ svc \in {"pending", "active", "suspended"} /\ ch # "pending"
  /\ TerminateChannel /\ Ordered
VerifySuspendedChannelsAndTryToTerminate ==
  role = "agent" /\ svc = "suspended" /\ ch # "pending" /\ TerminateChannel /\ Ordered
VerifySuspendedChannelsAndTryToUnsuspend ==
  role = "agent" /\ svc = "suspended" /\ ch # "pending" /\ ActivateChannel /\ Ordered
VerifyBillingLags ==
  role = "agent" /\ svc \in {"pending", "active"} /\ ch # "pending" /\ SuspendChannel /\ Ordered

processRound ==
  \/ VerifyUnitsBasedChannels
  \/ VerifyChannelsForInactivity
  \/ VerifySuspendedChannelsAndTryToUnsuspend
  \/ VerifySuspendedChannelsAndTryToTerminate
  \/ VerifyBillingLags

\* The client's monitor terminates a channel that has used its deposit or was
\* inactive for too long.
processChannel ==
  /\ role = "client" /\ svc \in {"active", "suspended"} /\ ch = "active"
  /\ TerminateChannel
  /\ Ordered

-----------------------------------------------------------------------------
(* The worker of the channel: a handler runs, then its job is saved.       *)

Collect(k) ==
  /\ run = NoRun /\ jobs[k] > 0
  /\ run' = [NoRun EXCEPT !.kind = k, !.counted = TRUE]
  /\ UNCHANGED <<role, dbVars, jobs, chainVars, adapterVars, count>>

\* Job types the adapter's subscription is called for.
Notified ==
  Orders \cup (IF role = "agent" THEN {"endpoint"} ELSE {})

\* Mutant of saveJobAndNotify: a job canceled meanwhile is settled once more.
saveJobAndNotify_Blind ==
  /\ run.stage = "save"
  /\ jobs' = IF run.res = "ok" THEN [jobs EXCEPT ![run.kind] = @ - 1] ELSE jobs
  /\ run' = NoRun
  /\ notes' = IF run.res = "ok" /\ run.kind \in Notified THEN notes \cup {run.kind} ELSE notes
  /\ UNCHANGED <<role, dbVars, chainVars, cmd, call, sess, count>>

\* A job that was canceled while its handler ran is not active again.  A
\* refused one is retried until its TryLimit; the closing that waits for the
\* end of the challenge has tries enough for it.
saveJobAndNotify ==
  /\ run.stage = "save"
  /\ \E retry \in BOOLEAN :
       /\ run.res = "ok" => ~retry
       /\ run.res = "fault" \/ (run.res = "refused" /\ run.kind = "settle") => retry
       /\ jobs' = IF run.counted /\ ~retry THEN [jobs EXCEPT ![run.kind] = @ - 1] ELSE jobs
  /\ run' = NoRun
  /\ notes' = IF run.res = "ok" /\ run.kind \in Notified THEN notes \cup {run.kind} ELSE notes
  /\ UNCHANGED <<role, dbVars, chainVars, cmd, call, sess, count>>

Handler(r, k) == role = r /\ run.kind = k /\ run.stage = "run"
Done(res)     == run' = [run EXCEPT !.stage = "save", !.res = res]
Canceled(res) == run' = [run EXCEPT !.stage = "save", !.res = res, !.counted = FALSE]
Rest          == UNCHANGED <<role, paid, coopJob, chain, log, adapterVars>>

\* A step fails, as many times as MaxFaults says.
Fault ==
  /\ count.faults < MaxFaults /\ Load < MaxLoad
  /\ count' = [count EXCEPT !.faults = @ + 1]

Fails == Done("fault") /\ Fault

\* A handler fails before it has changed anything.
HandlerFails ==
  /\ run.kind # "none" /\ run.stage = "run"
  /\ Fails
  /\ UNCHANGED <<role, dbVars, jobs, chainVars, adapterVars>>

\* Error returns that change nothing.
Refuse == Done("refused") /\ UNCHANGED <<ch, svc, block, jobs, txs, count>>

CompleteServiceTransition(k) ==
  /\ run.kind = k /\ run.stage = "run"
  /\ svc' = Target[k]
  /\ Done("ok")
  /\ UNCHANGED <<ch, block, jobs, txs, count>> /\ Rest

-----------------------------------------------------------------------------
(* Handlers of the agent.                                                  *)

\* The row, and the job that prepares the access, in one transaction; a
\* second row, or a deposit that is too small, is an error.
AgentAfterChannelCreate ==
  /\ Handler("agent", "created")
  /\ \/ /\ ch = "none"
        /\ ch' = "active" /\ svc' = "pending" /\ block' = TRUE
        /\ jobs' = [jobs EXCEPT !["endpoint"] = @ + 1]
        /\ Done("ok")
        /\ UNCHANGED <<txs, count>>
     \/ Refuse
  /\ Rest

AgentPreEndpointMsgCreate ==
  /\ Handler("agent", "endpoint")
  /\ svc' = IF PayFirst THEN "suspending" ELSE "activating"
  /\ Done("ok")
  /\ UNCHANGED <<ch, block, jobs, txs, count>> /\ Rest

\* TerminateChannel called from a handler, then the row is saved: the job of
\* the handler is among those canceled, and the row may fail to be saved.
TerminateThenSave(status) ==
  IF svc = "terminated"
  THEN ch' = status /\ Done("ok") /\ UNCHANGED <<jobs, count>>
  ELSE /\ CanTerminate
       /\ cancelJobs
       /\ \/ ch' = status /\ Canceled("ok") /\ UNCHANGED count
          \/ UNCHANGED ch /\ Canceled("fault") /\ Fault

AgentAfterUncooperativeCloseRequest ==
  /\ Handler("agent", "requested")
  /\ \/ TerminateThenSave("in_challenge") /\ UNCHANGED <<svc, block, txs>>
     \/ svc # "terminated" /\ ~CanTerminate /\ Refuse
  /\ Rest

AgentAfterUncooperativeClose ==
  /\ Handler("agent", "uncoop")
  /\ \/ TerminateThenSave("closed_uncoop") /\ UNCHANGED <<svc, block, txs>>
     \/ svc # "terminated" /\ ~CanTerminate /\ Refuse
  /\ Rest

AgentAfterCooperativeClose ==
  /\ Handler("agent", "coop")
  /\ ch' = "closed_coop"
  /\ Done("ok")
  /\ UNCHANGED <<svc, block, jobs, txs, count>> /\ Rest

\* The status a job of the agent moves the service to.
agentUpdateServiceStatus(k) ==
  CASE k = "suspend"   -> IF svc = "active" THEN "suspending" ELSE "suspended"
    [] k = "terminate" -> IF svc = "active" THEN "terminating" ELSE "terminated"
    [] k = "unsuspend" -> "activating"

AgentPreServiceSuspend ==
  /\ Handler("agent", "suspend")
  /\ svc' = agentUpdateServiceStatus("suspend")
  /\ Done("ok")
  /\ UNCHANGED <<ch, block, jobs, txs, count>> /\ Rest

AgentPreServiceUnsuspend ==
  /\ Handler("agent", "unsuspend")
  /\ svc' = agentUpdateServiceStatus("unsuspend")
  /\ Done("ok")
  /\ UNCHANGED <<ch, block, jobs, txs, count>> /\ Rest

\* With a receipt the agent sends its cooperative closing.
agentCooperativeClose == txs' = txs \cup {"coop"}

\* Mutant of AgentPreServiceTerminate: only a service that was active is closed.
AgentPreServiceTerminate_OnlyActive ==
  /\ Handler("agent", "terminate")
  /\ svc' = agentUpdateServiceStatus("terminate")
  /\ IF ~paid \/ svc # "active"
     THEN Done("ok") /\ UNCHANGED <<txs, count>>
     ELSE \/ agentCooperativeClose /\ Done("ok") /\ UNCHANGED count
          \/ Fails /\ UNCHANGED txs
  /\ UNCHANGED <<ch, block, jobs>> /\ Rest

\* The status is saved before the transaction is sent: when that fails, the
\* next try finds a service that is not active.
AgentPreServiceTerminate ==
  /\ Handler("agent", "terminate")
  /\ svc' = agentUpdateServiceStatus("terminate")
  /\ IF ~paid
     THEN Done("ok") /\ UNCHANGED <<txs, count>>
     ELSE \/ agentCooperativeClose /\ Done("ok") /\ UNCHANGED count
          \/ Fails /\ UNCHANGED txs
  /\ UNCHANGED <<ch, block, jobs>> /\ Rest

-----------------------------------------------------------------------------
(* Handlers of the client.                                                 *)

\* The transaction is sent, then the row is inserted.
clientPreChannelCreateSaveTX ==
  /\ txs' = txs \cup {"create"}
  /\ \/ ch' = "pending" /\ svc' = "pending" /\ Done("ok") /\ UNCHANGED count
     \/ Fails /\ UNCHANGED <<ch, svc>>

\* Without funds or supply the offering is refused.
ClientPreChannelCreate ==
  /\ Handler("client", "create")
  /\ \/ clientPreChannelCreateSaveTX /\ UNCHANGED <<block, jobs>>
     \/ Refuse
  /\ Rest

\* The row is saved before the endpoint is fetched from the agent.
ClientAfterChannelCreate ==
  /\ Handler("client", "created")
  /\ ch' = "active" /\ block' = TRUE
  /\ \/ /\ jobs["endpoint"] = 0
        /\ jobs' = [jobs EXCEPT !["endpoint"] = 1]
        /\ Done("ok")
     \/ Done("refused") /\ UNCHANGED jobs
  /\ UNCHANGED <<svc, txs, count>> /\ Rest

ClientEndpointGet ==
  /\ Handler("client", "endpoint")
  /\ \/ svc' = "suspended" /\ Done("ok") /\ UNCHANGED <<ch, block, jobs, txs, count>>
     \/ Refuse
  /\ Rest

ClientPreServiceSuspend ==
  /\ Handler("client", "suspend")
  /\ svc' = "suspending"
  /\ Done("ok")
  /\ UNCHANGED <<ch, block, jobs, txs, count>> /\ Rest

ClientPreServiceUnsuspend ==
  /\ Handler("client", "unsuspend")
  /\ svc' = "activating"
  /\ Done("ok")
  /\ UNCHANGED <<ch, block, jobs, txs, count>> /\ Rest

ClientPreServiceTerminate ==
  /\ Handler("client", "terminate")
  /\ svc' = IF svc = "active" THEN "terminating" ELSE "terminated"
  /\ Done("ok")
  /\ UNCHANGED <<ch, block, jobs, txs, count>> /\ Rest

clientValidateChannelForClose ==
  ch \in {"active", "pending"} /\ svc \in {"terminated", "pending"}

\* Mutant of doClientPreUncooperativeCloseRequestAndSaveTx: the status of a
\* request that is mined.
doClientPreUncooperativeCloseRequestAndSaveTx_Early ==
  /\ txs' = IF block THEN txs \cup {"request"} ELSE txs
  /\ ch' = "in_challenge" /\ Done("ok") /\ UNCHANGED count

\* The contract knows the channel by its block: a request for a channel whose
\* creation was not seen has no effect.
doClientPreUncooperativeCloseRequestAndSaveTx ==
  /\ txs' = IF block THEN txs \cup {"request"} ELSE txs
  /\ \/ ch' = "wait_challenge" /\ Done("ok") /\ UNCHANGED count
     \/ Fails /\ UNCHANGED ch

ClientPreUncooperativeCloseRequest ==
  /\ Handler("client", "request")
  /\ \/ /\ clientValidateChannelForClose
        /\ doClientPreUncooperativeCloseRequestAndSaveTx
        /\ UNCHANGED <<svc, block, jobs>>
     \/ ~clientValidateChannelForClose /\ Refuse
  /\ Rest

ClientAfterUncooperativeCloseRequest ==
  /\ Handler("client", "requested")
  /\ ch' = "in_challenge"
  /\ IF jobs["settle"] = 0
     THEN jobs' = [jobs EXCEPT !["settle"] = 1] /\ Done("ok")
     ELSE Done("refused") /\ UNCHANGED jobs
  /\ UNCHANGED <<svc, block, txs, count>> /\ Rest

\* The settling transaction of a channel the contract no longer has is
\* refused by the node or has no effect.
settle ==
  /\ txs' = IF chain = "ended" THEN txs \cup {"settle"} ELSE txs
  /\ \/ ch' = "wait_uncoop" /\ Done("ok") /\ UNCHANGED count
     \/ Fails /\ UNCHANGED ch

ClientPreUncooperativeClose ==
  /\ Handler("client", "settle")
  /\ IF coopJob \/ ch = "closed_coop"
     THEN Done("ok") /\ UNCHANGED <<ch, svc, block, jobs, txs, count>>
     ELSE \/ chain # "challenge" /\ settle /\ UNCHANGED <<svc, block, jobs>>
          \/ chain # "ended" /\ Refuse
  /\ Rest

ClientAfterUncooperativeClose ==
  /\ Handler("client", "uncoop")
  /\ ch' = "closed_uncoop"
  /\ Done("ok")
  /\ UNCHANGED <<svc, block, jobs, txs, count>> /\ Rest

\* The row is saved before the service is terminated.
ClientAfterCooperativeClose ==
  /\ Handler("client", "coop")
  /\ ch' = "closed_coop"
  /\ CASE svc = "terminated" -> Done("ok") /\ UNCHANGED jobs
       [] svc # "terminated" /\ CanTerminate ->
            cancelJobs /\ Canceled("ok")
       [] OTHER -> Done("refused") /\ UNCHANGED jobs
  /\ UNCHANGED <<svc, block, txs, count>> /\ Rest

-----------------------------------------------------------------------------
(* The session server and the adapter.                                     *)

\* The callback of a saved job reads the row again.
handleConnChange(k) ==
  /\ k \in notes
  /\ notes' = notes \ {k}
  /\ cmd' = IF svc \in Transitional
            THEN cmd \cup {IF k \in {"suspend", "terminate"} THEN "stop" ELSE "start"}
            ELSE cmd
  /\ UNCHANGED <<role, dbVars, jobs, run, chainVars, call, sess, count>>

\* The adapter obeys "start" and reports.
ServiceReady ==
  /\ "start" \in cmd /\ call = "none"
  /\ cmd' = cmd \ {"start"}
  /\ call' = IF svc = "activating" THEN "toActive" ELSE "none"
  /\ UNCHANGED <<role, dbVars, jobs, run, chainVars, notes, sess, count>>

AuthClient == svc \in {"active", "activating"}

\* A session begins after the agent has let the client in.
StartSession ==
  /\ AuthClient /\ ~sess /\ call = "none"
  /\ count.sessions < MaxSessions /\ Load + 1 < MaxLoad
  /\ count' = [count EXCEPT !.sessions = @ + 1]
  /\ sess' = TRUE
  /\ call' = IF svc = "activating" THEN "toActive" ELSE "none"
  /\ UNCHANGED <<role, dbVars, jobs, run, chainVars, notes, cmd>>

\* Usage of a channel that is not active is refused to the agent's adapter,
\* which kills the session.
UpdateSession ==
  /\ sess /\ role = "agent" /\ svc # "active" /\ "stop" \notin cmd
  /\ cmd' = cmd \cup {"stop"}
  /\ UNCHANGED <<role, dbVars, jobs, run, chainVars, notes, call, sess, count>>

\* The adapter obeys "stop", or its session is over; it reports in either case,
\* and the row is read before the job is added.
StopSession ==
  /\ "stop" \in cmd \/ sess
  /\ ch # "none" /\ call = "none"
  /\ sess' = FALSE /\ cmd' = cmd \ {"stop"}
  /\ call' = CASE svc = "terminated"  -> "none"
               [] svc = "terminating" -> "toTerminated"
               [] OTHER -> "toSuspended"
  /\ UNCHANGED <<role, dbVars, jobs, run, chainVars, notes, count>>

AddCompletion ==
  /\ call # "none"
  /\ jobs' = [jobs EXCEPT ![call] = @ + 1]
  /\ call' = "none"
  /\ UNCHANGED <<role, dbVars, run, chainVars, notes, cmd, sess, count>>

-----------------------------------------------------------------------------
(* Crash and restart.                                                      *)

\* Mutant of recoverServiceStatuses: a service that was being suspended is left.
recoverServiceStatuses_Forgetful ==
  svc' = CASE svc \in {"activating", "active"} -> "suspended"
           [] svc = "terminating" -> "terminated"
           [] OTHER -> svc

recoverServiceStatuses ==
  svc' = CASE svc \in {"activating", "active", "suspending"} -> "suspended"
           [] svc = "terminating" -> "terminated"
           [] OTHER -> svc

\* Handlers, callbacks and calls are lost, active jobs stay.
Crash ==
  /\ Fault
  /\ recoverServiceStatuses
  /\ run' = NoRun /\ notes' = {} /\ call' = "none" /\ cmd' \in {cmd, {}}
  /\ UNCHANGED <<role, ch, block, paid, coopJob, jobs, chainVars, sess>>

-----------------------------------------------------------------------------

AgentHandlers ==
  \/ AgentAfterChannelCreate \/ AgentPreEndpointMsgCreate
  \/ AgentAfterUncooperativeCloseRequest \/ AgentAfterUncooperativeClose
  \/ AgentAfterCooperativeClose \/ AgentPreServiceSuspend
  \/ AgentPreServiceUnsuspend \/ AgentPreServiceTerminate

ClientHandlers ==
  \/ ClientPreChannelCreate \/ ClientAfterChannelCreate \/ ClientEndpointGet
  \/ ClientPreServiceSuspend \/ ClientPreServiceUnsuspend \/ ClientPreServiceTerminate
  \/ ClientPreUncooperativeCloseRequest \/ ClientAfterUncooperativeCloseRequest
  \/ ClientPreUncooperativeClose \/ ClientAfterUncooperativeClose
  \/ ClientAfterCooperativeClose

Handlers ==
  \/ AgentHandlers \/ ClientHandlers
  \/ \E k \in Completions : CompleteServiceTransition(k)

Adapter ==
  \/ \E k \in Kinds : handleConnChange(k)
  \/ ServiceReady \/ StartSession \/ UpdateSession \/ StopSession \/ AddCompletion

Next ==
  \/ \E t \in Txs : Mine(t) \/ OtherSide(t)
  \/ ChallengeEnds
  \/ Pay
  \/ \E e \in Events : onExistingChannelEvent(e)
  \/ ChangeChannelStatus \/ AcceptOffering \/ processRound \/ processChannel
  \/ \E k \in Kinds : Collect(k)
  \/ Handlers \/ HandlerFails \/ saveJobAndNotify
  \/ Adapter
  \/ Crash

Spec == Init /\ [][Next]_vars

Reports ==
  \/ \E k \in Kinds : handleConnChange(k)
  \/ ServiceReady \/ UpdateSession \/ AddCompletion
  \/ StopSession /\ "stop" \in cmd

\* Transactions are mined and logs scanned; a worker goes on with the job it has
\* and takes another; no job is passed over for ever (each TryLimit is finite);
\* callbacks run, and the adapter obeys and reports.  Users, monitors, the other
\* side and sessions promise nothing.
Fairness ==
  /\ WF_vars(ChallengeEnds \/ \E t \in Txs : Mine(t))
  /\ WF_vars(\E e \in Events : onExistingChannelEvent(e))
  /\ WF_vars(Handlers \/ saveJobAndNotify \/ \E k \in Kinds : Collect(k))
  /\ SF_vars(Collect("terminate"))
  /\ SF_vars(\E k \in Completions : Collect(k))
  /\ WF_vars(Reports)

FairSpec == Spec /\ Fairness

-----------------------------------------------------------------------------
(* Properties.                                                             *)

\* The row of a channel is never ahead of the contract: it is active only when
\* the channel was created, in its challenge or waiting for the settlement only
\* when a closing was requested, closed only the way the contract closed it.
\* Handlers run late, out of order, twice or after a crash.
RowNotAheadOfChain ==
  /\ ch = "active" => chain # "none"
  /\ ch \in {"in_challenge", "wait_uncoop"} => chain \notin {"none", "open"}
  /\ ch = "closed_coop" => chain = "coop"
  /\ ch = "closed_uncoop" => chain = "uncoop"

\* What an event, a job or a handler of each kind says about the contract.
Backed(k) ==
  /\ k = "created" => chain # "none"
  /\ k \in {"requested", "settle"} => chain \notin {"none", "open"}
  /\ k = "coop" => chain = "coop"
  /\ k = "uncoop" => chain = "uncoop"

Known(k) == k \in log \/ jobs[k] > 0 \/ run.kind = k

\* At most one order of suspending, resuming or terminating is outstanding,
\* whoever gives them and whatever is running (alterServiceStatus).
OneOrder == jobs["suspend"] + jobs["unsuspend"] + jobs["terminate"] <= 1

\* A service in transition settles: the adapter is told, its answer becomes a
\* job, or a restart settles it (sess/subscribe.go, sess/session.go,
\* data/recover.go).
TransitionEnds == (svc \in Transitional) ~> (svc \notin Transitional)

\* An agent that has a receipt when it is to terminate a service closes the
\* channel in the contract, even when the first attempt fails or is cut short.
AgentCollects ==
  (role = "agent" /\ jobs["terminate"] > 0 /\ run.kind # "terminate" /\ paid)
    ~> (chain \in Closed)

\* "service is permanently deactivated" (data/migration/scripts).
TerminatedIsFinal == [][svc = "terminated" => svc' = "terminated"]_svc

=============================================================================

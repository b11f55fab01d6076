---------------------- MODULE ServiceLifecycleProofs ----------------------
(***************************************************************************)
(* Proofs about ServiceLifecycle, for every bound, both roles and both     *)
(* ways of billing.                                                        *)
(*                                                                         *)
(* That the row is not ahead of the contract is not inductive: a handler   *)
(* writes the status its job stands for without asking the contract.  The  *)
(* invariant therefore follows an event through all the places it can be,  *)
(* the log, the active jobs and the running handler, and says that the     *)
(* contract is at least as far as any of them claims.  For the number of   *)
(* orders, and for the type of `jobs', it says that the job of a running   *)
(* handler is among the active ones unless it was canceled.                *)
(***************************************************************************)
EXTENDS ServiceLifecycle, TLAPS

Counted == run.counted => run.kind \in Kinds /\ jobs[run.kind] > 0
Claims  == \A k \in Kinds : Known(k) => Backed(k)

IInv == TypeOK /\ Counted /\ Claims /\ RowNotAheadOfChain /\ OneOrder

\* The job types by name.
LEMMA KindsElements ==
  /\ "created" \in Kinds /\ "requested" \in Kinds /\ "coop" \in Kinds /\ "uncoop" \in Kinds
  /\ "suspend" \in Kinds /\ "unsuspend" \in Kinds /\ "terminate" \in Kinds
  /\ "toActive" \in Kinds /\ "toSuspended" \in Kinds /\ "toTerminated" \in Kinds
  /\ "create" \in Kinds /\ "endpoint" \in Kinds /\ "request" \in Kinds /\ "settle" \in Kinds
  /\ "none" \notin Kinds
  BY DEF Kinds, Events, Orders, Completions

\* The channel statuses by name.
LEMMA ChannelElements ==
  /\ "none" \in ChannelStatus /\ "pending" \in ChannelStatus /\ "active" \in ChannelStatus
  /\ "wait_challenge" \in ChannelStatus /\ "in_challenge" \in ChannelStatus
  /\ "wait_uncoop" \in ChannelStatus /\ "closed_coop" \in ChannelStatus
  /\ "closed_uncoop" \in ChannelStatus
  BY DEF ChannelStatus

\* The service statuses by name.
LEMMA ServiceElements ==
  /\ "none" \in ServiceStatus /\ "pending" \in ServiceStatus /\ "active" \in ServiceStatus
  /\ "suspended" \in ServiceStatus /\ "terminated" \in ServiceStatus
  /\ "activating" \in ServiceStatus /\ "suspending" \in ServiceStatus
  /\ "terminating" \in ServiceStatus
  BY DEF ServiceStatus, Transitional

\* The initial state: no row, no job, no event.
LEMMA InitInv == Init => IInv
<1> SUFFICES ASSUME Init PROVE IInv OBVIOUS
<1>1. run \in Run /\ count \in Count /\ run.kind = "none" /\ ~run.counted
  BY DEF Init, NoRun, Run, Count
<1>2. jobs \in [Kinds -> Nat] /\ \A k \in Kinds : jobs[k] = 0 BY DEF Init
<1>3. TypeOK
  BY <1>1, <1>2, LifecycleAssumption, ChannelElements, ServiceElements DEF Init, TypeOK, ChainStatus
<1>q. QED
  BY <1>1, <1>2, <1>3, KindsElements
  DEF IInv, Init, Counted, Claims, Known, Backed, RowNotAheadOfChain, OneOrder

\* What the end of a handler does to `run'.
LEMMA DoneFacts ==
  ASSUME run \in Run, NEW r \in {"ok", "refused", "fault"}, Done(r)
  PROVE  run' \in Run /\ run'.kind = run.kind /\ run'.counted = run.counted
  BY DEF Run, Done

\* The same for a handler that canceled its own job.
LEMMA CanceledFacts ==
  ASSUME run \in Run, NEW r \in {"ok", "refused", "fault"}, Canceled(r)
  PROVE  run' \in Run /\ run'.kind = run.kind /\ ~run'.counted
  BY DEF Run, Canceled

\* A counted fault.
LEMMA FaultFacts == ASSUME count \in Count, Fault PROVE count' \in Count
  BY DEF Count, Fault

\* The transactions and the states of the contract by name.
LEMMA ChainElements ==
  /\ Txs = {"create", "request", "settle", "coop"}
  /\ ChainStatus = {"none", "open", "challenge", "ended", "coop", "uncoop"}
  BY DEF Txs, ChainStatus

\* Events and completions are job types.
LEMMA Subsets == Events \subseteq Kinds /\ Completions \subseteq Kinds /\ Orders \subseteq Kinds
  BY DEF Kinds

\* No handler runs.
LEMMA NoRunFacts == NoRun \in Run /\ NoRun.kind = "none" /\ ~NoRun.counted
  BY DEF NoRun, Run

\* An order, counted.
LEMMA OrderedFacts == ASSUME count \in Count, Ordered PROVE count' \in Count
  BY DEF Count, Ordered

\* Adding a job of any kind.
LEMMA JobAdded ==
  ASSUME jobs \in [Kinds -> Nat], NEW k \in Kinds, NEW n \in Nat, jobs' = [jobs EXCEPT ![k] = n]
  PROVE  /\ jobs' \in [Kinds -> Nat] /\ jobs'[k] = n
         /\ \A x \in Kinds : x # k => jobs'[x] = jobs[x]
  OBVIOUS

\* Canceling leaves one job, the terminating one.
LEMMA JobsCanceled ==
  ASSUME cancelJobs
  PROVE  /\ jobs' \in [Kinds -> Nat] /\ jobs'["terminate"] = 1
         /\ \A x \in Kinds : x # "terminate" => jobs'[x] = 0
  BY KindsElements DEF cancelJobs

USE KindsElements, ChannelElements, ServiceElements DEF dbVars, chainVars, adapterVars

\* AgentAfterChannelCreate keeps the invariant.
LEMMA AgentAfterChannelCreateInv == ASSUME IInv, AgentAfterChannelCreate PROVE IInv'
<1>1. CASE Refuse
  <2>1. TypeOK' /\ Counted' /\ Claims'
    BY <1>1, DoneFacts DEF IInv, TypeOK, Counted, Claims, Known, Backed, Rest, Refuse, AgentAfterChannelCreate
  <2>q. QED
    BY <1>1, <2>1 DEF IInv, RowNotAheadOfChain, OneOrder, Rest, Refuse, AgentAfterChannelCreate
<1>2. CASE ~Refuse
  <2>1. /\ jobs' = [jobs EXCEPT !["endpoint"] = jobs["endpoint"] + 1]
        /\ jobs \in [Kinds -> Nat] /\ jobs["endpoint"] + 1 \in Nat
    BY <1>2 DEF IInv, TypeOK, AgentAfterChannelCreate
  <2>2. /\ jobs' \in [Kinds -> Nat]
        /\ \A x \in Kinds : jobs'[x] > 0 => jobs[x] > 0 \/ x = "endpoint"
        /\ \A x \in Kinds : jobs[x] > 0 => jobs'[x] > 0
        /\ \A x \in Orders : jobs'[x] = jobs[x]
    BY <2>1, Subsets DEF Orders
  <2>3. TypeOK'
    BY <1>2, <2>2, DoneFacts DEF IInv, TypeOK, Rest, AgentAfterChannelCreate
  <2>4. Counted' /\ Claims'
    BY <1>2, <2>2, DoneFacts DEF IInv, TypeOK, Counted, Claims, Known, Backed, Rest, AgentAfterChannelCreate
  <2>5. RowNotAheadOfChain'
    BY <1>2 DEF IInv, Claims, Known, Backed, RowNotAheadOfChain, Handler, Rest, AgentAfterChannelCreate
  <2>q. QED
    BY <2>2, <2>3, <2>4, <2>5 DEF IInv, OneOrder, Orders
<1>q. QED BY <1>1, <1>2

\* AgentPreEndpointMsgCreate keeps the invariant.
LEMMA AgentPreEndpointMsgCreateInv == ASSUME IInv, AgentPreEndpointMsgCreate PROVE IInv'
<1>1. TypeOK'
  BY DoneFacts DEF IInv, TypeOK, Counted, Handler, Rest, AgentPreEndpointMsgCreate
<1>2. Counted'
  BY DoneFacts DEF IInv, TypeOK, Counted, Handler, Rest, AgentPreEndpointMsgCreate
<1>3. Claims'
  BY DoneFacts DEF IInv, TypeOK, Claims, Known, Backed, Handler,
     Rest, AgentPreEndpointMsgCreate
<1>4. RowNotAheadOfChain'
  BY DEF IInv, TypeOK, RowNotAheadOfChain, Claims, Known, Backed, Handler, Rest, AgentPreEndpointMsgCreate
<1>5. OneOrder'
  BY DEF IInv, TypeOK, OneOrder, Handler, Rest, AgentPreEndpointMsgCreate
<1>q. QED BY <1>1, <1>2, <1>3, <1>4, <1>5 DEF IInv

\* AgentAfterUncooperativeCloseRequest keeps the invariant.
LEMMA AgentAfterUncooperativeCloseRequestInv == ASSUME IInv, AgentAfterUncooperativeCloseRequest PROVE IInv'
<1>1. TypeOK'
  BY DoneFacts, CanceledFacts, FaultFacts DEF IInv, TypeOK, Counted, Handler, Rest, Refuse, TerminateThenSave, CanTerminate, cancelJobs, AgentAfterUncooperativeCloseRequest
<1>2. Counted'
  BY DoneFacts, CanceledFacts DEF IInv, TypeOK, Counted, Handler, Rest, Refuse, TerminateThenSave, CanTerminate, cancelJobs, AgentAfterUncooperativeCloseRequest
<1>3. Claims'
  BY DoneFacts, CanceledFacts DEF IInv, TypeOK, Claims, Known, Backed, Handler,
     Rest, Refuse, TerminateThenSave, CanTerminate, cancelJobs,
     AgentAfterUncooperativeCloseRequest
<1>4. RowNotAheadOfChain'
  BY DEF IInv, TypeOK, RowNotAheadOfChain, Claims, Known, Backed, Handler, Rest, Refuse,
     TerminateThenSave, CanTerminate, cancelJobs, AgentAfterUncooperativeCloseRequest
<1>5. OneOrder'
  BY DEF IInv, TypeOK, OneOrder, Handler, Rest, Refuse, TerminateThenSave, CanTerminate,
     cancelJobs, AgentAfterUncooperativeCloseRequest
<1>q. QED BY <1>1, <1>2, <1>3, <1>4, <1>5 DEF IInv

\* AgentAfterUncooperativeClose keeps the invariant.
LEMMA AgentAfterUncooperativeCloseInv == ASSUME IInv, AgentAfterUncooperativeClose PROVE IInv'
<1>1. TypeOK'
  BY DoneFacts, CanceledFacts, FaultFacts DEF IInv, TypeOK, Counted, Handler, Rest, Refuse, TerminateThenSave, CanTerminate, cancelJobs, AgentAfterUncooperativeClose
<1>2. Counted'
  BY DoneFacts, CanceledFacts DEF IInv, TypeOK, Counted, Handler, Rest, Refuse, TerminateThenSave, CanTerminate, cancelJobs, AgentAfterUncooperativeClose
<1>3. Claims'
  BY DoneFacts, CanceledFacts DEF IInv, TypeOK, Claims, Known, Backed, Handler,
     Rest, Refuse, TerminateThenSave, CanTerminate, cancelJobs, AgentAfterUncooperativeClose
<1>4. RowNotAheadOfChain'
  BY DEF IInv, TypeOK, RowNotAheadOfChain, Claims, Known, Backed, Handler, Rest, Refuse,
     TerminateThenSave, CanTerminate, cancelJobs, AgentAfterUncooperativeClose
<1>5. OneOrder'
  BY DEF IInv, TypeOK, OneOrder, Handler, Rest, Refuse, TerminateThenSave, CanTerminate,
     cancelJobs, AgentAfterUncooperativeClose
<1>q. QED BY <1>1, <1>2, <1>3, <1>4, <1>5 DEF IInv

\* AgentAfterCooperativeClose keeps the invariant.
LEMMA AgentAfterCooperativeCloseInv == ASSUME IInv, AgentAfterCooperativeClose PROVE IInv'
<1>1. TypeOK'
  BY DoneFacts DEF IInv, TypeOK, Counted, Handler, Rest, AgentAfterCooperativeClose
<1>2. Counted'
  BY DoneFacts DEF IInv, TypeOK, Counted, Handler, Rest, AgentAfterCooperativeClose
<1>3. Claims'
  BY DoneFacts DEF IInv, TypeOK, Claims, Known, Backed, Handler,
     Rest, AgentAfterCooperativeClose
<1>4. RowNotAheadOfChain'
  BY DEF IInv, TypeOK, RowNotAheadOfChain, Claims, Known, Backed, Handler, Rest, AgentAfterCooperativeClose
<1>5. OneOrder'
  BY DEF IInv, TypeOK, OneOrder, Handler, Rest, AgentAfterCooperativeClose
<1>q. QED BY <1>1, <1>2, <1>3, <1>4, <1>5 DEF IInv

\* AgentPreServiceSuspend keeps the invariant.
LEMMA AgentPreServiceSuspendInv == ASSUME IInv, AgentPreServiceSuspend PROVE IInv'
<1>1. TypeOK'
  BY DoneFacts DEF IInv, TypeOK, Counted, Handler, Rest, agentUpdateServiceStatus, AgentPreServiceSuspend
<1>2. Counted'
  BY DoneFacts DEF IInv, TypeOK, Counted, Handler, Rest, agentUpdateServiceStatus, AgentPreServiceSuspend
<1>3. Claims'
  BY DoneFacts DEF IInv, TypeOK, Claims, Known, Backed, Handler,
     Rest, agentUpdateServiceStatus, AgentPreServiceSuspend
<1>4. RowNotAheadOfChain'
  BY DEF IInv, TypeOK, RowNotAheadOfChain, Claims, Known, Backed, Handler, Rest, agentUpdateServiceStatus, AgentPreServiceSuspend
<1>5. OneOrder'
  BY DEF IInv, TypeOK, OneOrder, Handler, Rest, agentUpdateServiceStatus,
     AgentPreServiceSuspend
<1>q. QED BY <1>1, <1>2, <1>3, <1>4, <1>5 DEF IInv

\* AgentPreServiceUnsuspend keeps the invariant.
LEMMA AgentPreServiceUnsuspendInv == ASSUME IInv, AgentPreServiceUnsuspend PROVE IInv'
<1>1. TypeOK'
  BY DoneFacts DEF IInv, TypeOK, Counted, Handler, Rest, agentUpdateServiceStatus, AgentPreServiceUnsuspend
<1>2. Counted'
  BY DoneFacts DEF IInv, TypeOK, Counted, Handler, Rest, agentUpdateServiceStatus, AgentPreServiceUnsuspend
<1>3. Claims'
  BY DoneFacts DEF IInv, TypeOK, Claims, Known, Backed, Handler,
     Rest, agentUpdateServiceStatus, AgentPreServiceUnsuspend
<1>4. RowNotAheadOfChain'
  BY DEF IInv, TypeOK, RowNotAheadOfChain, Claims, Known, Backed, Handler, Rest, agentUpdateServiceStatus, AgentPreServiceUnsuspend
<1>5. OneOrder'
  BY DEF IInv, TypeOK, OneOrder, Handler, Rest, agentUpdateServiceStatus,
     AgentPreServiceUnsuspend
<1>q. QED BY <1>1, <1>2, <1>3, <1>4, <1>5 DEF IInv

\* AgentPreServiceTerminate keeps the invariant.
LEMMA AgentPreServiceTerminateInv == ASSUME IInv, AgentPreServiceTerminate PROVE IInv'
<1>1. TypeOK'
  BY ChainElements, DoneFacts, FaultFacts DEF IInv, TypeOK, Counted, Handler,
     Rest, Fails, agentUpdateServiceStatus, agentCooperativeClose, AgentPreServiceTerminate
<1>2. Counted'
  BY DoneFacts DEF IInv, TypeOK, Counted, Handler, Rest, Fails,
     agentUpdateServiceStatus, agentCooperativeClose, AgentPreServiceTerminate
<1>3. Claims'
  BY DoneFacts DEF IInv, TypeOK, Claims, Known, Backed, Handler,
     Rest, Fails, agentUpdateServiceStatus, agentCooperativeClose, AgentPreServiceTerminate
<1>4. RowNotAheadOfChain'
  BY DEF IInv, TypeOK, RowNotAheadOfChain, Claims, Known, Backed, Handler, Rest, Fails, agentUpdateServiceStatus, agentCooperativeClose, AgentPreServiceTerminate
<1>5. OneOrder'
  BY DEF IInv, TypeOK, OneOrder, Handler, Rest, Fails, agentUpdateServiceStatus,
     agentCooperativeClose, AgentPreServiceTerminate
<1>q. QED BY <1>1, <1>2, <1>3, <1>4, <1>5 DEF IInv

\* ClientPreChannelCreate keeps the invariant.
LEMMA ClientPreChannelCreateInv == ASSUME IInv, ClientPreChannelCreate PROVE IInv'
<1>1. TypeOK'
  BY ChainElements, DoneFacts, FaultFacts DEF IInv, TypeOK, Counted, Handler,
     Rest, Fails, Refuse, ClientPreChannelCreate, clientPreChannelCreateSaveTX
<1>2. Counted'
  BY DoneFacts DEF IInv, TypeOK, Counted, Handler, Rest, Fails,
     Refuse, ClientPreChannelCreate, clientPreChannelCreateSaveTX
<1>3. Claims'
  BY DoneFacts DEF IInv, TypeOK, Claims, Known, Backed, Handler,
     Rest, Fails, Refuse, ClientPreChannelCreate, clientPreChannelCreateSaveTX
<1>4. RowNotAheadOfChain'
  BY DEF IInv, TypeOK, RowNotAheadOfChain, Claims, Known, Backed, Handler, Rest, Fails, Refuse,
     ClientPreChannelCreate, clientPreChannelCreateSaveTX
<1>5. OneOrder' BY DEF IInv, TypeOK, OneOrder, Handler, Rest, Fails, Refuse, ClientPreChannelCreate, clientPreChannelCreateSaveTX
<1>q. QED BY <1>1, <1>2, <1>3, <1>4, <1>5 DEF IInv

\* ClientAfterChannelCreate keeps the invariant.
LEMMA ClientAfterChannelCreateInv == ASSUME IInv, ClientAfterChannelCreate PROVE IInv'
<1>1. TypeOK'
  BY DoneFacts DEF IInv, TypeOK, Counted, Handler, Rest, ClientAfterChannelCreate
<1>2. Counted'
  BY DoneFacts DEF IInv, TypeOK, Counted, Handler, Rest, ClientAfterChannelCreate
<1>3. Claims'
  BY DoneFacts DEF IInv, TypeOK, Claims, Known, Backed, Handler,
     Rest, ClientAfterChannelCreate
<1>4. RowNotAheadOfChain'
  BY DEF IInv, TypeOK, RowNotAheadOfChain, Claims, Known, Backed, Handler, Rest, ClientAfterChannelCreate
<1>5. OneOrder'
  BY DEF IInv, TypeOK, OneOrder, Handler, Rest, ClientAfterChannelCreate
<1>q. QED BY <1>1, <1>2, <1>3, <1>4, <1>5 DEF IInv

\* ClientEndpointGet keeps the invariant.
LEMMA ClientEndpointGetInv == ASSUME IInv, ClientEndpointGet PROVE IInv'
<1>1. TypeOK'
  BY DoneFacts DEF IInv, TypeOK, Counted, Handler, Rest, Refuse, ClientEndpointGet
<1>2. Counted'
  BY DoneFacts DEF IInv, TypeOK, Counted, Handler, Rest, Refuse, ClientEndpointGet
<1>3. Claims'
  BY DoneFacts DEF IInv, TypeOK, Claims, Known, Backed, Handler,
     Rest, Refuse, ClientEndpointGet
<1>4. RowNotAheadOfChain'
  BY DEF IInv, TypeOK, RowNotAheadOfChain, Claims, Known, Backed, Handler, Rest, Refuse,
     ClientEndpointGet
<1>5. OneOrder' BY DEF IInv, TypeOK, OneOrder, Handler, Rest, Refuse, ClientEndpointGet
<1>q. QED BY <1>1, <1>2, <1>3, <1>4, <1>5 DEF IInv

\* ClientPreServiceSuspend keeps the invariant.
LEMMA ClientPreServiceSuspendInv == ASSUME IInv, ClientPreServiceSuspend PROVE IInv'
<1>1. TypeOK'
  BY DoneFacts DEF IInv, TypeOK, Counted, Handler, Rest, ClientPreServiceSuspend
<1>2. Counted'
  BY DoneFacts DEF IInv, TypeOK, Counted, Handler, Rest, ClientPreServiceSuspend
<1>3. Claims'
  BY DoneFacts DEF IInv, TypeOK, Claims, Known, Backed, Handler,
     Rest, ClientPreServiceSuspend
<1>4. RowNotAheadOfChain'
  BY DEF IInv, TypeOK, RowNotAheadOfChain, Claims, Known, Backed, Handler, Rest, ClientPreServiceSuspend
<1>5. OneOrder' BY DEF IInv, TypeOK, OneOrder, Handler, Rest, ClientPreServiceSuspend
<1>q. QED BY <1>1, <1>2, <1>3, <1>4, <1>5 DEF IInv

\* ClientPreServiceUnsuspend keeps the invariant.
LEMMA ClientPreServiceUnsuspendInv == ASSUME IInv, ClientPreServiceUnsuspend PROVE IInv'
<1>1. TypeOK'
  BY DoneFacts DEF IInv, TypeOK, Counted, Handler, Rest, ClientPreServiceUnsuspend
<1>2. Counted'
  BY DoneFacts DEF IInv, TypeOK, Counted, Handler, Rest, ClientPreServiceUnsuspend
<1>3. Claims'
  BY DoneFacts DEF IInv, TypeOK, Claims, Known, Backed, Handler,
     Rest, ClientPreServiceUnsuspend
<1>4. RowNotAheadOfChain'
  BY DEF IInv, TypeOK, RowNotAheadOfChain, Claims, Known, Backed, Handler, Rest, ClientPreServiceUnsuspend
<1>5. OneOrder'
  BY DEF IInv, TypeOK, OneOrder, Handler, Rest, ClientPreServiceUnsuspend
<1>q. QED BY <1>1, <1>2, <1>3, <1>4, <1>5 DEF IInv

\* ClientPreServiceTerminate keeps the invariant.
LEMMA ClientPreServiceTerminateInv == ASSUME IInv, ClientPreServiceTerminate PROVE IInv'
<1>1. TypeOK'
  BY DoneFacts DEF IInv, TypeOK, Counted, Handler, Rest, ClientPreServiceTerminate
<1>2. Counted'
  BY DoneFacts DEF IInv, TypeOK, Counted, Handler, Rest, ClientPreServiceTerminate
<1>3. Claims'
  BY DoneFacts DEF IInv, TypeOK, Claims, Known, Backed, Handler,
     Rest, ClientPreServiceTerminate
<1>4. RowNotAheadOfChain'
  BY DEF IInv, TypeOK, RowNotAheadOfChain, Claims, Known, Backed, Handler, Rest, ClientPreServiceTerminate
<1>5. OneOrder'
  BY DEF IInv, TypeOK, OneOrder, Handler, Rest, ClientPreServiceTerminate
<1>q. QED BY <1>1, <1>2, <1>3, <1>4, <1>5 DEF IInv

\* ClientPreUncooperativeCloseRequest keeps the invariant.
LEMMA ClientPreUncooperativeCloseRequestInv == ASSUME IInv, ClientPreUncooperativeCloseRequest PROVE IInv'
<1>1. TypeOK'
  BY ChainElements, DoneFacts, FaultFacts DEF IInv, TypeOK, Counted, Handler,
     Rest, Fails, Refuse, clientValidateChannelForClose,
     doClientPreUncooperativeCloseRequestAndSaveTx, ClientPreUncooperativeCloseRequest
<1>2. Counted'
  BY DoneFacts DEF IInv, TypeOK, Counted, Handler, Rest, Fails,
     Refuse, clientValidateChannelForClose, doClientPreUncooperativeCloseRequestAndSaveTx,
     ClientPreUncooperativeCloseRequest
<1>3. Claims'
  BY DoneFacts DEF IInv, TypeOK, Claims, Known, Backed, Handler,
     Rest, Fails, Refuse, clientValidateChannelForClose,
     doClientPreUncooperativeCloseRequestAndSaveTx, ClientPreUncooperativeCloseRequest
<1>4. RowNotAheadOfChain'
  BY DEF IInv, TypeOK, RowNotAheadOfChain, Claims, Known, Backed, Handler, Rest, Fails, Refuse,
     clientValidateChannelForClose, doClientPreUncooperativeCloseRequestAndSaveTx,
     ClientPreUncooperativeCloseRequest
<1>5. OneOrder'
  BY DEF IInv, TypeOK, OneOrder, Handler, Rest, Fails, Refuse, clientValidateChannelForClose,
     doClientPreUncooperativeCloseRequestAndSaveTx, ClientPreUncooperativeCloseRequest
<1>q. QED BY <1>1, <1>2, <1>3, <1>4, <1>5 DEF IInv

\* ClientAfterUncooperativeCloseRequest keeps the invariant.
LEMMA ClientAfterUncooperativeCloseRequestInv == ASSUME IInv, ClientAfterUncooperativeCloseRequest PROVE IInv'
<1>1. TypeOK'
  BY DoneFacts DEF IInv, TypeOK, Counted, Handler, Rest, ClientAfterUncooperativeCloseRequest
<1>2. Counted'
  BY DoneFacts DEF IInv, TypeOK, Counted, Handler, Rest, ClientAfterUncooperativeCloseRequest
<1>3. Claims'
  BY DoneFacts DEF IInv, TypeOK, Claims, Known, Backed, Handler,
     Rest, ClientAfterUncooperativeCloseRequest
<1>4. RowNotAheadOfChain'
  BY DEF IInv, TypeOK, RowNotAheadOfChain, Claims, Known, Backed, Handler, Rest, ClientAfterUncooperativeCloseRequest
<1>5. OneOrder'
  BY DEF IInv, TypeOK, OneOrder, Handler, Rest, ClientAfterUncooperativeCloseRequest
<1>q. QED BY <1>1, <1>2, <1>3, <1>4, <1>5 DEF IInv

\* ClientPreUncooperativeClose keeps the invariant.
LEMMA ClientPreUncooperativeCloseInv == ASSUME IInv, ClientPreUncooperativeClose PROVE IInv'
<1>1. TypeOK'
  BY ChainElements, DoneFacts, FaultFacts DEF IInv, TypeOK, Counted, Handler,
     Rest, Fails, Refuse, settle, ClientPreUncooperativeClose
<1>2. Counted'
  BY DoneFacts DEF IInv, TypeOK, Counted, Handler, Rest, Fails,
     Refuse, settle, ClientPreUncooperativeClose
<1>3. Claims'
  BY DoneFacts DEF IInv, TypeOK, Claims, Known, Backed, Handler,
     Rest, Fails, Refuse, settle, ClientPreUncooperativeClose
<1>4. RowNotAheadOfChain'
  BY DEF IInv, TypeOK, RowNotAheadOfChain, Claims, Known, Backed, Handler, Rest, Fails, Refuse,
     settle, ClientPreUncooperativeClose
<1>5. OneOrder'
  BY DEF IInv, TypeOK, OneOrder, Handler, Rest, Fails, Refuse, settle,
     ClientPreUncooperativeClose
<1>q. QED BY <1>1, <1>2, <1>3, <1>4, <1>5 DEF IInv

\* ClientAfterUncooperativeClose keeps the invariant.
LEMMA ClientAfterUncooperativeCloseInv == ASSUME IInv, ClientAfterUncooperativeClose PROVE IInv'
<1>1. TypeOK'
  BY DoneFacts DEF IInv, TypeOK, Counted, Handler, Rest, ClientAfterUncooperativeClose
<1>2. Counted'
  BY DoneFacts DEF IInv, TypeOK, Counted, Handler, Rest, ClientAfterUncooperativeClose
<1>3. Claims'
  BY DoneFacts DEF IInv, TypeOK, Claims, Known, Backed, Handler,
     Rest, ClientAfterUncooperativeClose
<1>4. RowNotAheadOfChain'
  BY DEF IInv, TypeOK, RowNotAheadOfChain, Claims, Known, Backed, Handler, Rest, ClientAfterUncooperativeClose
<1>5. OneOrder'
  BY DEF IInv, TypeOK, OneOrder, Handler, Rest, ClientAfterUncooperativeClose
<1>q. QED BY <1>1, <1>2, <1>3, <1>4, <1>5 DEF IInv

\* ClientAfterCooperativeClose keeps the invariant.
LEMMA ClientAfterCooperativeCloseInv == ASSUME IInv, ClientAfterCooperativeClose PROVE IInv'
<1>1. TypeOK'
  BY DoneFacts, CanceledFacts, FaultFacts DEF IInv, TypeOK, Counted, Handler, Rest, CanTerminate, cancelJobs, ClientAfterCooperativeClose
<1>2. Counted'
  BY DoneFacts, CanceledFacts DEF IInv, TypeOK, Counted, Handler, Rest, CanTerminate, cancelJobs, ClientAfterCooperativeClose
<1>3. Claims'
  BY DoneFacts, CanceledFacts DEF IInv, TypeOK, Claims, Known, Backed, Handler,
     Rest, CanTerminate, cancelJobs, ClientAfterCooperativeClose
<1>4. RowNotAheadOfChain'
  BY DEF IInv, TypeOK, RowNotAheadOfChain, Claims, Known, Backed, Handler, Rest, CanTerminate, cancelJobs, ClientAfterCooperativeClose
<1>5. OneOrder'
  BY DEF IInv, TypeOK, OneOrder, Handler, Rest, CanTerminate, cancelJobs,
     ClientAfterCooperativeClose
<1>q. QED BY <1>1, <1>2, <1>3, <1>4, <1>5 DEF IInv

\* A transaction that is taken moves the contract forward.
LEMMA TakeFacts ==
  ASSUME TypeOK, NEW t \in Txs, Applies(t), Take(t)
  PROVE  /\ chain' \in ChainStatus /\ log' \subseteq Events
         /\ \A k \in Kinds : Backed(k) => Backed(k)'
         /\ \A k \in Kinds : k \in log' => k \in log \/ Backed(k)'
         /\ RowNotAheadOfChain /\ ch' = ch => RowNotAheadOfChain'
<1>1. CASE t = "create"
  BY <1>1, ChainElements DEF TypeOK, Applies, Take, AfterTx, EventOf, Backed, RowNotAheadOfChain, Events
<1>2. CASE t = "request"
  BY <1>2, ChainElements DEF TypeOK, Applies, Take, AfterTx, EventOf, Backed, RowNotAheadOfChain, Events
<1>3. CASE t = "settle"
  BY <1>3, ChainElements DEF TypeOK, Applies, Take, AfterTx, EventOf, Backed, RowNotAheadOfChain, Events
<1>4. CASE t = "coop"
  BY <1>4, ChainElements DEF TypeOK, Applies, Take, AfterTx, EventOf, Backed, RowNotAheadOfChain, Events
<1>q. QED BY <1>1, <1>2, <1>3, <1>4, ChainElements

\* A transaction of this side is mined.
LEMMA MineInv == ASSUME IInv, NEW t \in Txs, Mine(t) PROVE IInv'
<1>1. CASE Applies(t)
  <2>1. TypeOK' /\ Counted' /\ OneOrder'
    BY <1>1, TakeFacts DEF IInv, TypeOK, Counted, OneOrder, Mine
  <2>2. Claims' /\ RowNotAheadOfChain'
    BY <1>1, TakeFacts DEF IInv, Claims, Known, Mine
  <2>q. QED BY <2>1, <2>2 DEF IInv
<1>2. CASE ~Applies(t)
  BY <1>2 DEF IInv, TypeOK, Counted, OneOrder, Claims, Known, Backed, RowNotAheadOfChain, Mine
<1>q. QED BY <1>1, <1>2

\* A transaction of the other side is mined.
LEMMA OtherSideInv == ASSUME IInv, NEW t \in Txs, OtherSide(t) PROVE IInv'
<1>1. TypeOK' /\ Counted' /\ OneOrder'
  BY TakeFacts DEF IInv, TypeOK, Counted, OneOrder, OtherSide
<1>2. Claims' /\ RowNotAheadOfChain'
  BY TakeFacts DEF IInv, Claims, Known, OtherSide
<1>q. QED BY <1>1, <1>2 DEF IInv

\* The challenge period passes.
LEMMA ChallengeEndsInv == ASSUME IInv, ChallengeEnds PROVE IInv'
  BY ChainElements
  DEF IInv, TypeOK, Counted, OneOrder, Claims, Known, Backed, RowNotAheadOfChain, ChallengeEnds

\* A cheque is accepted.
LEMMA PayInv == ASSUME IInv, Pay PROVE IInv'
  BY DEF IInv, TypeOK, Counted, OneOrder, Claims, Known, Backed, RowNotAheadOfChain, Pay

\* A log becomes a job or is dropped.
LEMMA EventInv == ASSUME IInv, NEW e \in Events, onExistingChannelEvent(e) PROVE IInv'
<1>1. /\ e \in Kinds /\ e \in log /\ e \notin Orders
      /\ jobs' = jobs \/ jobs' = [jobs EXCEPT ![e] = jobs[e] + 1]
      /\ jobs \in [Kinds -> Nat] /\ jobs[e] + 1 \in Nat
  BY Subsets DEF IInv, TypeOK, onExistingChannelEvent, Events, Orders
<1>2. /\ jobs' \in [Kinds -> Nat]
      /\ \A x \in Kinds : jobs'[x] > 0 => jobs[x] > 0 \/ x = e
      /\ \A x \in Kinds : jobs[x] > 0 => jobs'[x] > 0
      /\ \A x \in Orders : jobs'[x] = jobs[x]
  BY <1>1, Subsets
<1>3. TypeOK' /\ Counted'
  BY <1>2 DEF IInv, TypeOK, Counted, onExistingChannelEvent
<1>4. Claims' /\ RowNotAheadOfChain'
  BY <1>1, <1>2 DEF IInv, Claims, Known, Backed, RowNotAheadOfChain, onExistingChannelEvent
<1>q. QED BY <1>2, <1>3, <1>4 DEF IInv, OneOrder, Orders

\* A step that changes jobs, the mark of the running one and counters only, and
\* adds no job that claims anything.
LEMMA JobsStep ==
  ASSUME IInv, jobs' \in [Kinds -> Nat], run' \in Run, count' \in Count,
         run'.kind = run.kind, run'.counted => run.counted /\ jobs'[run.kind] > 0,
         \A x \in Kinds : jobs'[x] > 0 => jobs[x] > 0 \/ Backed(x),
         UNCHANGED <<role, dbVars, chainVars, adapterVars>>, OneOrder'
  PROVE  IInv'
<1>1. TypeOK' /\ Counted' BY DEF IInv, TypeOK, Counted
<1>2. Claims' /\ RowNotAheadOfChain' BY DEF IInv, Claims, Known, Backed, RowNotAheadOfChain
<1>q. QED BY <1>1, <1>2 DEF IInv

\* One of the orders of proc.Processor, or the request of closing, is given.
LEMMA OrderInv ==
  ASSUME IInv, Ordered,
         SuspendChannel \/ ActivateChannel \/ TerminateChannel \/ createPreUncooperativeCloseRequest
  PROVE  IInv'
<1>0. /\ run \in Run /\ jobs \in [Kinds -> Nat] /\ count' \in Count
      /\ UNCHANGED <<role, dbVars, chainVars, adapterVars>>
  BY OrderedFacts DEF IInv, TypeOK, Ordered
<1>1. ASSUME NEW k \in {"suspend", "unsuspend"}, alterServiceStatus(k) PROVE IInv'
  <2>1. /\ jobs' \in [Kinds -> Nat] /\ jobs'[k] = 1
        /\ \A x \in Kinds : x # k => jobs'[x] = 0
        /\ ~run.counted
    BY <1>0, <1>1 DEF alterServiceStatus, NoActiveJobs, IInv, Counted
  <2>2. OneOrder' BY <2>1 DEF OneOrder
  <2>q. QED BY <1>0, <1>1, <2>1, <2>2, JobsStep DEF alterServiceStatus, Backed
<1>2. CASE TerminateChannel
  <2>1. run' \in Run /\ run'.kind = run.kind /\ ~run'.counted
    BY <1>0, <1>2 DEF TerminateChannel, Run
  <2>2. OneOrder' BY <1>2, JobsCanceled DEF TerminateChannel, OneOrder
  <2>q. QED BY <1>0, <1>2, <2>1, <2>2, JobsCanceled, JobsStep DEF TerminateChannel, Backed
<1>3. CASE createPreUncooperativeCloseRequest
  <2>1. /\ jobs' \in [Kinds -> Nat] /\ jobs'["request"] = 1
        /\ \A x \in Kinds : x # "request" => jobs'[x] = jobs[x]
        /\ run' = run /\ jobs["request"] = 0
    BY <1>0, <1>3 DEF createPreUncooperativeCloseRequest
  <2>2. OneOrder' BY <2>1 DEF OneOrder, IInv
  <2>3. run'.counted => run.counted /\ jobs'[run.kind] > 0
    BY <1>0, <2>1 DEF IInv, Counted
  <2>q. QED BY <1>0, <2>1, <2>2, <2>3, JobsStep DEF Backed
<1>q. QED BY <1>1, <1>2, <1>3 DEF SuspendChannel, ActivateChannel

\* An offering is accepted.
LEMMA AcceptInv == ASSUME IInv, AcceptOffering PROVE IInv'
<1>0. run \in Run /\ jobs \in [Kinds -> Nat] /\ count \in Count BY DEF IInv, TypeOK
<1>1. /\ jobs' \in [Kinds -> Nat] /\ jobs'["create"] = 1 /\ run' = run /\ ~run.counted
      /\ \A x \in Kinds : x # "create" => jobs'[x] = 0
  BY <1>0, NoRunFacts DEF AcceptOffering, NoActiveJobs
<1>2. OneOrder' BY <1>1 DEF OneOrder
<1>q. QED BY <1>0, <1>1, <1>2, JobsStep DEF AcceptOffering, Backed, dbVars, chainVars, adapterVars

\* A job is collected.
LEMMA CollectInv == ASSUME IInv, NEW k \in Kinds, Collect(k) PROVE IInv'
<1>1. run' \in Run /\ run'.kind = k /\ jobs[k] > 0
  BY DEF Collect, NoRun, Run
<1>2. TypeOK' /\ Counted' BY <1>1 DEF IInv, TypeOK, Counted, Collect
<1>3. Claims' /\ RowNotAheadOfChain' /\ OneOrder'
  BY <1>1 DEF IInv, Claims, Known, Backed, RowNotAheadOfChain, OneOrder, Collect
<1>q. QED BY <1>2, <1>3 DEF IInv

\* A completing job runs.
LEMMA CompleteInv == ASSUME IInv, NEW k \in Completions, CompleteServiceTransition(k) PROVE IInv'
<1>1. svc' \in ServiceStatus BY DEF CompleteServiceTransition, Target, Completions
<1>2. run' \in Run /\ run'.kind = run.kind /\ run'.counted = run.counted
  BY DoneFacts DEF IInv, TypeOK, CompleteServiceTransition
<1>3. TypeOK' /\ Counted' BY <1>1, <1>2 DEF IInv, TypeOK, Counted, CompleteServiceTransition, Rest
<1>4. Claims' /\ RowNotAheadOfChain' /\ OneOrder'
  BY <1>2 DEF IInv, Claims, Known, Backed, RowNotAheadOfChain, OneOrder, CompleteServiceTransition, Rest
<1>q. QED BY <1>3, <1>4 DEF IInv

\* A handler fails.
LEMMA FailsInv == ASSUME IInv, HandlerFails PROVE IInv'
<1>1. /\ run' \in Run /\ run'.kind = run.kind /\ run'.counted = run.counted
      /\ count' \in Count
  BY DoneFacts, FaultFacts DEF IInv, TypeOK, HandlerFails, Fails
<1>2. TypeOK' /\ Counted' BY <1>1 DEF IInv, TypeOK, Counted, HandlerFails
<1>3. Claims' /\ RowNotAheadOfChain' /\ OneOrder'
  BY <1>1 DEF IInv, Claims, Known, Backed, RowNotAheadOfChain, OneOrder, HandlerFails
<1>q. QED BY <1>2, <1>3 DEF IInv

\* A job is saved: its handler was counted, so there is a job to take away.
LEMMA SaveInv == ASSUME IInv, saveJobAndNotify PROVE IInv'
<1>0. run \in Run /\ jobs \in [Kinds -> Nat] BY DEF IInv, TypeOK
<1>1. jobs' = jobs \/ (run.counted /\ jobs' = [jobs EXCEPT ![run.kind] = jobs[run.kind] - 1])
  BY DEF saveJobAndNotify
<1>2. jobs' \in [Kinds -> Nat] /\ \A x \in Kinds : jobs'[x] <= jobs[x]
  BY <1>0, <1>1 DEF IInv, Counted
<1>3. run' = NoRun /\ notes' \subseteq Kinds
  BY <1>0, Subsets DEF saveJobAndNotify, Notified, IInv, TypeOK
<1>4. TypeOK' /\ Counted'
  BY <1>2, <1>3, NoRunFacts DEF IInv, TypeOK, Counted, saveJobAndNotify
<1>5. Claims' /\ RowNotAheadOfChain'
  BY <1>0, <1>2, <1>3, NoRunFacts DEF IInv, Claims, Known, Backed, RowNotAheadOfChain, saveJobAndNotify
<1>6. OneOrder' BY <1>0, <1>2 DEF IInv, OneOrder
<1>q. QED BY <1>4, <1>5, <1>6 DEF IInv

\* The session server and the adapter add completing jobs, which claim nothing.
LEMMA AdapterInv == ASSUME IInv, Adapter PROVE IInv'
<1>0. run \in Run /\ jobs \in [Kinds -> Nat] /\ call \in Completions \cup {"none"}
  BY DEF IInv, TypeOK
<1>1. CASE AddCompletion
  <2>1. /\ call \in Kinds /\ call \notin Orders
        /\ jobs' = [jobs EXCEPT ![call] = jobs[call] + 1] /\ jobs[call] + 1 \in Nat
        /\ Backed(call)
    BY <1>0, <1>1, Subsets DEF AddCompletion, Completions, Orders, Backed
  <2>2. /\ jobs' \in [Kinds -> Nat]
        /\ \A x \in Kinds : jobs'[x] > 0 => jobs[x] > 0 \/ x = call
        /\ \A x \in Kinds : jobs[x] > 0 => jobs'[x] > 0
        /\ \A x \in Orders : jobs'[x] = jobs[x]
    BY <1>0, <2>1, Subsets
  <2>3. TypeOK' /\ Counted' BY <1>1, <2>2 DEF IInv, TypeOK, Counted, AddCompletion
  <2>4. Claims' /\ RowNotAheadOfChain'
    BY <1>1, <2>1, <2>2 DEF IInv, Claims, Known, Backed, RowNotAheadOfChain, AddCompletion
  <2>q. QED BY <2>2, <2>3, <2>4 DEF IInv, OneOrder, Orders
<1>2. CASE ~AddCompletion
  <2>1. /\ UNCHANGED <<role, ch, svc, block, paid, coopJob, jobs, run, chain, txs, log>>
        /\ notes' \subseteq Kinds /\ cmd' \subseteq {"start", "stop"} /\ sess' \in BOOLEAN
    BY <1>2 DEF IInv, TypeOK, Adapter, handleConnChange, ServiceReady, StartSession, UpdateSession, StopSession
  <2>2. call' \in Completions \cup {"none"}
    BY <1>2 DEF IInv, TypeOK, Adapter, handleConnChange, ServiceReady, StartSession, UpdateSession,
       StopSession, Completions
  <2>3. count' \in Count
    BY <1>2 DEF IInv, TypeOK, Count, Adapter, handleConnChange, ServiceReady, StartSession, UpdateSession,
       StopSession
  <2>q. QED
    BY <2>1, <2>2, <2>3 DEF IInv, TypeOK, Counted, OneOrder, Claims, Known, Backed, RowNotAheadOfChain
<1>q. QED BY <1>1, <1>2

\* A crash and the recovery.
LEMMA CrashInv == ASSUME IInv, Crash PROVE IInv'
<1>1. svc' \in ServiceStatus BY DEF Crash, recoverServiceStatuses, IInv, TypeOK
<1>2. TypeOK' /\ Counted'
  BY <1>1, NoRunFacts, FaultFacts DEF IInv, TypeOK, Counted, Crash
<1>3. Claims' /\ RowNotAheadOfChain' /\ OneOrder'
  BY NoRunFacts DEF IInv, Claims, Known, Backed, RowNotAheadOfChain, OneOrder, Crash
<1>q. QED BY <1>2, <1>3 DEF IInv

\* Every step keeps the invariant.
LEMMA NextInv == IInv /\ [Next]_vars => IInv'
<1> SUFFICES ASSUME IInv, [Next]_vars PROVE IInv' OBVIOUS
<1>1. CASE UNCHANGED vars
  BY <1>1 DEF vars, IInv, TypeOK, Counted, Claims, Known, Backed, RowNotAheadOfChain, OneOrder
<1>2. CASE \E t \in Txs : Mine(t) \/ OtherSide(t) BY <1>2, MineInv, OtherSideInv
<1>3. CASE ChallengeEnds \/ Pay \/ \E e \in Events : onExistingChannelEvent(e)
  BY <1>3, ChallengeEndsInv, PayInv, EventInv
<1>4. CASE ChangeChannelStatus BY <1>4, OrderInv DEF ChangeChannelStatus
<1>5. CASE processRound \/ processChannel
  BY <1>5, OrderInv DEF processRound, processChannel, VerifyUnitsBasedChannels,
     VerifyChannelsForInactivity, VerifySuspendedChannelsAndTryToUnsuspend,
     VerifySuspendedChannelsAndTryToTerminate, VerifyBillingLags
<1>6. CASE AcceptOffering \/ \E k \in Kinds : Collect(k) BY <1>6, AcceptInv, CollectInv
<1>7. CASE AgentHandlers
  BY <1>7,
     AgentAfterChannelCreateInv, AgentPreEndpointMsgCreateInv,
     AgentAfterUncooperativeCloseRequestInv, AgentAfterUncooperativeCloseInv,
     AgentAfterCooperativeCloseInv, AgentPreServiceSuspendInv, AgentPreServiceUnsuspendInv,
     AgentPreServiceTerminateInv
     DEF AgentHandlers
<1>8. CASE ClientHandlers
  BY <1>8,
     ClientPreChannelCreateInv, ClientAfterChannelCreateInv, ClientEndpointGetInv,
     ClientPreServiceSuspendInv, ClientPreServiceUnsuspendInv, ClientPreServiceTerminateInv,
     ClientPreUncooperativeCloseRequestInv, ClientAfterUncooperativeCloseRequestInv,
     ClientPreUncooperativeCloseInv, ClientAfterUncooperativeCloseInv,
     ClientAfterCooperativeCloseInv
     DEF ClientHandlers
<1>9. CASE \E k \in Completions : CompleteServiceTransition(k) BY <1>9, CompleteInv
<1>10. CASE HandlerFails \/ saveJobAndNotify \/ Adapter \/ Crash
  BY <1>10, FailsInv, SaveInv, AdapterInv, CrashInv
<1>q. QED
  BY <1>1, <1>2, <1>3, <1>4, <1>5, <1>6, <1>7, <1>8, <1>9, <1>10 DEF Next, Handlers

\* The inductive invariant holds in every reachable state.
THEOREM Invariant == Spec => []IInv
  BY InitInv, NextInv, PTL DEF Spec

\* Every variable keeps its type; in particular no job is settled twice, which
\* would make a number of active jobs negative.
THEOREM TypeCorrect == Spec => []TypeOK
<1>1. IInv => TypeOK BY DEF IInv
<1>q. QED BY <1>1, Invariant, PTL

\* The row of a channel is never ahead of the contract, for either role, any
\* number of orders, sessions, failures and crashes.
THEOREM NotAhead == Spec => []RowNotAheadOfChain
<1>1. IInv => RowNotAheadOfChain BY DEF IInv
<1>q. QED BY <1>1, Invariant, PTL

\* At most one order to suspend, resume or terminate is outstanding.
THEOREM AtMostOneOrder == Spec => []OneOrder
<1>1. IInv => OneOrder BY DEF IInv
<1>q. QED BY <1>1, Invariant, PTL

=============================================================================

----------------------------- MODULE Offerings -----------------------------
(***************************************************************************)
(* One offering: the contract, and the program of an agent that publishes, *)
(* pops up and removes it (ui/offering.go, proc/looper,                    *)
(* proc/worker/agent.go), or of a client that keeps it in its catalogue    *)
(* (proc/worker/client.go).  In both, bc/jobsmaker.go turns the events of  *)
(* the contract into jobs.                                                 *)
(*                                                                         *)
(* Jobs of one related object run one at a time (JobQueue,                 *)
(* MutualExclusion), those of an offering and of its channels overlap: a   *)
(* handler reads the row of the offering and later writes all of its       *)
(* columns back, as the UI does when it edits or pings an offering.        *)
(***************************************************************************)
EXTENDS Naturals, FiniteSets

CONSTANTS
  Roles,        \* the roles of the program: "agent", "client"
  Supply,       \* supply of the offering
  MaxWriters,   \* bound: handlers and UI calls that run at once
  PopUps,       \* bound: pop-up jobs at once
  TryLimit,     \* TryLimit of the pop-up job
  MaxEvents,    \* bound: events of the contract
  MaxPublish,   \* bound: publishing jobs added
  MaxPopUps,    \* bound: pop-up jobs added, pop-ups of another agent
  MaxChannels,  \* bound: channels opened
  MaxEdits,     \* bound: edits and pings
  MaxFaults,    \* bound: failed handlers and crashes
  MaxLoad       \* bound: all of these, and removals, together

ASSUME OfferingsAssumption ==
  /\ Roles \subseteq {"agent", "client"}
  /\ Supply \in Nat /\ TryLimit \in Nat \ {0} /\ MaxEvents \in Nat
  /\ PopUps \subseteq Nat /\ MaxWriters \in Nat

Writers == 1 .. MaxWriters
Heights == 1 .. MaxEvents
Actions == {"register", "popup", "remove"}
Kinds   == {"created", "popedup", "deleted", "opened", "closed"}
\* The place of an event in the log stands for its block.  It has the supply
\* left at that time and, of a channel, the event that opened it.
Event   == [kind : Kinds \cup {"none"}, left : Nat, of : Nat]
NoEvent == [kind |-> "none", left |-> 0, of |-> 0]
Pre     == {<<"register", 1>>, <<"remove", 1>>} \cup {<<"popup", n>> : n \in PopUps}
Ids     == Pre \cup {<<"event", n>> : n \in Heights}
Offered == {"registered", "popped_up"}
Moving  == {"registering", "popping_up", "removing"}
Status  == {"none", "empty", "removed"} \cup Offered \cup Moving
Row     == [status : Status, block : Nat, cur : Nat, id : Nat]
NoRow   == [status |-> "none", block |-> 0, cur |-> 0, id |-> 0]
UiCall  == <<"ui", 0>>
Idle    == <<"idle", 0>>
NoHand  == [id |-> Idle, row |-> NoRow]
Hand    == [id : Ids \cup {UiCall, Idle}, row : Row]

VARIABLES
  role,   \* user.role
  chain,  \* the offering in the contract: st, left (supply), ripe (the period
          \* after the last update is over), height (events so far)
  log,    \* [Heights -> Event], the events of the contract
  txs,    \* transactions sent and not mined
  since,  \* the first event of the forward search, 0 before the first round
  taken,  \* events the blockchain monitor has made a job of, or dropped
  row,    \* the row of the offering
  job,    \* [Ids -> Nat], tries left of an active job, 0 for any other
  rel,    \* [Heights -> Nat], the related object of the job of an event
  known,  \* agent: channels with a row, by the event that opened them
  hand,   \* [Writers -> Hand], running handlers and UI calls, with the row read
  harm,   \* history: a newer row was overwritten, an event counted twice, or the
          \* offering published again
  count   \* how often bounded things have happened

contract == <<chain, log, txs>>
monitor  == <<since, taken, rel>>
vars     == <<role, contract, monitor, row, job, known, hand, harm, count>>

Load == count.publish + count.popups + count.removes + count.channels + count.edits
          + count.faults

\* One more of a bounded thing, within its own bound and the joint one.
Bounded(k, max) ==
  /\ count[k] < max /\ Load < MaxLoad
  /\ count' = [count EXCEPT ![k] = @ + 1]

Requested(k) ==
  \/ k = "register" /\ Bounded("publish", MaxPublish)
  \/ k = "popup" /\ Bounded("popups", MaxPopUps)
  \/ k = "remove" /\ Bounded("removes", 1)

-----------------------------------------------------------------------------
(* The contract.                                                           *)

\* An event, numbered by its place.
Emit(kind, left, of) ==
  /\ chain.height < MaxEvents
  /\ log' = [log EXCEPT ![chain.height + 1] = [kind |-> kind, left |-> left, of |-> of]]

\* What a transaction of the agent does, and the event of it.
Effect(k) ==
  \/ /\ k = "register" /\ chain.st = "none"
     /\ Emit("created", Supply, 0)
     /\ chain' = [chain EXCEPT !.st = "active", !.left = Supply, !.height = @ + 1]
  \/ /\ k = "popup" /\ chain.st = "active" /\ chain.ripe
     /\ Emit("popedup", chain.left, 0)
     /\ chain' = [chain EXCEPT !.ripe = FALSE, !.height = @ + 1]
  \/ /\ k = "remove" /\ chain.st = "active" /\ chain.ripe
     /\ Emit("deleted", chain.left, 0)
     /\ chain' = [chain EXCEPT !.st = "removed", !.height = @ + 1]

Accepted(k) ==
  IF k = "register" THEN chain.st = "none" ELSE chain.st = "active" /\ chain.ripe

\* A transaction is mined; one the contract refuses changes nothing.
Mine(k) ==
  /\ k \in txs
  /\ txs' = txs \ {k}
  /\ Effect(k) \/ (~Accepted(k) /\ UNCHANGED <<chain, log>>)
  /\ UNCHANGED <<role, monitor, row, job, known, hand, harm, count>>

\* Enough blocks have passed since the last update.
PeriodOver ==
  /\ chain.st = "active" /\ ~chain.ripe
  /\ chain' = [chain EXCEPT !.ripe = TRUE]
  /\ UNCHANGED <<role, log, txs, monitor, row, job, known, hand, harm, count>>

OpenChannel ==
  /\ chain.st = "active" /\ chain.left > 0
  /\ Bounded("channels", MaxChannels)
  /\ Emit("opened", chain.left - 1, chain.height + 1)
  /\ chain' = [chain EXCEPT !.left = @ - 1, !.height = @ + 1]
  /\ UNCHANGED <<role, txs, monitor, row, job, known, hand, harm>>

CloseChannel(n) ==
  /\ log[n].kind = "opened"
  /\ \A m \in Heights : ~(log[m].kind = "closed" /\ log[m].of = n)
  /\ Emit("closed", chain.left + 1, n)
  /\ chain' = [chain EXCEPT !.left = @ + 1, !.height = @ + 1]
  /\ UNCHANGED <<role, txs, monitor, row, job, known, hand, harm, count>>

\* To a client the agent is somebody else.
AgentActs(k) ==
  /\ role = "client"
  /\ Requested(k)
  /\ Effect(k)
  /\ UNCHANGED <<role, txs, monitor, row, job, known, hand, harm>>

-----------------------------------------------------------------------------
(* The user interface and the looper.                                      *)

CreateOffering ==
  /\ role = "agent" /\ row.status = "none"
  /\ row' = [status |-> "empty", block |-> 1, cur |-> Supply, id |-> 0]
  /\ UNCHANGED <<role, contract, monitor, job, known, hand, harm, count>>

\* Pop-up jobs are interchangeable: the first one that is not active is added.
Unused(x) == job[x] = 0 /\ \A y \in Pre : y[1] = x[1] /\ y[2] < x[2] => job[y] > 0

\* The status of the offering is not looked at; only pop-up jobs may have an
\* active duplicate.
ChangeOfferingStatus(x) ==
  /\ role = "agent" /\ row.status # "none"
  /\ Unused(x)
  /\ Requested(x[1])
  /\ job' = [job EXCEPT ![x] = TryLimit]
  /\ UNCHANGED <<role, contract, monitor, row, known, hand, harm>>

\* The looper pops up what is on offer, unless such a job is active.
AutoOfferingPopUp(x) ==
  /\ role = "agent" /\ row.status \in Offered
  /\ x[1] = "popup" /\ Unused(x)
  /\ \A y \in Pre : y[1] = "popup" => job[y] = 0
  /\ Bounded("popups", MaxPopUps)
  /\ job' = [job EXCEPT ![x] = TryLimit]
  /\ UNCHANGED <<role, contract, monitor, row, known, hand, harm>>

\* Writers are interchangeable: the first free one is taken.
Free(w) == hand[w].id = Idle /\ \A v \in 1 .. (w - 1) : hand[v].id # Idle

\* UpdateOffering of the agent and PingOfferings of the client: a row shown
\* before is written back; only an offering on offer is pinged.
UiRead(w) ==
  /\ Free(w) /\ row.status # "none"
  /\ role = "client" => row.status \in Offered /\ row.cur > 0
  /\ Bounded("edits", MaxEdits)
  /\ hand' = [hand EXCEPT ![w] = [id |-> UiCall, row |-> row]]
  /\ UNCHANGED <<role, contract, monitor, row, job, known, harm>>

\* All columns are written back, those that others have changed since as well.
Write(w, r) ==
  /\ row' = r
  /\ harm' = (harm \/ hand[w].row # row)

UiWrite(w) ==
  /\ hand[w].id = UiCall
  /\ Write(w, hand[w].row)
  /\ hand' = [hand EXCEPT ![w] = NoHand]
  /\ UNCHANGED <<role, contract, monitor, job, known, count>>

-----------------------------------------------------------------------------
(* The blockchain monitor makes jobs of events.                            *)

\* The client's first round chooses where its forward search begins.
StartMonitor ==
  /\ since = 0
  /\ since' \in 1 .. (chain.height + 1)
  /\ UNCHANGED <<role, contract, taken, rel, row, job, known, hand, harm, count>>

\* Forward, events come in order; backward, the client looks only for offerings.
IsNext(n) ==
  \/ n >= since /\ \A m \in since .. (n - 1) : m \in taken
  \/ n < since /\ log[n].kind \in {"created", "popedup"}

\* An event of a channel without a row makes no job, but for its creation.
AgentJob(n) ==
  IF log[n].kind = "closed" /\ log[n].of \notin known THEN UNCHANGED <<rel, job>>
  ELSE /\ rel' = [rel EXCEPT ![n] = log[n].of]
       /\ job' = [job EXCEPT ![<<"event", n>>] = TryLimit]

\* The ids under which the offering is, or by some job will be, in the catalogue.
CreateJobs == {rel[m] : m \in {m \in taken : log[m].kind \in {"created", "popedup"}}}

\* A new offering gets a new id (the number of its event); a removal and the
\* channels are of interest only when there is a row, or a job for one.
RelatedIds(n) ==
  IF log[n].kind = "created" THEN {n}
  ELSE IF row.status # "none" THEN {row.id}
  ELSE IF log[n].kind = "popedup" THEN {n}
  ELSE IF log[n].kind = "deleted" THEN {}
  ELSE CreateJobs

ClientJob(n) ==
  \/ /\ RelatedIds(n) = {}
     /\ UNCHANGED <<rel, job>>
  \/ \E i \in RelatedIds(n) :
       /\ rel' = [rel EXCEPT ![n] = i]
       /\ job' = [job EXCEPT ![<<"event", n>>] = TryLimit]

TakeEvent(n) ==
  /\ since # 0 /\ n \notin taken /\ log[n].kind # "none"
  /\ IsNext(n)
  /\ taken' = taken \cup {n}
  /\ IF role = "agent" THEN AgentJob(n) ELSE ClientJob(n)
  /\ UNCHANGED <<role, contract, since, row, known, hand, harm, count>>

-----------------------------------------------------------------------------
(* Handlers: the row is read, and later written.                           *)

\* The related object of a job: the offering, a channel, or a new offering.
RelatedId(x) == IF x[1] = "event" THEN rel[x[2]] ELSE 0

IsEvent(x, kind) == x[1] = "event" /\ log[x[2]].kind = kind

\* The offering is active in the contract and its period over.
checkInPeriod == chain.st = "active" /\ chain.ripe

\* Jobs other than pop-ups are run again until they succeed; their runs that
\* change nothing are left out.
Fruitless(x) ==
  \/ x[1] = "remove" /\ ~(row.status \in Offered /\ checkInPeriod)
  \/ role = "agent" /\ IsEvent(x, "opened") /\ (row.cur = 0 \/ x[2] \in known)
  \/ role = "agent" /\ IsEvent(x, "closed") /\ row.cur >= Supply

Start(w, x) ==
  /\ Free(w) /\ job[x] > 0 /\ ~Fruitless(x)
  /\ \A v \in Writers : hand[v].id \in Ids => RelatedId(hand[v].id) # RelatedId(x)
  /\ hand' = [hand EXCEPT ![w] = [id |-> x, row |-> row]]
  /\ UNCHANGED <<role, contract, monitor, row, job, known, harm, count>>

Release(w) == hand' = [hand EXCEPT ![w] = NoHand]

\* The handler returns and its job is done; or the job stays active, because the
\* program dies before that is saved, or because the last step of the handler,
\* a job for the balances, is refused as one is active.
Finish(w) ==
  /\ Release(w)
  /\ \/ job' = [job EXCEPT ![hand[w].id] = 0] /\ UNCHANGED count
     \/ UNCHANGED job /\ Bounded("faults", MaxFaults)

\* The handler returns an error.  Only pop-up jobs are given up after some tries.
Retry(w) ==
  /\ job' = IF hand[w].id[1] = "popup" THEN [job EXCEPT ![hand[w].id] = @ - 1] ELSE job
  /\ Release(w)

Refused(w) == Retry(w) /\ UNCHANGED <<row, txs, known, harm, count>>

\* The handler saves its row with these columns changed.
Save(w, status, block) == Write(w, [hand[w].row EXCEPT !.status = status, !.block = block])

Handles(w, kind) == IsEvent(hand[w].id, kind)

Send(k) == txs' = txs \cup {k}

\* There is no check of the status here, nor of the contract.
AgentPreOfferingMsgBCPublish(w) ==
  /\ hand[w].id[1] = "register"
  /\ Send("register")
  /\ row' = [hand[w].row EXCEPT !.status = "registering"]
  /\ harm' = (harm \/ hand[w].row # row \/ row.status # "empty")
  /\ Finish(w)
  /\ UNCHANGED <<role, chain, log, monitor, known>>

\* Mutant of AgentPreOfferingDelete: removed when the transaction is sent.
AgentPreOfferingDelete_Early(w) ==
  /\ hand[w].id[1] = "remove"
  /\ IF hand[w].row.status \in Offered /\ checkInPeriod
     THEN Send("remove") /\ Save(w, "removed", hand[w].row.block) /\ Finish(w) /\ UNCHANGED known
     ELSE Refused(w)
  /\ UNCHANGED <<role, chain, log, monitor>>

AgentPreOfferingDelete(w) ==
  /\ hand[w].id[1] = "remove"
  /\ IF hand[w].row.status \in Offered /\ checkInPeriod
     THEN Send("remove") /\ Save(w, "removing", hand[w].row.block) /\ Finish(w) /\ UNCHANGED known
     ELSE Refused(w)
  /\ UNCHANGED <<role, chain, log, monitor>>

\* Mutant of agentOfferingPopUpFindRelatedJobs: the job itself is counted.
agentOfferingPopUpFindRelatedJobs_Own(x) ==
  {y \in Pre : y[1] \in {"popup", "remove"} /\ job[y] > 0}

\* The other active jobs that pop the offering up or remove it.
agentOfferingPopUpFindRelatedJobs(x) ==
  {y \in Pre \ {x} : y[1] \in {"popup", "remove"} /\ job[y] > 0}

AgentPreOfferingPopUp(w) ==
  /\ hand[w].id[1] = "popup"
  /\ IF /\ hand[w].row.status \in Offered
        /\ agentOfferingPopUpFindRelatedJobs(hand[w].id) = {}
        /\ checkInPeriod
     THEN Send("popup") /\ Save(w, "popping_up", hand[w].row.block) /\ Finish(w) /\ UNCHANGED known
     ELSE Refused(w)
  /\ UNCHANGED <<role, chain, log, monitor>>

AgentAfterOfferingMsgBCPublish(w) ==
  /\ role = "agent" /\ Handles(w, "created")
  /\ Save(w, "registered", hand[w].id[2])
  /\ Finish(w)
  /\ UNCHANGED <<role, contract, monitor, known>>

\* Mutant of AgentAfterOfferingPopUp: only the block is updated.
AgentAfterOfferingPopUp_BlockOnly(w) ==
  /\ role = "agent" /\ Handles(w, "popedup")
  /\ Save(w, hand[w].row.status, hand[w].id[2])
  /\ Finish(w)
  /\ UNCHANGED <<role, contract, monitor, known>>

AgentAfterOfferingPopUp(w) ==
  /\ role = "agent" /\ Handles(w, "popedup")
  /\ Save(w, "popped_up", hand[w].id[2])
  /\ Finish(w)
  /\ UNCHANGED <<role, contract, monitor, known>>

AgentAfterOfferingDelete(w) ==
  /\ role = "agent" /\ Handles(w, "deleted")
  /\ Save(w, "removed", hand[w].row.block)
  /\ Finish(w)
  /\ UNCHANGED <<role, contract, monitor, known>>

\* Mutant of AgentAfterChannelCreate: the supply is left alone.
AgentAfterChannelCreate_NoSupply(w) ==
  /\ role = "agent" /\ Handles(w, "opened")
  /\ known' = known \cup {hand[w].id[2]}
  /\ Finish(w)
  /\ UNCHANGED <<role, contract, monitor, row, harm>>

\* One transaction inserts the channel, once, and takes one from the supply.
\* Below zero the number wraps around and the database refuses the row.
AgentAfterChannelCreate(w) ==
  /\ role = "agent" /\ Handles(w, "opened")
  /\ IF hand[w].row.cur > 0 /\ hand[w].id[2] \notin known
     THEN /\ Write(w, [hand[w].row EXCEPT !.cur = @ - 1])
          /\ known' = known \cup {hand[w].id[2]}
          /\ Finish(w)
          /\ UNCHANGED txs
     ELSE Refused(w)
  /\ UNCHANGED <<role, chain, log, monitor>>

\* The supply is given back before the last job is added: a handler that runs
\* again gives it back twice.  More than the supply is refused by the database.
AgentAfterClose(w) ==
  /\ role = "agent" /\ Handles(w, "closed")
  /\ IF hand[w].row.cur < Supply
     THEN /\ row' = [hand[w].row EXCEPT !.cur = @ + 1]
          /\ Finish(w)
          /\ harm' = (harm \/ hand[w].row # row \/ job'[hand[w].id] # 0)
          /\ UNCHANGED <<txs, known>>
     ELSE Refused(w)
  /\ UNCHANGED <<role, chain, log, monitor>>

-----------------------------------------------------------------------------
(* Handlers of the client.                                                 *)

\* The offering is not in the catalogue and is active in the contract.  (The
\* answer of the contract and the insertion are one step: a removal in between
\* would have to be mined, confirmed and fetched.)
fillOfferingFromMsg == row.status = "none" /\ chain.st = "active"

\* The message has been fetched from the agent; an offering that cannot be
\* taken cancels the job.
clientRetrieveAndSaveOffering(w) ==
  LET n == hand[w].id[2] IN
  /\ row' = IF fillOfferingFromMsg
            THEN [status |-> "registered", block |-> n, cur |-> log[n].left, id |-> rel[n]]
            ELSE row
  /\ UNCHANGED harm

ClientAfterOfferingMsgBCPublish(w) ==
  /\ role = "client" /\ Handles(w, "created")
  /\ clientRetrieveAndSaveOffering(w)
  /\ Finish(w)
  /\ UNCHANGED <<role, contract, monitor, known>>

\* Mutant of ClientAfterOfferingPopUp: a removed offering is popped up as well.
ClientAfterOfferingPopUp_Always(w) ==
  /\ role = "client" /\ Handles(w, "popedup")
  /\ IF hand[w].row.status = "none" THEN clientRetrieveAndSaveOffering(w)
     ELSE Save(w, "popped_up", hand[w].id[2])
  /\ Finish(w)
  /\ UNCHANGED <<role, contract, monitor, known>>

\* An older event, found by the backward search, changes nothing.
ClientAfterOfferingPopUp(w) ==
  LET r == hand[w].row IN
  /\ role = "client" /\ Handles(w, "popedup")
  /\ IF r.status = "none" THEN clientRetrieveAndSaveOffering(w)
     ELSE IF r.status # "removed" /\ hand[w].id[2] > r.block
     THEN Save(w, "popped_up", hand[w].id[2])
     ELSE UNCHANGED <<row, harm>>
  /\ Finish(w)
  /\ UNCHANGED <<role, contract, monitor, known>>

ClientAfterOfferingDelete(w) ==
  /\ role = "client" /\ Handles(w, "deleted")
  /\ Save(w, "removed", hand[w].row.block)
  /\ Finish(w)
  /\ UNCHANGED <<role, contract, monitor, known>>

\* A job whose offering was inserted under another id, or not yet, is skipped;
\* a supply that would leave its range is read from the contract.
UpdateCurrentSupply(w, possible, cur) ==
  /\ IF hand[w].row.status = "none" \/ hand[w].row.id # rel[hand[w].id[2]]
     THEN UNCHANGED <<row, harm>>
     ELSE Write(w, [hand[w].row EXCEPT !.cur = IF possible THEN cur ELSE chain.left])
  /\ Finish(w)
  /\ UNCHANGED <<role, contract, monitor, known>>

\* Mutant of DecrementCurrentSupply: the supply may fall below zero (of 16 bits).
DecrementCurrentSupply_Wraps(w) ==
  /\ role = "client" /\ Handles(w, "opened")
  /\ UpdateCurrentSupply(w, TRUE, (hand[w].row.cur + 65535) % 65536)

DecrementCurrentSupply(w) ==
  /\ role = "client" /\ Handles(w, "opened")
  /\ UpdateCurrentSupply(w, hand[w].row.cur > 0, hand[w].row.cur - 1)

IncrementCurrentSupply(w) ==
  /\ role = "client" /\ Handles(w, "closed")
  /\ UpdateCurrentSupply(w, hand[w].row.cur < Supply, hand[w].row.cur + 1)

-----------------------------------------------------------------------------
(* Faults.                                                                 *)

\* A handler fails: before it has done anything, or with its transaction sent
\* and nothing saved.
HandlerFails(w) ==
  /\ hand[w].id \in Ids
  /\ Bounded("faults", MaxFaults)
  /\ \/ UNCHANGED txs
     \/ hand[w].id[1] = "register" /\ Send("register")
     \/ /\ hand[w].id[1] \in {"popup", "remove"}
        /\ hand[w].row.status \in Offered /\ checkInPeriod
        /\ hand[w].id[1] = "popup" => agentOfferingPopUpFindRelatedJobs(hand[w].id) = {}
        /\ Send(hand[w].id[1])
  /\ Retry(w)
  /\ UNCHANGED <<role, chain, log, monitor, row, known, harm>>

\* The program dies; its active jobs run again.
Crash ==
  /\ \E w \in Writers : hand[w].id # Idle
  /\ Bounded("faults", MaxFaults)
  /\ hand' = [w \in Writers |-> NoHand]
  /\ UNCHANGED <<role, contract, monitor, row, job, known, harm>>

-----------------------------------------------------------------------------
Init ==
  /\ role \in Roles
  /\ chain = [st |-> "none", left |-> 0, ripe |-> FALSE, height |-> 0]
  /\ log = [n \in Heights |-> NoEvent]
  /\ txs = {}
  /\ since = IF role = "agent" THEN 1 ELSE 0
  /\ taken = {}
  /\ row = NoRow
  /\ job = [x \in Ids |-> 0]
  /\ rel = [n \in Heights |-> 0]
  /\ known = {}
  /\ hand = [w \in Writers |-> NoHand]
  /\ harm = FALSE
  /\ count = [publish |-> 0, popups |-> 0, removes |-> 0, channels |-> 0, edits |-> 0,
              faults |-> 0]

AgentHandler(w) ==
  \/ AgentPreOfferingMsgBCPublish(w) \/ AgentPreOfferingDelete(w) \/ AgentPreOfferingPopUp(w)
  \/ AgentAfterOfferingMsgBCPublish(w) \/ AgentAfterOfferingPopUp(w)
  \/ AgentAfterOfferingDelete(w) \/ AgentAfterChannelCreate(w) \/ AgentAfterClose(w)

ClientHandler(w) ==
  \/ ClientAfterOfferingMsgBCPublish(w) \/ ClientAfterOfferingPopUp(w)
  \/ ClientAfterOfferingDelete(w) \/ DecrementCurrentSupply(w) \/ IncrementCurrentSupply(w)

Work ==
  \E w \in Writers : \/ \E x \in Ids : Start(w, x)
                     \/ AgentHandler(w) \/ ClientHandler(w) \/ UiWrite(w)

Mining == (\E k \in Actions : Mine(k)) \/ PeriodOver

User ==
  \/ CreateOffering
  \/ \E x \in Pre : ChangeOfferingStatus(x) \/ AutoOfferingPopUp(x)
  \/ \E w \in Writers : UiRead(w)

Others ==
  \/ \E k \in Actions : AgentActs(k)
  \/ OpenChannel \/ \E n \in Heights : CloseChannel(n)

Faults == Crash \/ \E w \in Writers : HandlerFails(w)

Monitor == StartMonitor \/ \E n \in Heights : TakeEvent(n)

Next == Work \/ Mining \/ Monitor \/ User \/ Others \/ Faults

Spec == Init /\ [][Next]_vars

\* The queue runs its jobs, requests end by their timeout, transactions are mined
\* and rounds of the monitor go on.
FairSpec == Spec /\ WF_vars(Work \/ Mining \/ Monitor)

-----------------------------------------------------------------------------
(* Properties.                                                             *)

\* The type invariant; the supply stays within what the database accepts.
TypeOK ==
  /\ role \in Roles
  /\ chain \in [st : {"none", "active", "removed"}, left : Nat, ripe : BOOLEAN,
                height : 0 .. MaxEvents]
  /\ log \in [Heights -> Event]
  /\ txs \subseteq Actions
  /\ since \in Nat
  /\ taken \subseteq Heights
  /\ row \in Row /\ row.cur <= Supply
  /\ job \in [Ids -> 0 .. TryLimit]
  /\ rel \in [Heights -> Nat]
  /\ known \subseteq Heights
  /\ hand \in [Writers -> Hand]
  /\ harm \in BOOLEAN
  /\ count \in [{"publish", "popups", "removes", "channels", "edits", "faults"} -> Nat]

\* A status says no more than the contract has done: on offer only what was
\* registered, popped up only after a pop-up, removed only when it is.
Justified(r) ==
  /\ r.status \in Offered \cup {"popping_up", "removing"} => chain.st # "none"
  /\ r.status = "popped_up" => \E n \in Heights : log[n].kind = "popedup"
  /\ r.status = "removed" => chain.st = "removed"

\* Whatever rows are written back late, jobs repeated and events found in any
\* order, no row, nor any copy about to be written, is ahead of the contract.
NotAheadOfContract ==
  /\ Justified(row)
  /\ \A w \in Writers : Justified(hand[w].row)

Counted(kind) == {n \in taken : log[n].kind = kind /\ rel[n] # 0 /\ job[<<"event", n>>] = 0}

\* current_supply, "number of available offerings for concurrent use": of each
\* channel the agent knows one is taken, of each closing handled one given back,
\* exactly once, whatever fails and is run again, unless a row was overwritten.
SupplyExact ==
  role = "agent" /\ row.status # "none" /\ ~harm =>
    row.cur + Cardinality(known) = Supply + Cardinality(Counted("closed"))

\* A change of the status that has begun comes to its end.
TransitionEnds ==
  role = "agent" /\ row.status \in Moving ~> row.status \notin Moving \/ harm

\* Pop-up jobs give way to each other and are given up after some tries: still,
\* when the offering can be popped up, one of them gets through.
PopUpGoesThrough ==
  (/\ row.status \in Offered /\ checkInPeriod
   /\ \E x \in Pre : x[1] = "popup" /\ job[x] > 0)
  ~> (row.status \notin Offered \/ harm \/ count.faults > 0)

\* Nothing is left to be done about the events so far.
Settled ==
  /\ since # 0 /\ \A n \in Heights : log[n].kind # "none" /\ IsNext(n) => n \in taken
  /\ \A x \in Ids : job[x] = 0
  /\ \A w \in Writers : hand[w].id = Idle

\* In whatever order the two searches find its events, and wherever the client
\* began, a removed offering does not stay in the catalogue.
RemovedLeaves ==
  role = "client" /\ chain.st = "removed" /\ Settled /\ ~harm =>
    row.status \in {"none", "removed"}
=============================================================================

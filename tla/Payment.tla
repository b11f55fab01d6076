------------------------------ MODULE Payment ------------------------------
(***************************************************************************)
(* The payments of one channel: the client's billing monitor and its       *)
(* cheques (client/bill/monitor.go, pay/client.go), the agent's payment    *)
(* server (pay/pay.go, pay/misc.go), the agent's check of the deposit      *)
(* (agent/bill/monitor.go), and the handlers of proc/worker that rewrite   *)
(* the channel's row on either side while payments go on.                  *)
(*                                                                         *)
(* Each side has a database of its own, with its row of the channel.  The  *)
(* handlers of one side run one at a time (JobQueue, MutualExclusion); a   *)
(* handler reads the row, and later writes all of its columns back.        *)
(* "serving" stands for pending, active and suspended, the statuses        *)
(* TerminateChannel accepts; activating and suspending are passed over.    *)
(***************************************************************************)
EXTENDS Integers

CONSTANTS
  Setup, Price,  \* setup_price and unit_price of the offering
  Interval,      \* billing_interval of the offering
  Deposit,       \* deposit the channel was created with
  Added,         \* deposit added by a top-up
  Posts,         \* bound: running postCheque goroutines
  Terminators,   \* bound: sides that may terminate for a reason not modelled
  MaxUsed,       \* bound: units used
  MaxTopUps,     \* bound: top-ups
  MaxStatus,     \* bound: jobs that change the status of a serving channel
  MaxFaults,     \* bound: lost messages, crashes and repeated handlers
  MaxTrouble     \* bound: top-ups, status jobs and faults together

ASSUME PaymentAssumption ==
  /\ Setup \in Nat /\ Price \in Nat \ {0} /\ Interval \in Nat \ {0}
  /\ Deposit \in Nat /\ Added \in Nat
  /\ Terminators \subseteq {"client", "agent"}

Sides  == {"client", "agent"}
Events == {"topup", "close"}
Queued == Events \cup {"status", "terminate"}
Kinds  == Queued \cup {"complete"}
Svc    == {"serving", "terminating", "terminated"}
Row    == [deposit : Nat, receipt : Nat, sig : Nat, open : BOOLEAN, svc : Svc]
Run    == [kind : Kinds \cup {"none"}, row : Row, canceled : BOOLEAN]
PostPc == {"idle", "sent", "update", "ok", "refused", "terminated"}
Post   == [pc : PostPc, amount : Nat, waiting : BOOLEAN]
NoRow  == [deposit |-> 0, receipt |-> 0, sig |-> 0, open |-> FALSE, svc |-> "terminated"]
NoRun  == [kind |-> "none", row |-> NoRow, canceled |-> FALSE]
NoPost == [pc |-> "idle", amount |-> 0, waiting |-> FALSE]
Tx     == [amount : Nat, sig : Nat]

VARIABLES
  row,    \* [Sides -> Row], the channel in each database; sig is the amount the
          \* stored signature is for
  job,    \* [Sides -> [Queued -> Nat]], active jobs of the channel, and events the
          \* blockchain monitor has not made a job of yet
  run,    \* [Sides -> Run], the running handler and the row it has read
  mon,    \* the row the client's monitor has selected, if any
  post,   \* [Posts -> Post], the cheques on their way
  chain,  \* the channel in the contract: deposit, closed, paid
  txs,    \* cooperative closings sent and not mined
  used,   \* units used, as both sides count them
  lost,   \* history: a save of the agent has replaced a receipt by an older one
  twice,  \* [Sides -> BOOLEAN], history: a top-up has been added twice
  count   \* [topups, status, faults], for the bounds

db   == <<row, job, run>>
hist == <<lost, twice, count>>
vars == <<db, mon, post, chain, txs, used, hist>>

Trouble == count.topups + count.status + count.faults

-----------------------------------------------------------------------------
(* The service, its price and the chain.                                   *)

ComputePrice(units) == units * Price + Setup

\* Go's integer division rounds towards zero.
Quotient(a, b) == IF a >= 0 THEN a \div b ELSE -((-a) \div b)

\* Units used that a receipt does not pay for.
Lag(receipt) == used - Quotient(receipt - Setup, Price)

Consume ==
  /\ used < MaxUsed
  /\ \A s \in Sides : row[s].svc = "serving" /\ row[s].open
  /\ used' = used + 1
  /\ UNCHANGED <<db, mon, post, chain, txs, hist>>

\* The transaction of ClientPreChannelTopUp is mined.
TopUp ==
  /\ count.topups < MaxTopUps /\ Trouble < MaxTrouble
  /\ ~chain.closed
  /\ count' = [count EXCEPT !.topups = @ + 1]
  /\ chain' = [chain EXCEPT !.deposit = @ + Added]
  /\ job' = [s \in Sides |-> [job[s] EXCEPT !["topup"] = @ + 1]]
  /\ UNCHANGED <<row, run, mon, post, txs, used, lost, twice>>

\* The contract pays the signed balance, at most the deposit, once.
CooperativeClose(t) ==
  /\ t \in txs
  /\ txs' = txs \ {t}
  /\ IF ~chain.closed /\ t.sig = t.amount /\ t.amount <= chain.deposit
     THEN /\ chain' = [chain EXCEPT !.closed = TRUE, !.paid = t.amount]
          /\ job' = [s \in Sides |-> [job[s] EXCEPT !["close"] = @ + 1]]
     ELSE UNCHANGED <<chain, job>>
  /\ UNCHANGED <<row, run, mon, post, used, hist>>

-----------------------------------------------------------------------------
(* Jobs of the channel.                                                    *)

HasTerminate(s) == job[s]["terminate"] > 0 \/ run[s].kind = "terminate"

\* Cancels every active job of the channel, that of a running handler too, and
\* adds the terminating job.  An event that is no job yet is not canceled.
CancelAndTerminate(s) ==
  \E t \in {0, job[s]["topup"]}, c \in {0, job[s]["close"]} :
    job' = [job EXCEPT ![s]["topup"] = t, ![s]["close"] = c,
                       ![s]["status"] = 0, ![s]["terminate"] = 1]

Terminated(s) ==
  /\ CancelAndTerminate(s)
  /\ run' = [run EXCEPT ![s].canceled = (run[s].kind # "none")]

\* TerminateChannel refuses a service that is not serving, and a second job.
CanTerminate(s) == row[s].svc = "serving" /\ ~HasTerminate(s)

TerminateChannel(s) ==
  /\ CanTerminate(s)
  /\ Terminated(s)
  /\ UNCHANGED <<row, mon, post, chain, txs, used, hist>>

\* The user, a limit of time or a closing request terminates the service.
TerminateByOther(s) == s \in Terminators /\ TerminateChannel(s)

\* The agent's monitor: the price has reached the deposit.
VerifyUnitsBasedChannels ==
  /\ ComputePrice(used) >= row["agent"].deposit
  /\ TerminateChannel("agent")

\* A job for a status that is not a terminal one: the adapter has stopped the
\* session of a channel that is not terminating, or the service is suspended or
\* activated.
StopSession(s) ==
  /\ row[s].svc = "serving"
  /\ count.status < MaxStatus /\ Trouble < MaxTrouble
  /\ count' = [count EXCEPT !.status = @ + 1]
  /\ job' = [job EXCEPT ![s]["status"] = @ + 1]
  /\ UNCHANGED <<row, run, mon, post, chain, txs, used, lost, twice>>

\* A queued job, or CompleteServiceTransition of a terminating service whose
\* session the adapter has stopped.
Ready(s, k) == IF k = "complete" THEN row[s].svc = "terminating" ELSE job[s][k] > 0

\* A handler starts: relatedChannel reads the whole row.
Start(s, k) ==
  /\ run[s].kind = "none"
  /\ Ready(s, k)
  /\ job' = IF k \in Queued THEN [job EXCEPT ![s][k] = @ - 1] ELSE job
  /\ run' = [run EXCEPT ![s] = [kind |-> k, row |-> row[s], canceled |-> FALSE]]
  /\ UNCHANGED <<row, mon, post, chain, txs, used, hist>>

\* What a handler makes of the row it has read.
Result(k, r) ==
  CASE k = "topup"     -> {[r EXCEPT !.deposit = @ + Added]}
    [] k = "close"     -> {[r EXCEPT !.open = FALSE]}
    [] k = "complete"  -> {[r EXCEPT !.svc = "terminated"]}
    [] k = "terminate" -> {[r EXCEPT !.svc = v] : v \in
                             IF r.svc = "serving" THEN {"terminating", "terminated"}
                                                  ELSE {"terminated"}}
    [] k = "status"    -> {[r EXCEPT !.svc = "serving"]}

\* Mutant of SaveRow: the receipt is not read with its signature.
SaveRow_NoSig(s) ==
  /\ \E r \in Result(run[s].kind, run[s].row) :
       row' = [row EXCEPT ![s] = [r EXCEPT !.sig = row[s].sig]]
  /\ lost' = (lost \/ (s = "agent" /\ row'[s].receipt < row[s].receipt))

\* The save of a handler: every column, the receipt among them.
SaveRow(s) ==
  /\ \E r \in Result(run[s].kind, run[s].row) : row' = [row EXCEPT ![s] = r]
  /\ lost' = (lost \/ (s = "agent" /\ row'[s].receipt < row[s].receipt))

\* AgentPreServiceTerminate closes the channel with the receipt it has read, if
\* there is one.
SendClosing(s) ==
  txs' = IF s = "agent" /\ run[s].kind = "terminate" /\ run[s].row.receipt # 0
         THEN txs \cup {[amount |-> run[s].row.receipt, sig |-> run[s].row.sig]}
         ELSE txs

Requeued(s) == [job EXCEPT ![s][run[s].kind] = @ + 1]

\* The handler has failed, and its job is to be run again.  A canceled job is not,
\* if the cancelation comes before the queue looks for it (JobQueue,
\* CanceledNotRetried).
Again(s) ==
  /\ \/ run[s].kind \in Queued /\ job' = Requeued(s)
     \/ (run[s].kind \notin Queued \/ run[s].canceled) /\ UNCHANGED job
  /\ run' = [run EXCEPT ![s] = NoRun]

\* ClientAfterCooperativeClose terminates the service, which fails, and has the
\* job retried, while another termination is on its way.
ClientClosing(s) == s = "client" /\ run[s].kind = "close" /\ run[s].row.svc # "terminated"

\* A handler saves the row, takes the steps that follow, and its job is done.
Finish(s) ==
  /\ run[s].kind # "none"
  /\ SaveRow(s)
  /\ SendClosing(s)
  /\ \/ /\ ~ClientClosing(s)
        /\ run' = [run EXCEPT ![s] = NoRun]
        /\ UNCHANGED job
     \/ /\ ClientClosing(s)
        /\ CanTerminate(s)
        /\ CancelAndTerminate(s)
        /\ run' = [run EXCEPT ![s] = NoRun]
     \/ /\ ClientClosing(s)
        /\ ~CanTerminate(s)
        /\ Again(s)
  /\ UNCHANGED <<mon, post, chain, used, twice, count>>

Fault ==
  /\ count.faults < MaxFaults /\ Trouble < MaxTrouble
  /\ count' = [count EXCEPT !.faults = @ + 1]

\* The row is saved, but the job is not done: a step that follows fails (the
\* client's afterChannelTopUp cannot add a second job that updates balances; the
\* closing is not sent, or its record not saved), or the program dies.  The
\* handler will be run again.
FinishFails(s) ==
  /\ run[s].kind # "none"
  /\ Fault
  /\ SaveRow(s)
  /\ Again(s)
  /\ SendClosing(s) \/ UNCHANGED txs
  /\ twice' = [twice EXCEPT ![s] = @ \/ (run[s].kind = "topup" /\ job' # job)]
  /\ UNCHANGED <<mon, post, chain, used>>

\* The program of a side dies and is started again: Recover ends a termination
\* that was under way, the job of the running handler is still active unless it
\* was canceled, nobody waits for the answers to the client's cheques any more,
\* and the requests the agent was serving are dropped.
Restart(s) ==
  /\ row' = [row EXCEPT ![s].svc = IF @ = "terminating" THEN "terminated" ELSE @]
  /\ job' = IF run[s].kind \in Queued /\ ~run[s].canceled THEN Requeued(s) ELSE job
  /\ run' = [run EXCEPT ![s] = NoRun]
  /\ IF s = "client"
     THEN /\ mon' = NoRow
          /\ post' = [p \in Posts |-> [post[p] EXCEPT !.waiting = FALSE]]
     ELSE /\ UNCHANGED mon
          /\ post' = [p \in Posts |-> IF post[p].pc = "update" THEN NoPost ELSE post[p]]

Crash(s) ==
  /\ Fault
  /\ Restart(s)
  /\ UNCHANGED <<chain, txs, used, lost, twice>>

-----------------------------------------------------------------------------
(* The client's billing monitor.                                           *)

\* Run selects the channel if it is active and its service not terminating.
Select ==
  /\ mon = NoRow
  /\ row["client"].svc = "serving" /\ row["client"].open
  /\ mon' = row["client"]
  /\ UNCHANGED <<db, post, chain, txs, used, hist>>

\* The deposit is spent, or the client has been inactive for too long.
DepositSpent     == mon.receipt # 0 /\ mon.deposit # 0 /\ mon.receipt = mon.deposit
isToBeTerminated == DepositSpent \/ "client" \in Terminators

\* processChannel with the row selected before.  A second terminating job is no
\* error; any other refusal ends Run, and with it the program.
processTerminate ==
  /\ mon # NoRow
  /\ isToBeTerminated
  /\ \/ /\ CanTerminate("client")
        /\ Terminated("client")
        /\ mon' = NoRow
        /\ UNCHANGED <<row, post>>
     \/ /\ row["client"].svc = "serving"
        /\ HasTerminate("client")
        /\ mon' = NoRow
        /\ UNCHANGED <<db, post>>
     \/ /\ row["client"].svc # "serving"
        /\ Restart("client")
  /\ UNCHANGED <<chain, txs, used, hist>>

\* Mutant of Cheque: it is not limited by the deposit.
Cheque_Unlimited(r) == ComputePrice(used)

\* The amount of a cheque: the price, at most the deposit.
Cheque(r) ==
  IF ComputePrice(used) > r.deposit THEN r.deposit ELSE ComputePrice(used)

\* Mutant of ChequeDue: more than a billing interval has to be unpaid.
ChequeDue_Late(r) ==
  ComputePrice(used) > r.deposit \/ Quotient(Lag(r.receipt), Interval) > 1

\* A cheque is due if the price is above the deposit, or if the units not paid
\* fill a billing interval.
ChequeDue(r) ==
  ComputePrice(used) > r.deposit \/ Quotient(Lag(r.receipt), Interval) >= 1

\* A goroutine posts the cheque, or there is none to post.
processPost ==
  /\ mon # NoRow
  /\ ~DepositSpent
  /\ IF ChequeDue(mon)
     THEN \E p \in Posts :
            /\ post[p] = NoPost
            /\ post' = [post EXCEPT ![p] = [pc |-> "sent", amount |-> Cheque(mon), waiting |-> TRUE]]
     ELSE UNCHANGED post
  /\ mon' = NoRow
  /\ UNCHANGED <<db, chain, txs, used, hist>>

-----------------------------------------------------------------------------
(* The agent's payment server.                                             *)

Reply(p, pc) == post' = [post EXCEPT ![p].pc = pc]

\* handlePay up to its update, with the row findChannel has read.
handlePay(p) ==
  /\ post[p].pc = "sent"
  /\ Reply(p, IF row["agent"].svc = "terminated" THEN "terminated"
              ELSE IF ~row["agent"].open \/ row["agent"].receipt = post[p].amount THEN "refused"
              ELSE "update")
  /\ UNCHANGED <<db, mon, chain, txs, used, hist>>

\* Mutant of Acceptable: a smaller amount than the stored one is taken.
Acceptable_Older(r, amount) == r.deposit >= amount

\* WHERE receipt_balance<$1 AND total_deposit>=$1
Acceptable(r, amount) == r.receipt < amount /\ r.deposit >= amount

\* A query of the payment server fails.  The answer has the code of a signature
\* that does not match, 3, which is also that of a terminated service.
errUnexpected(p) ==
  /\ Fault
  /\ post[p].pc \in {"sent", "update"}
  /\ Reply(p, "terminated")
  /\ UNCHANGED <<db, mon, chain, txs, used, lost, twice>>

\* One statement stores balance and signature; the channel's status is not
\* looked at again.
updateChannelWithPayment(p) ==
  /\ post[p].pc = "update"
  /\ IF Acceptable(row["agent"], post[p].amount)
     THEN /\ row' = [row EXCEPT !["agent"].receipt = post[p].amount,
                                !["agent"].sig = post[p].amount]
          /\ Reply(p, "ok")
     ELSE /\ UNCHANGED row
          /\ Reply(p, "refused")
  /\ UNCHANGED <<job, run, mon, chain, txs, used, hist>>

-----------------------------------------------------------------------------
(* The answer reaches the client.                                          *)

\* UPDATE channels SET receipt_balance = $1 WHERE receipt_balance < $1
saveReceipt(amount) ==
  row' = IF row["client"].receipt < amount
         THEN [row EXCEPT !["client"].receipt = amount] ELSE row

\* Mutant of postCheque: nothing is done about a terminated service.
postCheque_OnlySave(p) ==
  /\ post[p].pc \in {"ok", "refused", "terminated"}
  /\ post' = [post EXCEPT ![p] = NoPost]
  /\ IF post[p].waiting /\ post[p].pc = "ok"
     THEN saveReceipt(post[p].amount) ELSE UNCHANGED row
  /\ UNCHANGED <<job, run, mon, chain, txs, used, hist>>

\* An accepted cheque is saved; an answer with the code of a terminated service
\* terminates the client's; any other answer is only logged.
postCheque(p) ==
  /\ post[p].pc \in {"ok", "refused", "terminated"}
  /\ post' = [post EXCEPT ![p] = NoPost]
  /\ IF post[p].waiting /\ post[p].pc = "ok"
     THEN saveReceipt(post[p].amount) ELSE UNCHANGED row
  /\ IF post[p].waiting /\ post[p].pc = "terminated" /\ CanTerminate("client")
     THEN Terminated("client") ELSE UNCHANGED <<job, run>>
  /\ UNCHANGED <<mon, chain, txs, used, hist>>

\* The connection breaks: the request is lost, or only the answer to it.
LoseMessage(p) ==
  /\ Fault
  /\ post[p].waiting
  /\ \/ /\ post[p].pc = "sent"
        /\ post' = [post EXCEPT ![p] = NoPost]
     \/ post' = [post EXCEPT ![p].waiting = FALSE]
  /\ UNCHANGED <<db, mon, chain, txs, used, lost, twice>>

-----------------------------------------------------------------------------
\* The channel has just been created and its service made available.
Init ==
  /\ row = [s \in Sides |-> [deposit |-> Deposit, receipt |-> 0, sig |-> 0,
                             open |-> TRUE, svc |-> "serving"]]
  /\ job = [s \in Sides |-> [k \in Queued |-> 0]]
  /\ run = [s \in Sides |-> NoRun]
  /\ mon = NoRow
  /\ post = [p \in Posts |-> NoPost]
  /\ chain = [deposit |-> Deposit, closed |-> FALSE, paid |-> 0]
  /\ txs = {}
  /\ used = 0
  /\ lost = FALSE
  /\ twice = [s \in Sides |-> FALSE]
  /\ count = [topups |-> 0, status |-> 0, faults |-> 0]

Monitor == Select \/ processTerminate \/ processPost

Handler(s) == Finish(s) \/ \E k \in Kinds : Start(s, k)

Cheques(p) == handlePay(p) \/ updateChannelWithPayment(p) \/ postCheque(p)

Next ==
  \/ Consume \/ TopUp \/ VerifyUnitsBasedChannels \/ Monitor
  \/ \E t \in txs : CooperativeClose(t)
  \/ \E s \in Sides :
       \/ TerminateByOther(s) \/ StopSession(s) \/ Handler(s) \/ FinishFails(s) \/ Crash(s)
  \/ \E p \in Posts : Cheques(p) \/ LoseMessage(p) \/ errUnexpected(p)

Spec == Init /\ [][Next]_vars

(***************************************************************************)
(* Both monitors make their rounds, requests are served and answered, jobs *)
(* are run, events are seen, transactions are mined, and an adapter told   *)
(* to stop a session stops it.  A terminating job is not passed over for   *)
(* ever: a job that keeps failing reaches its limit of tries.  Nobody has  *)
(* to use the service, top up, change the status or terminate.             *)
(***************************************************************************)
Fairness ==
  /\ WF_vars(Monitor)
  /\ WF_vars(VerifyUnitsBasedChannels)
  /\ WF_vars(\E t \in txs : CooperativeClose(t))
  /\ \A p \in Posts : WF_vars(Cheques(p))
  /\ \A s \in Sides : WF_vars(Handler(s)) /\ SF_vars(Start(s, "terminate"))

FairSpec == Spec /\ Fairness

-----------------------------------------------------------------------------
(* Properties.                                                             *)

\* The type invariant.
TypeOK ==
  /\ row \in [Sides -> Row]
  /\ job \in [Sides -> [Queued -> Nat]]
  /\ run \in [Sides -> Run]
  /\ mon \in Row
  /\ post \in [Posts -> Post]
  /\ chain \in [deposit : Nat, closed : BOOLEAN, paid : Nat]
  /\ txs \subseteq Tx
  /\ used \in Nat
  /\ lost \in BOOLEAN
  /\ twice \in [Sides -> BOOLEAN]
  /\ count \in [topups : Nat, status : Nat, faults : Nat]

\* A receipt the agent can cash: its signature is for its amount, and unless
\* both sides have counted a top-up twice, the contract holds the deposit.
Cashable(r) ==
  /\ r.sig = r.receipt
  /\ ~(twice["client"] /\ twice["agent"]) => r.receipt <= chain.deposit

\* Whatever cheques are in flight and whichever stale row a handler writes
\* back, the agent holds a receipt the contract accepts, and so does every
\* closing it sends: none is ever refused for its balance or its signature.
ReceiptCashable ==
  /\ Cashable(row["agent"])
  /\ \A t \in txs : Cashable([receipt |-> t.amount, sig |-> t.sig])

\* Top-ups a side still has to add to its row.
Pending(s) == job[s]["topup"] + (IF run[s].kind = "topup" THEN 1 ELSE 0)

\* An amount the contract covers, as far as side s has counted no top-up twice.
Covered(s, n) == twice[s] \/ n <= chain.deposit

\* No side knows of more than the contract holds, and the row a handler has read
\* has the deposit it will write back.
DepositsKnown ==
  \A s \in Sides :
    /\ Covered(s, row[s].deposit + Pending(s) * Added)
    /\ run[s].kind # "none" => run[s].row.deposit = row[s].deposit

\* A receipt of the agent, in the row or read by a handler: signed, within the
\* deposit the agent knows, and within what the client could pay.
GoodReceipt(r) ==
  r.sig = r.receipt /\ r.receipt <= r.deposit /\ Covered("client", r.receipt)

GoodReceipts ==
  /\ GoodReceipt(row["agent"])
  /\ GoodReceipt(run["agent"].row)
  /\ \A t \in txs : /\ t.sig = t.amount
                     /\ \A s \in Sides : Covered(s, t.amount)

\* The client signs cheques within the deposit it knows.
GoodCheques ==
  /\ Covered("client", mon.deposit)
  /\ \A p \in Posts : Covered("client", post[p].amount)

\* The inductive invariant behind ReceiptCashable: an accepted cheque was within
\* the client's deposit when it was signed and is within the agent's, and neither
\* side's deposit, its pending top-ups included, is ahead of the contract's.
IInv == TypeOK /\ DepositsKnown /\ GoodReceipts /\ GoodCheques

\* As long as no handler of the agent has written an older receipt back, what
\* the client takes for paid has been received: cheques of several rounds,
\* answered in any order, lost or repeated, never run ahead of the agent.
PaidIsReceived == ~lost => row["client"].receipt <= row["agent"].receipt

\* What makes PaidIsReceived inductive: the same holds of the row a handler of
\* the client has read, and of the amounts the agent has just acknowledged.
PaidInv ==
  ~lost => /\ row["client"].receipt <= row["agent"].receipt
           /\ run["client"].row.receipt <= row["agent"].receipt
           /\ \A p \in Posts : post[p].pc = "ok" => post[p].amount <= row["agent"].receipt

Ended == chain.closed \/ \E s \in Sides : row[s].svc # "serving" \/ HasTerminate(s)

Owing == /\ Lag(row["agent"].receipt) >= Interval
         /\ row["agent"].receipt < row["agent"].deposit

\* A client that owes a billing interval pays it, although requests and
\* answers get lost, either side is restarted, and a handler may write an older
\* receipt over the client's, until the service ends.
OwingIsPaid == Owing ~> ~Owing \/ Ended \/ lost

\* Once the price has reached the deposit both sides know of, both terminate
\* the service, even if the answer to the last cheque, by which the client
\* would see that its deposit is spent, is lost.
Spent == \A s \in Sides : ComputePrice(used) >= row[s].deposit

SpentEnds == Spent ~> ~Spent \/ \A s \in Sides : row[s].svc # "serving"

\* "receipt_balance ... last payment amount received": a receipt the agent has
\* acknowledged is not replaced by an older one.
ReceiptKept == [][row'["agent"].receipt >= row["agent"].receipt]_vars
=============================================================================

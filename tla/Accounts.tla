------------------------------ MODULE Accounts ------------------------------
(***************************************************************************)
(* One Ethereum account of the program: the user moves its tokens between  *)
(* the token contract (PTC) and the service contract (PSC), and a row of   *)
(* the database caches both balances (ui/account.go,                       *)
(* proc/worker/account.go).  The balance in the PSC also pays for top-ups  *)
(* of a channel, by the user (ui/channel.go) and by the client's monitor   *)
(* (client/bill/monitor.go).                                               *)
(*                                                                         *)
(* To add to the PSC the program first lets the PSC take the tokens (the   *)
(* allowance) and, when it hears of that from the blockchain monitor, has  *)
(* it take them.  These jobs are related to the account, so one handler    *)
(* runs at a time (JobQueue, MutualExclusion); the contracts, the user     *)
(* interface and the jobs of the channel go on in between.                 *)
(***************************************************************************)
EXTENDS Integers, Sequences, FiniteSets

CONSTANTS
  Amounts,      \* amounts a user may ask for
  Funds,        \* the balances the account may have from the beginning
  Deposit,      \* first deposit of the channel
  Rate,         \* auto increase rate, in percent of the deposit
  TryLimit,     \* TryLimit of the jobs
  Slots,        \* bound: jobs of one kind and request at once
  MaxRequests,  \* bound: transfers asked for
  MaxTopUps,    \* bound: top-ups asked for
  MaxUsed,      \* bound: price of what the client has used
  MaxReceived,  \* bound: payments of others to the account
  MaxUpdates,   \* bound: balances and edits asked for
  MaxFaults,    \* bound: failed handlers and crashes
  MaxLoad       \* bound: all of these together

Requests == 1 .. MaxRequests
Contracts == {"psc", "ptc"}
Asked    == [to : Contracts \cup {"none"}, amount : Nat]
Sending  == {"approve", "add", "return"}
\* A job is known by its kind, its request and a slot; "refresh" jobs of slot 0
\* are those without an event (accountUpdateBalances).
Ids      == ((Sending \cup {"after"}) \X Requests \X Slots) \cup ({"refresh"} \X {0} \X ({0} \cup Slots))
Idle     == <<"idle", 0, 0>>
\* req is the request whose job the transaction is recorded for, 0 without a record.
Tx       == [kind : Sending \cup {"topup"}, amount : Nat, req : {0} \cup Requests]
Event    == [kind : {"approval", "transfer", "toppedup"}, req : {0} \cup Requests, amount : Nat]
Row      == [made : BOOLEAN, ptc : Nat, psc : Nat, inUse : BOOLEAN]
NoRow    == [made |-> FALSE, ptc |-> 0, psc |-> 0, inUse |-> TRUE]
Balances == [ptc : Nat, psc : Nat, allow : Nat]

ASSUME AccountsAssumption ==
  /\ Amounts \subseteq Nat \ {0} /\ Funds \subseteq Balances
  /\ Deposit \in Nat \ {0} /\ Rate \in 0 .. 100
  /\ TryLimit \in Nat \ {0, 1} /\ MaxRequests \in Nat

\* The row of the channel: its deposit, the price of what was used; of its last
\* job to top up the tries left, the amount, whether there was one and whether
\* the job of its event is done.
Channel  == [dep : Nat, used : Nat, pre : 0 .. TryLimit, amount : Nat, asked : BOOLEAN, done : BOOLEAN]
\* A job of a top-up event, and whether it is newer than the last job to top up.
After    == [amount : Nat, tries : 0 .. TryLimit, fresh : BOOLEAN]
NoAfter  == [amount |-> 0, tries |-> 0, fresh |-> FALSE]

VARIABLES
  chain,  \* the balances of the account and the allowance of the PSC
  pool,   \* transactions sent and not mined, in the order of their nonces
  news,   \* events the monitor has not seen
  row,    \* the row of the account
  asked,  \* [Requests -> Asked], the transfers asked for
  job,    \* [Ids -> Nat], tries left of an active job, 0 for any other
  hand,   \* the running handler: its job, the row and the balances it has read,
          \* and whether it has read the second balance
  ch,     \* the channel
  after,  \* [Slots -> After], the jobs of top-up events
  ui,     \* the edit of a user: whether it has begun, and its row
  moved,  \* history: tokens the contracts have moved to the PSC and back
  want,   \* history: tokens asked to be moved to each of the contracts
  extra,  \* history: tokens of transactions sent again for a request; of
          \* approvals, the allowance of the beginning as well
  byUser, \* history: the user has topped the channel up
  tried,  \* history: the requests that have sent one of each kind
  harm,   \* history: a row overwritten, an event not looked for, a job given up
  count   \* how often bounded things have happened

history == <<moved, want, extra, tried, byUser>>
channel == <<ch, after>>
vars == <<chain, pool, news, row, asked, job, hand, channel, ui, history, harm, count>>

NoHand == [id |-> Idle, row |-> NoRow, seen |-> [ptc |-> 0, psc |-> 0, allow |-> 0], both |-> FALSE]
NoUi   == [open |-> FALSE, row |-> NoRow]

Load == count.requests + count.topups + count.used + count.received + count.updates + count.faults

\* One more of a bounded thing, within its own bound and the joint one.
Bounded(k, max) ==
  /\ count[k] < max /\ Load < MaxLoad
  /\ count' = [count EXCEPT ![k] = @ + 1]

-----------------------------------------------------------------------------
(* The contracts.                                                          *)

\* The next transaction is mined.  One that the contracts refuse does nothing.
Mine ==
  LET t == pool[1] a == t.amount IN
  /\ pool # <<>> /\ pool' = Tail(pool)
  /\ \/ /\ t.kind = "approve"
        /\ chain' = [chain EXCEPT !.allow = @ + a]
        /\ news' = Append(news, [kind |-> "approval", req |-> t.req, amount |-> 0])
        /\ UNCHANGED moved
     \/ /\ t.kind = "add" /\ chain.ptc >= a /\ chain.allow >= a
        /\ chain' = [ptc |-> chain.ptc - a, psc |-> chain.psc + a, allow |-> chain.allow - a]
        /\ news' = Append(news, [kind |-> "transfer", req |-> 0, amount |-> 0])
        /\ moved' = [moved EXCEPT !.psc = @ + a]
     \/ /\ t.kind = "return" /\ chain.psc >= a
        /\ chain' = [chain EXCEPT !.ptc = @ + a, !.psc = @ - a]
        /\ news' = Append(news, [kind |-> "transfer", req |-> 0, amount |-> 0])
        /\ moved' = [moved EXCEPT !.ptc = @ + a]
     \/ /\ t.kind = "topup" /\ chain.psc >= a
        /\ chain' = [chain EXCEPT !.psc = @ - a]
        /\ news' = Append(news, [kind |-> "toppedup", req |-> 0, amount |-> a])
        /\ UNCHANGED moved
     \/ /\ t.kind = "add" => chain.ptc < a \/ chain.allow < a
        /\ t.kind \in {"return", "topup"} => chain.psc < a
        /\ t.kind # "approve"
        /\ UNCHANGED <<chain, news, moved>>
  /\ UNCHANGED <<row, asked, job, hand, channel, ui, want, extra, tried, byUser, harm, count>>

\* Somebody else pays the account.
Receive(a) ==
  /\ Bounded("received", MaxReceived)
  /\ chain' = [chain EXCEPT !.ptc = @ + a]
  /\ news' = Append(news, [kind |-> "transfer", req |-> 0, amount |-> 0])
  /\ UNCHANGED <<pool, row, asked, job, hand, channel, ui, history, harm>>

-----------------------------------------------------------------------------
(* The user interface.                                                     *)

\* A slot for a job of this kind and request, the lowest that is free.
Slot(kind, req, s) ==
  /\ job[<<kind, req, s>>] = 0
  /\ \A t \in Slots : t < s => job[<<kind, req, t>>] # 0

Add(kind, req, s) ==
  /\ Slot(kind, req, s)
  /\ job' = [job EXCEPT ![<<kind, req, s>>] = TryLimit]

\* A new key has no tokens yet and nobody knows of it; an imported one may have,
\* and its balances are asked for.
GenerateAccount ==
  /\ ~row.made /\ chain.ptc = 0 /\ chain.psc = 0 /\ news = <<>>
  /\ row' = [NoRow EXCEPT !.made = TRUE]
  /\ UNCHANGED <<chain, pool, news, asked, job, hand, channel, ui, history, harm, count>>

ImportAccount ==
  /\ ~row.made
  /\ row' = [NoRow EXCEPT !.made = TRUE]
  /\ job' = [job EXCEPT ![<<"refresh", 0, 0>>] = TryLimit]
  /\ UNCHANGED <<chain, pool, news, asked, hand, channel, ui, history, harm, count>>

\* A transfer to the PSC begins with the approval, one back is a single job.
TransferTokens(r, to, a) ==
  /\ row.made
  /\ r = count.requests + 1 /\ Bounded("requests", MaxRequests)
  /\ asked' = [asked EXCEPT ![r] = [to |-> to, amount |-> a]]
  /\ want' = [want EXCEPT ![to] = @ + a]
  /\ \E s \in Slots : Add(IF to = "psc" THEN "approve" ELSE "return", r, s)
  /\ UNCHANGED <<chain, pool, news, row, hand, channel, ui, moved, extra, tried, byUser, harm>>

\* A second job of this type is refused while one is active.
UpdateBalance ==
  /\ row.made /\ job[<<"refresh", 0, 0>>] = 0
  /\ Bounded("updates", MaxUpdates)
  /\ job' = [job EXCEPT ![<<"refresh", 0, 0>>] = TryLimit]
  /\ UNCHANGED <<chain, pool, news, row, asked, hand, channel, ui, history, harm>>

\* UpdateAccount reads the row ...
UpdateAccountRead ==
  /\ row.made /\ ~ui.open
  /\ Bounded("updates", MaxUpdates)
  /\ \E b \in BOOLEAN : ui' = [open |-> TRUE, row |-> [row EXCEPT !.inUse = b]]
  /\ UNCHANGED <<chain, pool, news, row, asked, job, hand, channel, history, harm>>

\* ... and writes all of its columns back.
UpdateAccount ==
  /\ ui.open
  /\ row' = ui.row
  /\ harm' = (harm \/ ui.row # [row EXCEPT !.inUse = ui.row.inUse])
  /\ ui' = NoUi
  /\ UNCHANGED <<chain, pool, news, asked, job, hand, channel, history, count>>

-----------------------------------------------------------------------------
(* The blockchain monitor.                                                 *)

\* Mutant of AddRefresh: no job while another one is active.
AddRefresh_NoDuplicates ==
  IF \E s \in {0} \cup Slots : job[<<"refresh", 0, s>>] > 0 THEN UNCHANGED job
  ELSE \E s \in Slots : Add("refresh", 0, s)

\* Each transfer gets a job of its own.
AddRefresh == \E s \in Slots : Add("refresh", 0, s)

AddAfterTopUp(a) ==
  \E s \in Slots :
    /\ after[s].tries = 0 /\ \A t \in Slots : t < s => after[t].tries # 0
    /\ after' = [after EXCEPT ![s] = [amount |-> a, tries |-> TryLimit, fresh |-> TRUE]]

\* The monitor looks for events of accounts in use only.
getAddressesInUse == row.made /\ row.inUse

\* The next event becomes a job, unless there is no such account yet.  Without a
\* record of the transaction the job of an approval fails until it is given up,
\* and is left out.  The events of an account that is not in use are not looked
\* for: they are lost when other accounts are in use, and wait when none is.
TakeEvent ==
  /\ news # <<>> /\ news' = Tail(news)
  /\ IF getAddressesInUse
     THEN /\ UNCHANGED harm
          /\ \/ news[1].kind = "transfer" /\ AddRefresh
             \/ news[1].kind = "approval" /\ news[1].req # 0
                  /\ \E s \in Slots : Add("after", news[1].req, s)
             \/ news[1].kind = "approval" /\ news[1].req = 0 /\ UNCHANGED job
             \/ news[1].kind = "toppedup" /\ UNCHANGED job
          /\ IF news[1].kind = "toppedup" THEN AddAfterTopUp(news[1].amount) ELSE UNCHANGED after
     ELSE harm' = (harm \/ row.made) /\ UNCHANGED <<job, after>>
  /\ UNCHANGED <<chain, pool, row, asked, hand, ch, ui, history, count>>

-----------------------------------------------------------------------------
(* Handlers.                                                               *)

\* What a handler reads first; only a refresh needs the columns of the row.
Start(x) ==
  LET reads(kinds, n) == IF x[1] \in kinds THEN n ELSE 0 IN
  /\ hand.id = Idle /\ job[x] > 0
  /\ hand' = [id |-> x, row |-> IF x[1] = "refresh" THEN row ELSE NoRow, both |-> FALSE,
              seen |-> [allow |-> reads({"approve"}, chain.allow),
                        ptc |-> reads({"approve", "add", "refresh"}, chain.ptc),
                        psc |-> reads({"return"}, chain.psc)]]
  /\ UNCHANGED <<chain, pool, news, row, asked, job, channel, ui, history, harm, count>>

Amount == asked[hand.id[2]].amount

\* The handler is done; or the program dies before that is saved.
Finish(next) ==
  /\ hand' = NoHand
  /\ \/ job' = [next EXCEPT ![hand.id] = 0] /\ UNCHANGED count
     \/ job' = next /\ Bounded("faults", MaxFaults)

\* The handler returns an error; the job is given up after some tries.
Retry ==
  /\ hand' = NoHand
  /\ job' = [job EXCEPT ![hand.id] = @ - 1]
  /\ harm' = (harm \/ (job[hand.id] = 1 /\ hand.id[1] = "refresh"))

Refused == Retry /\ UNCHANGED <<pool, extra, tried, count>>

\* A transaction for the request of the job, recorded for it or not.
Send(kind, a, recorded) ==
  LET r == hand.id[2] IN
  /\ pool' = Append(pool, [kind |-> kind, amount |-> a, req |-> IF recorded THEN r ELSE 0])
  /\ tried' = tried \cup {<<kind, r>>}
  /\ extra' = IF <<kind, r>> \in tried THEN [extra EXCEPT ![kind] = @ + a] ELSE extra

\* With tokens enough for the missing part of the allowance.
MayApprove == hand.seen.allow < Amount /\ hand.seen.ptc >= Amount - hand.seen.allow

\* Mutant of PreAccountAddBalanceApprove: an allowance that is large enough is
\* raised as well.
PreAccountAddBalanceApprove_NoSkip ==
  /\ hand.id[1] = "approve"
  /\ IF hand.seen.ptc >= Amount - hand.seen.allow
     THEN Send("approve", Amount - hand.seen.allow, TRUE) /\ Finish(job) /\ UNCHANGED harm
     ELSE Refused
  /\ UNCHANGED <<chain, news, row, asked, channel, ui, moved, want, byUser>>

\* Mutant of PreAccountAddBalanceApprove: all tokens are approved.
PreAccountAddBalanceApprove_All ==
  /\ hand.id[1] = "approve"
  /\ \/ /\ hand.seen.allow >= Amount
        /\ \E s \in Slots : Slot("add", hand.id[2], s)
             /\ Finish([job EXCEPT ![<<"add", hand.id[2], s>>] = TryLimit])
        /\ UNCHANGED <<pool, extra, tried, harm>>
     \/ MayApprove /\ Send("approve", hand.seen.ptc, TRUE) /\ Finish(job) /\ UNCHANGED harm
     \/ hand.seen.allow < Amount /\ ~MayApprove /\ Refused
  /\ UNCHANGED <<chain, news, row, asked, channel, ui, moved, want, byUser>>

\* The allowance left from before may be enough: then the tokens are taken at once.
PreAccountAddBalanceApprove ==
  /\ hand.id[1] = "approve"
  /\ \/ /\ hand.seen.allow >= Amount
        /\ \E s \in Slots : Slot("add", hand.id[2], s)
             /\ Finish([job EXCEPT ![<<"add", hand.id[2], s>>] = TryLimit])
        /\ UNCHANGED <<pool, extra, tried, harm>>
     \/ MayApprove /\ Send("approve", Amount - hand.seen.allow, TRUE) /\ Finish(job) /\ UNCHANGED harm
     \/ hand.seen.allow < Amount /\ ~MayApprove /\ Refused
  /\ UNCHANGED <<chain, news, row, asked, channel, ui, moved, want, byUser>>

\* The amount is that of the job the approval is recorded for.
AfterAccountAddBalanceApprove ==
  /\ hand.id[1] = "after"
  /\ \E s \in Slots : Slot("add", hand.id[2], s)
       /\ Finish([job EXCEPT ![<<"add", hand.id[2], s>>] = TryLimit])
  /\ UNCHANGED <<chain, pool, news, row, asked, channel, ui, history, harm>>

\* Mutant of PreAccountAddBalance: one token has to be left.
PreAccountAddBalance_Strict ==
  /\ hand.id[1] = "add"
  /\ IF hand.seen.ptc > Amount THEN Send("add", Amount, TRUE) /\ Finish(job) /\ UNCHANGED harm
     ELSE Refused
  /\ UNCHANGED <<chain, news, row, asked, channel, ui, moved, want, byUser>>

PreAccountAddBalance ==
  /\ hand.id[1] = "add"
  /\ IF hand.seen.ptc >= Amount THEN Send("add", Amount, TRUE) /\ Finish(job) /\ UNCHANGED harm
     ELSE Refused
  /\ UNCHANGED <<chain, news, row, asked, channel, ui, moved, want, byUser>>

PreAccountReturnBalance ==
  /\ hand.id[1] = "return"
  /\ IF hand.seen.psc >= Amount THEN Send("return", Amount, TRUE) /\ Finish(job) /\ UNCHANGED harm
     ELSE Refused
  /\ UNCHANGED <<chain, news, row, asked, channel, ui, moved, want, byUser>>

\* The balance in the PSC is read after the one in the PTC ...
ReadPSCBalance ==
  /\ hand.id[1] = "refresh" /\ ~hand.both
  /\ hand' = [hand EXCEPT !.both = TRUE, !.seen.psc = chain.psc]
  /\ UNCHANGED <<chain, pool, news, row, asked, job, channel, ui, history, harm, count>>

\* ... and the whole row is saved.
updateBalances ==
  /\ hand.id[1] = "refresh" /\ hand.both
  /\ row' = [hand.row EXCEPT !.ptc = hand.seen.ptc, !.psc = hand.seen.psc]
  /\ harm' = (harm \/ row # hand.row)
  /\ Finish(job)
  /\ UNCHANGED <<chain, pool, news, asked, channel, ui, history>>

-----------------------------------------------------------------------------
(* Top-ups of the channel.  What its handlers do with the row of the       *)
(* channel while others write it is in Payment; here each is one step.     *)

Consume ==
  /\ row.made /\ Bounded("used", MaxUsed)
  /\ ch' = [ch EXCEPT !.used = @ + 1]
  /\ UNCHANGED <<chain, pool, news, row, asked, job, hand, after, ui, history, harm>>

\* A job to top the channel up, refused while one is active.
AddTopUp(a) ==
  /\ row.made /\ ch.pre = 0
  /\ Bounded("topups", MaxTopUps)
  /\ ch' = [ch EXCEPT !.pre = TryLimit, !.amount = a, !.asked = TRUE, !.done = FALSE]
  /\ after' = [s \in Slots |-> [after[s] EXCEPT !.fresh = FALSE]]

TopUpChannel(a) ==
  /\ AddTopUp(a)
  /\ byUser' = TRUE
  /\ UNCHANGED <<chain, pool, news, row, asked, job, hand, ui, moved, want, extra, tried, harm>>

\* Mutant of notMinedChannelTopUpExists: only an active job counts.
notMinedChannelTopUpExists_Active == ch.pre > 0

\* Since the last job to top up there has been no job of a top-up event that is
\* active or done.
notMinedChannelTopUpExists ==
  ch.asked /\ ~ch.done /\ \A s \in Slots : ~(after[s].fresh /\ after[s].tries > 0)

\* The deposit is to be doubled when a share of it is used; beyond the deposit
\* only a cheque is posted.
checkAndCreateAutoIncreaseJob ==
  /\ ch.used <= ch.dep /\ ch.used >= (ch.dep * Rate) \div 100
  /\ ~notMinedChannelTopUpExists
  /\ AddTopUp(ch.dep)
  /\ UNCHANGED <<chain, pool, news, row, asked, job, hand, ui, history, harm>>

checkDeposit == chain.psc >= ch.amount

\* The transaction is sent if the balance in the PSC covers it; recorded or not,
\* the job done, failed, or not saved.
ClientPreChannelTopUp ==
  /\ ch.pre > 0
  /\ \/ /\ checkDeposit
        /\ pool' = Append(pool, [kind |-> "topup", amount |-> ch.amount, req |-> 0])
        /\ \/ ch' = [ch EXCEPT !.pre = 0] /\ UNCHANGED count
           \/ ch' \in {ch, [ch EXCEPT !.pre = @ - 1]} /\ Bounded("faults", MaxFaults)
     \/ /\ ~checkDeposit
        /\ ch' = [ch EXCEPT !.pre = @ - 1]
        /\ UNCHANGED <<pool, count>>
  /\ UNCHANGED <<chain, news, row, asked, job, hand, after, ui, history, harm>>

\* The deposit is added; then the balances are to be updated, which is refused
\* while such a job is active: the handler runs again, and adds it again.
ClientAfterChannelTopUp(s) ==
  LET j     == after[s]
      added == [ch EXCEPT !.dep = @ + j.amount]
  IN
  /\ j.tries > 0
  /\ \/ /\ job[<<"refresh", 0, 0>>] = 0
        /\ job' = [job EXCEPT ![<<"refresh", 0, 0>>] = TryLimit]
        /\ \/ /\ after' = [after EXCEPT ![s] = NoAfter]
              /\ ch' = [added EXCEPT !.done = @ \/ j.fresh]
              /\ UNCHANGED count
           \/ ch' = added /\ UNCHANGED after /\ Bounded("faults", MaxFaults)
        /\ UNCHANGED harm
     \/ /\ job[<<"refresh", 0, 0>>] > 0
        /\ ch' = added
        /\ after' = [after EXCEPT ![s] = IF j.tries = 1 THEN NoAfter ELSE [j EXCEPT !.tries = @ - 1]]
        /\ harm' = (harm \/ j.tries = 1)
        /\ UNCHANGED <<job, count>>
  /\ UNCHANGED <<chain, pool, news, row, asked, hand, ui, history>>

-----------------------------------------------------------------------------
(* Faults.                                                                 *)

\* A handler fails before it has done anything, or cannot record what it sent.
HandlerFails ==
  /\ hand.id # Idle
  /\ Bounded("faults", MaxFaults)
  /\ \/ UNCHANGED <<pool, extra, tried>>
     \/ hand.id[1] = "approve" /\ MayApprove /\ Send("approve", Amount - hand.seen.allow, FALSE)
     \/ hand.id[1] = "add" /\ hand.seen.ptc >= Amount /\ Send("add", Amount, FALSE)
     \/ hand.id[1] = "return" /\ hand.seen.psc >= Amount /\ Send("return", Amount, FALSE)
  /\ Retry
  /\ UNCHANGED <<chain, news, row, asked, channel, ui, moved, want, byUser>>

\* The program dies; its active jobs run again.
Crash ==
  /\ hand.id # Idle \/ ui.open
  /\ Bounded("faults", MaxFaults)
  /\ hand' = NoHand /\ ui' = NoUi
  /\ UNCHANGED <<chain, pool, news, row, asked, job, channel, history, harm>>

-----------------------------------------------------------------------------
Init ==
  /\ chain \in Funds
  /\ pool = <<>> /\ news = <<>>
  /\ row = NoRow
  /\ asked = [r \in Requests |-> [to |-> "none", amount |-> 0]]
  /\ job = [x \in Ids |-> 0]
  /\ hand = NoHand /\ ui = NoUi
  /\ ch = [dep |-> Deposit, used |-> 0, pre |-> 0, amount |-> 0, asked |-> FALSE, done |-> FALSE]
  /\ after = [s \in Slots |-> NoAfter]
  /\ byUser = FALSE
  /\ moved = [c \in Contracts |-> 0] /\ want = [c \in Contracts |-> 0]
  /\ extra = [k \in Sending |-> IF k = "approve" THEN chain.allow ELSE 0] /\ tried = {}
  /\ harm = FALSE
  /\ count = [requests |-> 0, used |-> 0, topups |-> 0, received |-> 0, updates |-> 0, faults |-> 0]

Work ==
  \/ \E x \in Ids : Start(x)
  \/ PreAccountAddBalanceApprove \/ AfterAccountAddBalanceApprove
  \/ PreAccountAddBalance \/ PreAccountReturnBalance
  \/ ReadPSCBalance \/ updateBalances
  \/ UpdateAccount
  \/ ClientPreChannelTopUp \/ \E s \in Slots : ClientAfterChannelTopUp(s)

User ==
  \/ GenerateAccount \/ ImportAccount
  \/ \E r \in Requests, to \in Contracts, a \in Amounts : TransferTokens(r, to, a)
  \/ UpdateBalance \/ UpdateAccountRead
  \/ Consume \/ \E a \in Amounts : TopUpChannel(a)

Next ==
  \/ Work \/ Mine \/ TakeEvent
  \/ User \/ \E a \in Amounts : Receive(a)
  \/ checkAndCreateAutoIncreaseJob
  \/ HandlerFails \/ Crash

Spec == Init /\ [][Next]_vars

\* Workers run, transactions are mined and rounds of the monitor go on.
FairSpec == Spec /\ WF_vars(Work \/ Mine \/ TakeEvent)

-----------------------------------------------------------------------------
(* Properties.                                                             *)

\* The type invariant; no amount is negative (in the code it would wrap around).
TypeOK ==
  /\ chain \in Balances
  /\ pool \in Seq(Tx) /\ news \in Seq(Event)
  /\ row \in Row
  /\ asked \in [Requests -> Asked]
  /\ job \in [Ids -> 0 .. TryLimit]
  /\ hand \in [id : Ids \cup {Idle}, row : Row, seen : Balances, both : BOOLEAN]
  /\ ch \in Channel /\ after \in [Slots -> After] /\ byUser \in BOOLEAN
  /\ ui \in [open : BOOLEAN, row : Row]
  /\ moved \in [Contracts -> Nat] /\ want \in [Contracts -> Nat] /\ extra \in [Sending -> Nat]
  /\ tried \subseteq Sending \X Requests
  /\ harm \in BOOLEAN
  /\ count \in [{"requests", "used", "topups", "received", "updates", "faults"} -> Nat]

\* No more is moved than was asked for, whatever fails and is run again, but for
\* what was sent again and the allowance of the beginning.  To add too much it
\* takes both, allowance for it and a transfer sent again, since the allowance
\* bounds what repeated transfers take.  A repeated return has no such bound.
NoMoreThanAsked ==
  /\ moved.psc <= want.psc + extra["approve"]
  /\ moved.psc <= want.psc + extra["add"]
  /\ moved.ptc <= want.ptc + extra["return"]

Settled ==
  /\ pool = <<>> /\ news = <<>> /\ hand.id = Idle /\ ~ui.open
  /\ \A x \in Ids : job[x] = 0
  /\ ch.pre = 0 /\ \A s \in Slots : after[s].tries = 0

\* Transfers may be mined between the reads of a refresh: still, once nothing is
\* left to do, the cached balances are those of the contracts, unless a row was
\* overwritten, the account taken out of use or a refresh given up.
CacheSettles ==
  row.made /\ Settled /\ ~harm => row.ptc = chain.ptc /\ row.psc = chain.psc

UnderWay ==
  Cardinality({i \in DOMAIN pool : pool[i].kind = "topup"})
    + Cardinality({i \in DOMAIN news : news[i].kind = "toppedup"})
    + (IF ch.pre > 0 THEN 1 ELSE 0)

\* The monitor looks at the jobs of a channel only: still, of the top-ups it asks
\* for no two are under way, from the job to the event, unless the user tops up
\* as well or a job is run twice.
OneTopUpUnderWay == ~byUser /\ count.faults = 0 => UnderWay <= 1

\* The only request, to the PSC, not yet tried and covered by the tokens of the
\* account, is carried out, through two transactions and the event between them.
AddGoesThrough ==
  (asked[1].amount <= chain.ptc /\ \E s \in Slots : job[<<"approve", 1, s>>] = TryLimit)
  ~> (moved.psc >= asked[1].amount \/ count.requests > 1 \/ count.faults > 0 \/ harm)
=============================================================================

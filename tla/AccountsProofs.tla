--------------------------- MODULE AccountsProofs ---------------------------
(***************************************************************************)
(* Proofs about Accounts, for every set of amounts and of balances to      *)
(* begin with, and for every bound: the type invariant; CacheSettles, by   *)
(* the inductive invariant CacheInv; OneTopUpUnderWay, by TopUpInv; and    *)
(* NoMoreThanAsked, by JobsAsked and BudgetInv.                            *)
(***************************************************************************)
EXTENDS Accounts, Sums, FiniteSetTheorems, TLAPS

\* A handler runs an active job.
HandActive == hand.id # Idle => job[hand.id] > 0

Typed == TypeOK /\ HandActive

\* The jobs there are.
LEMMA IdsShape ==
  /\ \A k \in Sending \cup {"after"}, r \in Requests, s \in Slots : <<k, r, s>> \in Ids
  /\ \A s \in {0} \cup Slots : <<"refresh", 0, s>> \in Ids
  /\ \A x \in Ids : /\ x[1] \in {"approve", "add", "return", "after"} => x[2] \in Requests
                    /\ x[1] \in {"approve", "add", "return", "after", "refresh"}
                    /\ x[1] = "refresh" => x[2] = 0
  /\ Idle[1] = "idle" /\ Idle \notin Ids
  BY DEF Ids, Idle, Sending

\* Nothing yet, of the right types.
LEMMA NoneTyped == NoRow \in Row /\ NoAfter \in After /\ NoUi \in [open : BOOLEAN, row : Row]
                   /\ NoHand \in [id : Ids \cup {Idle}, row : Row, seen : Balances, both : BOOLEAN]
                   /\ NoHand.id = Idle
  BY AccountsAssumption DEF NoRow, Row, NoAfter, After, NoUi, NoHand, Balances

\* The types hold at the beginning.
LEMMA InitTyped == Init => Typed
<1> SUFFICES ASSUME Init PROVE Typed OBVIOUS
<1> USE DEF Init
<1>1. chain \in Balances
  BY AccountsAssumption
<1>2. pool \in Seq(Tx) /\ news \in Seq(Event) /\ row \in Row /\ asked \in [Requests -> Asked]
  BY NoneTyped DEF Asked
<1>3. job \in [Ids -> 0 .. TryLimit] /\ hand \in [id : Ids \cup {Idle}, row : Row, seen : Balances, both : BOOLEAN]
  BY NoneTyped, AccountsAssumption
<1>4. ch \in Channel
  BY AccountsAssumption DEF Channel
<1>9. after \in [Slots -> After] /\ byUser \in BOOLEAN /\ ui \in [open : BOOLEAN, row : Row]
  BY NoneTyped
<1>5. moved \in [Contracts -> Nat] /\ want \in [Contracts -> Nat] /\ tried \subseteq Sending \X Requests /\ harm \in BOOLEAN
  OBVIOUS
<1>6. extra \in [Sending -> Nat]
  BY <1>1 DEF Balances
<1>7. count \in [{"requests", "used", "topups", "received", "updates", "faults"} -> Nat]
  OBVIOUS
<1>8. HandActive
  BY NoneTyped DEF HandActive
<1>q. QED BY <1>1, <1>2, <1>3, <1>4, <1>5, <1>6, <1>7, <1>8, <1>9 DEF Typed, TypeOK

JobTypes == [Ids -> 0 .. TryLimit]
HandTypes == [id : Ids \cup {Idle}, row : Row, seen : Balances, both : BOOLEAN]

\* One job is set.
LEMMA JobSet ==
  ASSUME NEW f \in JobTypes, NEW x, NEW v \in 0 .. TryLimit
  PROVE  [f EXCEPT ![x] = v] \in JobTypes
  BY DEF JobTypes

\* The tries a job may have left.
LEMMA TryLimits == 0 \in 0 .. TryLimit /\ TryLimit \in 0 .. TryLimit /\ TryLimit > 0
  BY AccountsAssumption

\* One more of what is counted.
LEMMA BoundedTyped ==
  ASSUME TypeOK, NEW k \in {"requests", "used", "topups", "received", "updates", "faults"}, NEW max, Bounded(k, max)
  PROVE  count' \in [{"requests", "used", "topups", "received", "updates", "faults"} -> Nat]
  BY DEF TypeOK, Bounded

\* The handler ends: no handler, and its job is either done or as it was.
LEMMA FinishTyped ==
  ASSUME TypeOK, HandActive, hand.id # Idle, NEW next \in JobTypes, Finish(next)
  PROVE  job' \in JobTypes /\ hand' \in HandTypes /\ HandActive'
         /\ count' \in [{"requests", "used", "topups", "received", "updates", "faults"} -> Nat]
<1>1. hand' \in HandTypes /\ HandActive'
  BY NoneTyped DEF Finish, HandTypes, HandActive
<1>2. job' \in JobTypes
  BY JobSet, TryLimits DEF Finish
<1>3. count' \in [{"requests", "used", "topups", "received", "updates", "faults"} -> Nat]
  BY BoundedTyped DEF Finish, TypeOK
<1>q. QED BY <1>1, <1>2, <1>3

\* What a handler that returns an error leaves.
LEMMA RetryTyped ==
  ASSUME TypeOK, HandActive, hand.id # Idle, Retry
  PROVE  job' \in JobTypes /\ hand' \in HandTypes /\ HandActive' /\ harm' \in BOOLEAN
<1>1. hand' \in HandTypes /\ HandActive'
  BY NoneTyped DEF Retry, HandTypes, HandActive
<1>2. hand.id \in Ids /\ job[hand.id] \in 1 .. TryLimit
  BY AccountsAssumption DEF TypeOK, HandActive
<1>3. job' \in JobTypes
  BY <1>2, AccountsAssumption DEF Retry, TypeOK, JobTypes
<1>4. harm' \in BOOLEAN
  BY DEF Retry, TypeOK
<1>q. QED BY <1>1, <1>3, <1>4

\* What sending a transaction leaves.
LEMMA SendTyped ==
  ASSUME TypeOK, NEW k \in Sending, NEW a \in Nat, NEW b \in BOOLEAN, hand.id[2] \in Requests, Send(k, a, b)
  PROVE  pool' \in Seq(Tx) /\ extra' \in [Sending -> Nat] /\ tried' \subseteq Sending \X Requests
<1>1. [kind |-> k, amount |-> a, req |-> IF b THEN hand.id[2] ELSE 0] \in Tx
  BY DEF Tx
<1>2. pool' \in Seq(Tx)
  BY <1>1 DEF Send, TypeOK
<1>3. extra' \in [Sending -> Nat]
  BY DEF Send, TypeOK
<1>4. tried' \subseteq Sending \X Requests
  BY DEF Send, TypeOK
<1>q. QED BY <1>2, <1>3, <1>4

\* A handler starts with an active job and what it has read.
LEMMA StartTyped == ASSUME Typed, NEW x \in Ids, Start(x) PROVE Typed'
<1> USE DEF Typed, Start
<1>1. hand' \in HandTypes
  <2>1. chain \in Balances /\ row \in Row /\ NoRow \in Row
    BY NoneTyped DEF TypeOK
  <2>3. [allow |-> IF x[1] \in {"approve"} THEN chain.allow ELSE 0,
         ptc |-> IF x[1] \in {"approve", "add", "refresh"} THEN chain.ptc ELSE 0,
         psc |-> IF x[1] \in {"return"} THEN chain.psc ELSE 0] \in Balances
    BY <2>1 DEF Balances
  <2> QED BY <2>1, <2>3 DEF HandTypes
<1>2. HandActive'
  BY DEF HandActive
<1>q. QED BY <1>1, <1>2 DEF TypeOK, HandTypes, channel, history

\* The types are kept by the job that approves, in each of its three outcomes, ...
LEMMA ApproveTyped == ASSUME Typed, PreAccountAddBalanceApprove PROVE Typed'
<1> USE DEF Typed
<1>f. hand.id[1] = "approve" /\ UNCHANGED <<chain, news, row, asked, channel, ui, moved, want, byUser>>
  BY DEF PreAccountAddBalanceApprove
<1>1. hand.id \in Ids /\ hand.id # Idle /\ hand.id[2] \in Requests /\ hand.seen \in Balances /\ job \in JobTypes
  BY <1>f, IdsShape DEF TypeOK, JobTypes
<1>2. Amount \in Nat
  BY <1>1 DEF Amount, TypeOK, Asked
<1>3. CASE hand.seen.allow >= Amount /\ \E s \in Slots : Slot("add", hand.id[2], s)
             /\ Finish([job EXCEPT ![<<"add", hand.id[2], s>>] = TryLimit]) /\ UNCHANGED <<pool, extra, tried, harm>>
  <2> PICK s \in Slots : Finish([job EXCEPT ![<<"add", hand.id[2], s>>] = TryLimit])
    BY <1>3
  <2>1. [job EXCEPT ![<<"add", hand.id[2], s>>] = TryLimit] \in JobTypes
    BY <1>1, JobSet, TryLimits
  <2> QED BY <1>f, <1>1, <1>3, <2>1, FinishTyped DEF TypeOK, JobTypes, HandTypes, channel
<1>4. CASE MayApprove /\ Send("approve", Amount - hand.seen.allow, TRUE) /\ Finish(job) /\ UNCHANGED harm
  <2>1. Amount - hand.seen.allow \in Nat
    BY <1>1, <1>2, <1>4 DEF MayApprove, Balances
  <2>2. pool' \in Seq(Tx) /\ extra' \in [Sending -> Nat] /\ tried' \subseteq Sending \X Requests
    BY <1>1, <1>4, <2>1, SendTyped DEF Sending
  <2>3. job' \in JobTypes /\ hand' \in HandTypes /\ HandActive'
         /\ count' \in [{"requests", "used", "topups", "received", "updates", "faults"} -> Nat]
    BY <1>1, <1>4, FinishTyped
  <2> QED BY <1>f, <1>4, <2>2, <2>3 DEF TypeOK, JobTypes, HandTypes, channel
<1>5. CASE hand.seen.allow < Amount /\ ~MayApprove /\ Refused
  <2> QED BY <1>f, <1>1, <1>5, RetryTyped DEF Refused, TypeOK, JobTypes, HandTypes, channel
<1>q. QED BY <1>3, <1>4, <1>5 DEF PreAccountAddBalanceApprove

\* ... by the one that follows the event of the approval, ...
LEMMA AfterApproveTyped == ASSUME Typed, AfterAccountAddBalanceApprove PROVE Typed'
<1> USE DEF Typed, AfterAccountAddBalanceApprove
<1>1. hand.id # Idle /\ job \in JobTypes
  BY IdsShape DEF TypeOK, JobTypes
<1> PICK s \in Slots : Finish([job EXCEPT ![<<"add", hand.id[2], s>>] = TryLimit])
  OBVIOUS
<1>2. [job EXCEPT ![<<"add", hand.id[2], s>>] = TryLimit] \in JobTypes
  BY <1>1, JobSet, TryLimits
<1>q. QED BY <1>1, <1>2, FinishTyped DEF TypeOK, JobTypes, HandTypes, channel, history

\* The two other handlers that send a transaction of the whole amount.
LEMMA SendTypedStep ==
  ASSUME Typed, NEW k \in {"add", "return"}, hand.id[1] = k,
         \/ Send(k, Amount, TRUE) /\ Finish(job) /\ UNCHANGED harm
         \/ Refused,
         UNCHANGED <<chain, news, row, asked, channel, ui, moved, want, byUser>>
  PROVE  Typed'
<1> USE DEF Typed
<1>1. hand.id \in Ids /\ hand.id # Idle /\ hand.id[2] \in Requests /\ job \in JobTypes
  BY IdsShape DEF TypeOK, JobTypes
<1>2. Amount \in Nat
  BY <1>1 DEF Amount, TypeOK, Asked
<1>4. CASE Send(k, Amount, TRUE) /\ Finish(job) /\ UNCHANGED harm
  <2>2. pool' \in Seq(Tx) /\ extra' \in [Sending -> Nat] /\ tried' \subseteq Sending \X Requests
    BY <1>1, <1>4, <1>2, SendTyped DEF Sending
  <2>3. job' \in JobTypes /\ hand' \in HandTypes /\ HandActive'
         /\ count' \in [{"requests", "used", "topups", "received", "updates", "faults"} -> Nat]
    BY <1>1, <1>4, FinishTyped
  <2> QED BY <1>4, <2>2, <2>3 DEF TypeOK, JobTypes, HandTypes, channel
<1>5. CASE Refused
  <2> QED BY <1>1, <1>5, RetryTyped DEF Refused, TypeOK, JobTypes, HandTypes, channel
<1>q. QED BY <1>4, <1>5

\* ... by the two steps of a refresh, ...
LEMMA RefreshTyped == ASSUME Typed, ReadPSCBalance \/ updateBalances PROVE Typed'
<1> USE DEF Typed
<1>1. hand.id # Idle /\ job \in JobTypes /\ hand \in HandTypes
  BY IdsShape DEF TypeOK, JobTypes, HandTypes, ReadPSCBalance, updateBalances
<1>2. CASE ReadPSCBalance
  <2>1. hand' \in HandTypes /\ HandActive'
    BY <1>1, <1>2 DEF ReadPSCBalance, HandTypes, Balances, TypeOK, HandActive
  <2> QED BY <1>2, <2>1 DEF ReadPSCBalance, TypeOK, HandTypes, channel, history
<1>3. CASE updateBalances
  <2>1. row' \in Row
    BY <1>1, <1>3 DEF updateBalances, HandTypes, Row, Balances
  <2> QED BY <1>1, <1>3, <2>1, FinishTyped DEF updateBalances, TypeOK, JobTypes, HandTypes, channel, history
<1>q. QED BY <1>2, <1>3

\* A field of the channel is set.
LEMMA ChannelSet ==
  ASSUME NEW c \in Channel, NEW v \in Nat, NEW t \in 0 .. TryLimit
  PROVE  /\ [c EXCEPT !.used = v] \in Channel /\ [c EXCEPT !.dep = v] \in Channel
         /\ [c EXCEPT !.pre = t] \in Channel
  BY DEF Channel

\* ... when the channel is used and topped up: tries never become negative, ...
LEMMA ChannelTyped == ASSUME Typed, ClientPreChannelTopUp \/ Consume PROVE Typed'
<1> USE DEF Typed
<1>c. ch \in Channel /\ ch.used \in Nat /\ ch.pre \in 0 .. TryLimit /\ ch.amount \in Nat
  BY DEF TypeOK, Channel
<1>1. CASE Consume
  <2>1. count' \in [{"requests", "used", "topups", "received", "updates", "faults"} -> Nat]
    BY <1>1, BoundedTyped DEF Consume
  <2> PICK v \in Nat : v = ch.used + 1
    BY <1>c
  <2>2. ch' = [ch EXCEPT !.used = v]
    BY <1>1 DEF Consume
  <2>3. ch' \in Channel
    BY <1>c, <2>2, ChannelSet
  <2> QED BY <1>1, <2>1, <2>3 DEF Consume, TypeOK, HandActive, history
<1>2. CASE ClientPreChannelTopUp
  <2> PICK v \in 0 .. TryLimit : v = ch.pre - 1
    BY <1>c, <1>2, AccountsAssumption DEF ClientPreChannelTopUp
  <2>1. ch' \in {ch, [ch EXCEPT !.pre = 0], [ch EXCEPT !.pre = v]}
    BY <1>2 DEF ClientPreChannelTopUp
  <2>2. ch' \in Channel
    BY <1>c, <2>1, ChannelSet, TryLimits
  <2>3. count' \in [{"requests", "used", "topups", "received", "updates", "faults"} -> Nat]
    BY <1>2, BoundedTyped DEF ClientPreChannelTopUp, TypeOK
  <2>4. [kind |-> "topup", amount |-> ch.amount, req |-> 0] \in Tx /\ pool \in Seq(Tx)
    BY <1>c DEF Tx, TypeOK
  <2>5. pool' \in Seq(Tx)
    BY <1>2, <2>4 DEF ClientPreChannelTopUp
  <2> QED BY <1>2, <2>2, <2>3, <2>5 DEF ClientPreChannelTopUp, TypeOK, HandActive, history
<1>q. QED BY <1>1, <1>2

\* ... by the job of a top-up event, ...
LEMMA AfterTopUpTyped == ASSUME Typed, NEW s \in Slots, ClientAfterChannelTopUp(s) PROVE Typed'
<1> USE DEF Typed
<1>c. ch \in Channel /\ ch.dep \in Nat /\ after[s] \in After /\ after[s].amount \in Nat
      /\ after[s].tries \in 0 .. TryLimit /\ after[s].fresh \in BOOLEAN
  BY DEF TypeOK, Channel, After
<1> PICK v \in Nat : v = ch.dep + after[s].amount
  BY <1>c
<1> DEFINE added == [ch EXCEPT !.dep = v]
<1>1. added \in Channel /\ \A b \in BOOLEAN : [added EXCEPT !.done = b] \in Channel
  BY <1>c, ChannelSet DEF Channel
<1>2. ch' \in {added, [added EXCEPT !.done = @ \/ after[s].fresh]}
  BY DEF ClientAfterChannelTopUp
<1>3. (added.done \/ after[s].fresh) \in BOOLEAN
  OBVIOUS
<1>4. ch' \in Channel
  BY <1>1, <1>2, <1>3
<1>5. job' \in JobTypes /\ HandActive'
  <2>1. hand' = hand /\ (job' = job \/ job' = [job EXCEPT ![<<"refresh", 0, 0>>] = TryLimit])
    BY DEF ClientAfterChannelTopUp
  <2>2. job \in JobTypes
    BY DEF TypeOK, JobTypes
  <2>3. [job EXCEPT ![<<"refresh", 0, 0>>] = TryLimit] \in JobTypes
    BY <2>2, JobSet, TryLimits
  <2>4. job' \in JobTypes
    BY <2>1, <2>2, <2>3
  <2>5. hand.id # Idle => job[hand.id] > 0 /\ hand.id \in Ids
    BY DEF HandActive, TypeOK
  <2>6. hand.id # Idle => job'[hand.id] > 0
    BY <2>1, <2>2, <2>5, TryLimits DEF JobTypes
  <2> QED BY <2>1, <2>4, <2>6 DEF HandActive
<1>6. after' \in [Slots -> After]
  <2> PICK t \in 0 .. TryLimit : after[s].tries > 0 => t = after[s].tries - 1
    BY <1>c, TryLimits
  <2>1. [after[s] EXCEPT !.tries = t] \in After
    BY <1>c DEF After
  <2>2. after' = after \/ after' = [after EXCEPT ![s] = NoAfter] \/ after' = [after EXCEPT ![s] = [after[s] EXCEPT !.tries = t]]
    BY DEF ClientAfterChannelTopUp
  <2> QED BY <2>1, <2>2, NoneTyped DEF TypeOK
<1>7. count' \in [{"requests", "used", "topups", "received", "updates", "faults"} -> Nat] /\ harm' \in BOOLEAN
  BY BoundedTyped DEF ClientAfterChannelTopUp, TypeOK
<1>q. QED BY <1>4, <1>5, <1>6, <1>7 DEF ClientAfterChannelTopUp, TypeOK, JobTypes, history

\* A job is added.
LEMMA AddTyped ==
  ASSUME TypeOK, HandActive, NEW k, NEW r, NEW s, Add(k, r, s), hand' = hand
  PROVE  job' \in JobTypes /\ HandActive'
  BY JobSet, TryLimits DEF Add, TypeOK, JobTypes, HandActive

\* ... when the account is made and its balances are asked for, ...
LEMMA AccountTyped == ASSUME Typed, GenerateAccount \/ ImportAccount \/ UpdateBalance PROVE Typed'
<1> USE DEF Typed
<1>1. [NoRow EXCEPT !.made = TRUE] \in Row
  BY NoneTyped DEF Row
<1>2. [job EXCEPT ![<<"refresh", 0, 0>>] = TryLimit] \in JobTypes
  BY JobSet, TryLimits DEF TypeOK, JobTypes
<1>3. CASE GenerateAccount
  BY <1>1, <1>3 DEF GenerateAccount, TypeOK, HandActive, channel, history
<1>4. CASE ImportAccount
  BY <1>1, <1>2, <1>4, TryLimits DEF ImportAccount, TypeOK, JobTypes, HandActive, channel, history
<1>5. CASE UpdateBalance
  <2>1. count' \in [{"requests", "used", "topups", "received", "updates", "faults"} -> Nat]
    BY <1>5, BoundedTyped DEF UpdateBalance
  <2> QED BY <1>2, <1>5, <2>1, TryLimits DEF UpdateBalance, TypeOK, JobTypes, HandActive, channel, history
<1>q. QED BY <1>3, <1>4, <1>5

\* ... when a transfer is asked for, ...
LEMMA TransferTyped ==
  ASSUME Typed, NEW r \in Requests, NEW to \in Contracts, NEW a \in Amounts, TransferTokens(r, to, a)
  PROVE  Typed'
<1> USE DEF Typed
<1>0. a \in Nat /\ asked \in [Requests -> Asked] /\ want \in [Contracts -> Nat]
  BY AccountsAssumption DEF TypeOK
<1>1. asked' \in [Requests -> Asked]
  BY <1>0 DEF TransferTokens, Asked
<1>2. want' \in [Contracts -> Nat]
  <2> PICK v \in Nat : v = want[to] + a
    BY <1>0
  <2> want' = [want EXCEPT ![to] = v]
    BY DEF TransferTokens
  <2> QED BY <1>0
<1>3. job' \in JobTypes /\ HandActive'
  BY AddTyped DEF TransferTokens
<1>4. count' \in [{"requests", "used", "topups", "received", "updates", "faults"} -> Nat]
  BY BoundedTyped DEF TransferTokens
<1>q. QED BY <1>1, <1>2, <1>3, <1>4 DEF TransferTokens, TypeOK, JobTypes, channel

\* ... when the user edits the row, ...
LEMMA EditTyped == ASSUME Typed, UpdateAccountRead \/ UpdateAccount PROVE Typed'
<1> USE DEF Typed
<1>1. CASE UpdateAccountRead
  <2>1. count' \in [{"requests", "used", "topups", "received", "updates", "faults"} -> Nat]
    BY <1>1, BoundedTyped DEF UpdateAccountRead
  <2>2. ui' \in [open : BOOLEAN, row : Row]
    <3> PICK b \in BOOLEAN : ui' = [open |-> TRUE, row |-> [row EXCEPT !.inUse = b]]
      BY <1>1 DEF UpdateAccountRead
    <3>1. [row EXCEPT !.inUse = b] \in Row
      BY DEF TypeOK, Row
    <3> QED BY <3>1
  <2> QED BY <1>1, <2>1, <2>2 DEF UpdateAccountRead, TypeOK, HandActive, channel, history
<1>2. CASE UpdateAccount
  BY <1>2, NoneTyped DEF UpdateAccount, TypeOK, HandActive, channel, history
<1>q. QED BY <1>1, <1>2

\* A job to top up: the channel is well-formed after it, and nothing else changes.
LEMMA AddTopUpTyped ==
  ASSUME TypeOK, NEW a \in Nat, AddTopUp(a)
  PROVE  ch' \in Channel /\ after' \in [Slots -> After]
         /\ count' \in [{"requests", "used", "topups", "received", "updates", "faults"} -> Nat]
<1>1. ch' \in Channel
  BY TryLimits DEF AddTopUp, TypeOK, Channel
<1>2. after' \in [Slots -> After]
  BY DEF AddTopUp, TypeOK, After
<1>3. count' \in [{"requests", "used", "topups", "received", "updates", "faults"} -> Nat]
  BY BoundedTyped DEF AddTopUp
<1>q. QED BY <1>1, <1>2, <1>3

\* ... when a top-up is asked for, ...
LEMMA TopUpTyped ==
  ASSUME Typed, (\E a \in Amounts : TopUpChannel(a)) \/ checkAndCreateAutoIncreaseJob
  PROVE  Typed'
<1> USE DEF Typed
<1>1. ASSUME NEW a \in Amounts, TopUpChannel(a) PROVE Typed'
  <2>1. a \in Nat
    BY AccountsAssumption
  <2>2. ch' \in Channel /\ after' \in [Slots -> After]
         /\ count' \in [{"requests", "used", "topups", "received", "updates", "faults"} -> Nat]
    BY <1>1, <2>1, AddTopUpTyped DEF TopUpChannel
  <2> QED BY <1>1, <2>2 DEF TopUpChannel, TypeOK, HandActive
<1>2. CASE checkAndCreateAutoIncreaseJob
  <2>1. ch.dep \in Nat
    BY DEF TypeOK, Channel
  <2>2. ch' \in Channel /\ after' \in [Slots -> After]
         /\ count' \in [{"requests", "used", "topups", "received", "updates", "faults"} -> Nat]
    BY <1>2, <2>1, AddTopUpTyped DEF checkAndCreateAutoIncreaseJob
  <2> QED BY <1>2, <2>2 DEF checkAndCreateAutoIncreaseJob, TypeOK, HandActive, history
<1>q. QED BY <1>1, <1>2
\* A balance changes.
LEMMA ChainSet ==
  ASSUME NEW c \in Balances, NEW v \in Nat
  PROVE  /\ [c EXCEPT !.allow = v] \in Balances /\ [c EXCEPT !.psc = v] \in Balances
         /\ [c EXCEPT !.ptc = v] \in Balances
  BY DEF Balances

\* An event is added.
LEMMA NewsAdd ==
  ASSUME TypeOK, NEW k \in {"approval", "transfer", "toppedup"}, NEW r \in {0} \cup Requests, NEW a \in Nat
  PROVE  Append(news, [kind |-> k, req |-> r, amount |-> a]) \in Seq(Event)
<1>1. [kind |-> k, req |-> r, amount |-> a] \in Event
  BY DEF Event
<1>q. QED BY <1>1 DEF TypeOK

\* ... when others pay the account, ...
LEMMA ReceiveTyped == ASSUME Typed, NEW a \in Amounts, Receive(a) PROVE Typed'
<1> USE DEF Typed
<1>1. count' \in [{"requests", "used", "topups", "received", "updates", "faults"} -> Nat]
  BY BoundedTyped DEF Receive
<1>2. news' \in Seq(Event)
  BY NewsAdd DEF Receive
<1>3. chain' \in Balances
  <2>1. chain \in Balances /\ chain.ptc \in Nat /\ a \in Nat
    BY AccountsAssumption DEF TypeOK, Balances
  <2> PICK v \in Nat : v = chain.ptc + a
    BY <2>1
  <2> chain' = [chain EXCEPT !.ptc = v]
    BY DEF Receive
  <2> QED BY <2>1, ChainSet
<1>q. QED BY <1>1, <1>2, <1>3 DEF Receive, TypeOK, HandActive, channel, history

\* The next transaction and what mining it can do.
LEMMA Mined ==
  ASSUME TypeOK, Mine
  PROVE  /\ pool # <<>> /\ pool[1] \in Tx /\ pool' = Tail(pool) /\ pool' \in Seq(Tx)
         /\ chain \in Balances /\ pool[1].amount \in Nat
         /\ chain.allow \in Nat /\ chain.ptc \in Nat /\ chain.psc \in Nat
         /\ pool[1].kind \in {"approve", "add", "return", "topup"} /\ pool[1].req \in {0} \cup Requests
         /\ UNCHANGED <<row, asked, job, hand, ch, after, ui, want, extra, tried, byUser, harm, count>>
<1>1. pool \in Seq(Tx) /\ pool # <<>> /\ pool' = Tail(pool)
  BY DEF Mine, TypeOK
<1>2. pool[1] \in Tx /\ Tail(pool) \in Seq(Tx)
  BY <1>1
<1>q. QED BY <1>1, <1>2 DEF Mine, TypeOK, Tx, Sending, Balances, channel

\* ... when a transaction is mined: no balance becomes negative, ...
LEMMA MineTyped == ASSUME Typed, Mine PROVE Typed'
<1> USE DEF Typed
<1> DEFINE t == pool[1] a == t.amount
<1>m. /\ pool' \in Seq(Tx) /\ chain \in Balances /\ a \in Nat /\ t.req \in {0} \cup Requests
      /\ chain.allow \in Nat /\ chain.ptc \in Nat /\ chain.psc \in Nat
      /\ UNCHANGED <<row, asked, job, hand, ch, after, ui, want, extra, tried, byUser, harm, count>>
  BY Mined
<1>0. moved \in [Contracts -> Nat] /\ moved.psc \in Nat /\ moved.ptc \in Nat
  BY DEF TypeOK, Contracts
<1>s. \A v \in Nat : [moved EXCEPT !.psc = v] \in [Contracts -> Nat] /\ [moved EXCEPT !.ptc = v] \in [Contracts -> Nat]
  BY <1>0
<1>n. \A k \in {"approval", "transfer", "toppedup"}, r \in {0} \cup Requests, m \in Nat :
        Append(news, [kind |-> k, req |-> r, amount |-> m]) \in Seq(Event)
  BY NewsAdd
<1>c. chain' \in Balances /\ news' \in Seq(Event) /\ moved' \in [Contracts -> Nat]
  <2>1. CASE t.kind = "approve"
    <3> PICK v \in Nat : v = chain.allow + a
      BY <1>m
    <3>1. chain' = [chain EXCEPT !.allow = v] /\ moved' = moved
          /\ news' = Append(news, [kind |-> "approval", req |-> t.req, amount |-> 0])
      BY <2>1 DEF Mine
    <3> QED BY <1>m, <1>0, <1>n, <3>1, ChainSet
  <2>2. CASE t.kind = "add" /\ chain.ptc >= a /\ chain.allow >= a
    <3> PICK v \in Nat : v = moved.psc + a
      BY <1>m, <1>0
    <3>1. chain' = [ptc |-> chain.ptc - a, psc |-> chain.psc + a, allow |-> chain.allow - a]
          /\ moved' = [moved EXCEPT !.psc = v]
          /\ news' = Append(news, [kind |-> "transfer", req |-> 0, amount |-> 0])
      BY <1>m, <2>2 DEF Mine
    <3>2. chain' \in Balances
      BY <1>m, <2>2, <3>1 DEF Balances
    <3> QED BY <1>s, <1>n, <3>1, <3>2
  <2>3. CASE t.kind = "return" /\ chain.psc >= a
    <3> PICK v \in Nat : v = moved.ptc + a
      BY <1>m, <1>0
    <3> PICK p \in Nat : p = chain.ptc + a
      BY <1>m
    <3> PICK q \in Nat : q = chain.psc - a
      BY <1>m, <2>3
    <3>1. chain' = [chain EXCEPT !.ptc = p, !.psc = q] /\ moved' = [moved EXCEPT !.ptc = v]
          /\ news' = Append(news, [kind |-> "transfer", req |-> 0, amount |-> 0])
      BY <1>m, <2>3 DEF Mine
    <3> QED BY <1>m, <1>s, <1>n, <3>1, ChainSet
  <2>4. CASE t.kind = "topup" /\ chain.psc >= a
    <3> PICK q \in Nat : q = chain.psc - a
      BY <1>m, <2>4
    <3>1. chain' = [chain EXCEPT !.psc = q] /\ moved' = moved
          /\ news' = Append(news, [kind |-> "toppedup", req |-> 0, amount |-> a])
      BY <1>m, <2>4 DEF Mine
    <3> QED BY <1>m, <1>0, <1>n, <3>1, ChainSet
  <2>5. CASE UNCHANGED <<chain, news, moved>>
    BY <2>5 DEF TypeOK
  <2> QED BY <2>1, <2>2, <2>3, <2>4, <2>5 DEF Mine
<1>q. QED BY <1>m, <1>c DEF TypeOK, HandActive
\* The next event and what hearing of it can do.
LEMMA TakeTyped == ASSUME Typed, TakeEvent PROVE Typed'
<1> USE DEF Typed
<1>1. news # <<>> /\ news[1] \in Event /\ news' \in Seq(Event) /\ hand' = hand
  BY DEF TakeEvent, TypeOK
<1>2. job' \in JobTypes /\ HandActive'
  <2>1. CASE \E k, r, s : Add(k, r, s)
    BY <1>1, <2>1, AddTyped
  <2>2. CASE UNCHANGED job
    BY <1>1, <2>2 DEF TypeOK, HandActive, JobTypes
  <2> QED BY <2>1, <2>2 DEF TakeEvent, AddRefresh
<1>3. after' \in [Slots -> After]
  <2>1. CASE AddAfterTopUp(news[1].amount)
    <3>1. [amount |-> news[1].amount, tries |-> TryLimit, fresh |-> TRUE] \in After
      BY <1>1, TryLimits DEF After, Event
    <3> QED BY <2>1, <3>1 DEF AddAfterTopUp, TypeOK
  <2> QED BY <2>1 DEF TakeEvent, TypeOK
<1>4. harm' \in BOOLEAN
  BY DEF TakeEvent, TypeOK
<1>q. QED BY <1>1, <1>2, <1>3, <1>4 DEF TakeEvent, TypeOK, JobTypes, history

\* ... when a handler fails, having sent its transaction or not, ...
LEMMA FailTyped == ASSUME Typed, HandlerFails PROVE Typed'
<1> USE DEF Typed
<1>1. hand.id # Idle /\ hand.id \in Ids /\ hand.seen \in Balances
      /\ UNCHANGED <<chain, news, row, asked, channel, ui, moved, want, byUser>>
  BY DEF HandlerFails, TypeOK
<1>2. job' \in JobTypes /\ hand' \in HandTypes /\ HandActive' /\ harm' \in BOOLEAN
  BY <1>1, RetryTyped DEF HandlerFails
<1>3. count' \in [{"requests", "used", "topups", "received", "updates", "faults"} -> Nat]
  BY BoundedTyped DEF HandlerFails
<1>4. pool' \in Seq(Tx) /\ extra' \in [Sending -> Nat] /\ tried' \subseteq Sending \X Requests
  <2>1. CASE UNCHANGED <<pool, extra, tried>>
    BY <2>1 DEF TypeOK
  <2>2. ASSUME NEW k \in Sending, NEW a, Send(k, a, FALSE), hand.id[1] = k,
               a = Amount \/ (a = Amount - hand.seen.allow /\ MayApprove)
        PROVE  pool' \in Seq(Tx) /\ extra' \in [Sending -> Nat] /\ tried' \subseteq Sending \X Requests
    <3>1. hand.id[2] \in Requests
      BY <1>1, <2>2, IdsShape DEF Sending
    <3>2. Amount \in Nat
      BY <3>1 DEF Amount, TypeOK, Asked
    <3>3. a \in Nat
      BY <1>1, <2>2, <3>2 DEF MayApprove, Balances
    <3> QED BY <2>2, <3>1, <3>3, SendTyped
  <2>3. \/ UNCHANGED <<pool, extra, tried>>
        \/ hand.id[1] = "approve" /\ MayApprove /\ Send("approve", Amount - hand.seen.allow, FALSE)
        \/ hand.id[1] = "add" /\ Send("add", Amount, FALSE)
        \/ hand.id[1] = "return" /\ Send("return", Amount, FALSE)
    BY DEF HandlerFails
  <2>4. {"approve", "add", "return"} \subseteq Sending
    BY DEF Sending
  <2> QED BY <2>1, <2>2, <2>3, <2>4
<1>q. QED BY <1>1, <1>2, <1>3, <1>4 DEF TypeOK, JobTypes, HandTypes, channel

\* ... and in a crash.
LEMMA CrashTyped == ASSUME Typed, Crash PROVE Typed'
<1>1. count' \in [{"requests", "used", "topups", "received", "updates", "faults"} -> Nat]
  BY BoundedTyped DEF Crash, Typed
<1>q. QED BY <1>1, NoneTyped DEF Crash, Typed, TypeOK, HandActive, channel, history

\* The type invariant, and that a handler always runs an active job.
THEOREM TypeCorrect == Spec => []TypeOK /\ []HandActive
<1>1. Init => Typed
  BY InitTyped
<1>2. Typed /\ [Next]_vars => Typed'
  <2> SUFFICES ASSUME Typed, [Next]_vars PROVE Typed' OBVIOUS
  <2>1. CASE \E x \in Ids : Start(x)
    BY <2>1, StartTyped
  <2>2. CASE PreAccountAddBalanceApprove
    BY <2>2, ApproveTyped
  <2>3. CASE AfterAccountAddBalanceApprove
    BY <2>3, AfterApproveTyped
  <2>4. CASE PreAccountAddBalance
    <3>1. hand.id[1] = "add" /\ ((Send("add", Amount, TRUE) /\ Finish(job) /\ UNCHANGED harm) \/ Refused)
          /\ UNCHANGED <<chain, news, row, asked, channel, ui, moved, want, byUser>>
      BY <2>4 DEF PreAccountAddBalance
    <3> QED BY <3>1, SendTypedStep
  <2>5. CASE PreAccountReturnBalance
    <3>1. hand.id[1] = "return" /\ ((Send("return", Amount, TRUE) /\ Finish(job) /\ UNCHANGED harm) \/ Refused)
          /\ UNCHANGED <<chain, news, row, asked, channel, ui, moved, want, byUser>>
      BY <2>5 DEF PreAccountReturnBalance
    <3> QED BY <3>1, SendTypedStep
  <2>6. CASE ReadPSCBalance \/ updateBalances
    BY <2>6, RefreshTyped
  <2>7. CASE UpdateAccount \/ UpdateAccountRead
    BY <2>7, EditTyped
  <2>8. CASE ClientPreChannelTopUp \/ Consume
    BY <2>8, ChannelTyped
  <2>9. CASE \E s \in Slots : ClientAfterChannelTopUp(s)
    BY <2>9, AfterTopUpTyped
  <2>10. CASE GenerateAccount \/ ImportAccount \/ UpdateBalance
    BY <2>10, AccountTyped
  <2>11. CASE \E r \in Requests, to \in Contracts, a \in Amounts : TransferTokens(r, to, a)
    BY <2>11, TransferTyped
  <2>12. CASE (\E a \in Amounts : TopUpChannel(a)) \/ checkAndCreateAutoIncreaseJob
    BY <2>12, TopUpTyped
  <2>13. CASE Mine
    BY <2>13, MineTyped
  <2>14. CASE TakeEvent
    BY <2>14, TakeTyped
  <2>15. CASE \E a \in Amounts : Receive(a)
    BY <2>15, ReceiveTyped
  <2>16. CASE HandlerFails
    BY <2>16, FailTyped
  <2>17. CASE Crash
    BY <2>17, CrashTyped
  <2>18. CASE UNCHANGED vars
    BY <2>18 DEF vars, channel, history, Typed, TypeOK, HandActive
  <2>q. QED BY <2>1, <2>2, <2>3, <2>4, <2>5, <2>6, <2>7, <2>8, <2>9, <2>10, <2>11, <2>12, <2>13,
               <2>14, <2>15, <2>16, <2>17, <2>18 DEF Next, Work, User
<1>q. QED BY <1>1, <1>2, PTL DEF Spec, Typed
-----------------------------------------------------------------------------
(* The cached balances.  While the row does not have the balances of the   *)
(* contracts, something is on its way that will have them read again: the  *)
(* event of a transfer, or an active job to refresh that has not started.  *)

RowMade ==
  /\ ~row.made => /\ \A x \in Ids : job[x] = 0
                  /\ \A s \in Slots : after[s].tries = 0
  /\ ui.open => ui.row.made /\ row.made
  /\ hand.id[1] = "refresh" => hand.row.made

RefreshWaits(x) == x[1] = "refresh" /\ job[x] > 0 /\ hand.id # x
Heard(k) == \E i \in DOMAIN news : news[i].kind = k
Pending == Heard("transfer") \/ \E x \in Ids : RefreshWaits(x)
\* The balance in the PSC changes with a top-up as well.
PendingPSC == Pending \/ Heard("toppedup") \/ \E s \in Slots : after[s].tries > 0

\* A running refresh will write what it has seen: that is what has to be right.
Fresh ==
  row.made /\ ~harm =>
    /\ hand.id[1] = "refresh" => /\ hand.seen.ptc = chain.ptc \/ Pending
                                 /\ hand.both => hand.seen.psc = chain.psc \/ PendingPSC
    /\ hand.id[1] # "refresh" => /\ row.ptc = chain.ptc \/ Pending
                                 /\ row.psc = chain.psc \/ PendingPSC

CacheInv == RowMade /\ Fresh

\* Nothing on its way is lost when events are added, or the first is taken, ...
LEMMA HeardAppend ==
  ASSUME TypeOK, NEW e, news' = Append(news, e), NEW k
  PROVE  /\ Heard(k) => Heard(k)'
         /\ e.kind = k => Heard(k)'
<1>1. /\ Len(news) \in Nat /\ DOMAIN news = 1 .. Len(news) /\ DOMAIN news' = 1 .. Len(news) + 1
      /\ news'[Len(news) + 1] = e /\ \A i \in 1 .. Len(news) : news'[i] = news[i]
  BY DEF TypeOK
<1>q. QED BY <1>1 DEF Heard

\* ... if it is of another kind, ...
LEMMA HeardTail ==
  ASSUME TypeOK, news # <<>>, news' = Tail(news), NEW k, news[1].kind # k, Heard(k)
  PROVE  Heard(k)'
<1>1. /\ Len(news) \in Nat \ {0} /\ DOMAIN news = 1 .. Len(news) /\ DOMAIN news' = 1 .. Len(news) - 1
      /\ \A i \in 1 .. Len(news) - 1 : news'[i] = news[i + 1]
  BY DEF TypeOK
<1>2. PICK i \in 1 .. Len(news) : news[i].kind = k
  BY <1>1 DEF Heard
<1>3. i - 1 \in 1 .. Len(news) - 1 /\ news'[i - 1] = news[i]
  BY <1>1, <1>2
<1>q. QED BY <1>1, <1>2, <1>3 DEF Heard

\* ... and no step but that of a refresh takes more than that away.
LEMMA FreshKept ==
  ASSUME Fresh, UNCHANGED <<row, chain>>, harm => harm',
         hand' = hand \/ (hand.id[1] # "refresh" /\ hand'.id[1] # "refresh"),
         Heard("transfer") => Pending',
         Heard("toppedup") => PendingPSC',
         \A x \in Ids : RefreshWaits(x) => RefreshWaits(x)',
         (\E s \in Slots : after[s].tries > 0) => PendingPSC'
  PROVE  Fresh'
<1>1. Pending => Pending'
  BY DEF Pending
<1>2. PendingPSC => PendingPSC'
  BY <1>1 DEF PendingPSC
<1>q. QED BY <1>1, <1>2 DEF Fresh

\* A refresh that starts reads the balance there is.
LEMMA FreshStart == ASSUME Typed, CacheInv, NEW x \in Ids, Start(x) PROVE CacheInv'
<1> USE DEF Typed
<1>1. hand.id = Idle /\ hand'.id = x /\ job[x] > 0 /\ job' = job /\ hand'.row = IF x[1] = "refresh" THEN row ELSE NoRow
  BY DEF Start
<1>2. RowMade'
  BY <1>1 DEF Start, CacheInv, RowMade, TypeOK, channel
<1>3. CASE x[1] = "refresh"
  BY <1>1, <1>2, <1>3 DEF Start, Fresh, CacheInv
<1>4. CASE x[1] # "refresh"
  <2>1. \A y \in Ids : RefreshWaits(y) => RefreshWaits(y)'
    BY <1>1, <1>4 DEF RefreshWaits
  <2>2. hand.id[1] # "refresh" /\ hand'.id[1] # "refresh"
    BY <1>1, <1>4, IdsShape
  <2>3. UNCHANGED <<row, chain, news, after, harm>>
    BY DEF Start, channel
  <2>q. QED BY <1>2, <2>1, <2>2, <2>3, FreshKept DEF CacheInv, Heard, Pending, PendingPSC
<1>q. QED BY <1>3, <1>4
\* A job that is active or a handler that runs: then the account is there.
LEMMA Made ==
  ASSUME Typed, RowMade
  PROVE  /\ \A x \in Ids : job[x] > 0 => row.made
         /\ \A s \in Slots : after[s].tries > 0 => row.made
         /\ hand.id # Idle => row.made /\ hand.id \in Ids /\ job[hand.id] > 0
  BY DEF Typed, RowMade, HandActive, TypeOK

\* The handlers of transfers leave the jobs to refresh alone.
LEMMA FreshOther ==
  ASSUME Typed, CacheInv, hand.id[1] \in {"approve", "add", "return", "after"}, hand' = NoHand,
         UNCHANGED <<chain, row, news, after, ui>>, harm => harm',
         \A x \in Ids : x[1] = "refresh" => job'[x] = job[x]
  PROVE  CacheInv'
<1>1. hand.id # Idle /\ row.made /\ hand'.id = Idle
  BY IdsShape, Made, NoneTyped DEF CacheInv
<1>2. RowMade'
  BY <1>1, IdsShape DEF CacheInv, RowMade
<1>3. \A x \in Ids : RefreshWaits(x) => RefreshWaits(x)'
  BY <1>1, IdsShape DEF RefreshWaits
<1>4. hand.id[1] # "refresh" /\ hand'.id[1] # "refresh"
  BY <1>1, IdsShape
<1>q. QED BY <1>2, <1>3, <1>4, FreshKept DEF CacheInv, Heard, Pending, PendingPSC

\* What ending a handler does to the other jobs.
LEMMA EndsFinish ==
  ASSUME Typed, hand.id \in Ids, NEW next \in JobTypes, Finish(next)
  PROVE  hand' = NoHand /\ \A x \in Ids : x # hand.id => job'[x] = next[x]
  BY DEF Finish, JobTypes

\* So does one that returns an error, or its job is given up.
LEMMA EndsRetry ==
  ASSUME Typed, hand.id \in Ids, Retry
  PROVE  hand' = NoHand /\ \A x \in Ids : x # hand.id => job'[x] = job[x]
  BY DEF Typed, Retry, TypeOK

\* So the handlers of transfers keep the invariant.
LEMMA FreshHandler ==
  ASSUME Typed, CacheInv,
         \/ PreAccountAddBalanceApprove \/ AfterAccountAddBalanceApprove
         \/ PreAccountAddBalance \/ PreAccountReturnBalance
  PROVE  CacheInv'
<1> USE DEF Typed
<1>1. hand.id[1] \in {"approve", "add", "return", "after"} /\ UNCHANGED <<chain, row, news, after, ui>>
  BY DEF PreAccountAddBalanceApprove, AfterAccountAddBalanceApprove, PreAccountAddBalance, PreAccountReturnBalance, channel
<1>2. hand.id \in Ids /\ job \in JobTypes
  BY <1>1, IdsShape DEF TypeOK, JobTypes
<1>3. /\ harm => harm'
      /\ \/ Retry \/ Finish(job)
         \/ \E s \in Slots : Finish([job EXCEPT ![<<"add", hand.id[2], s>>] = TryLimit])
  BY DEF PreAccountAddBalanceApprove, AfterAccountAddBalanceApprove, PreAccountAddBalance, PreAccountReturnBalance,
         Refused, Retry
<1>4. hand' = NoHand /\ \A x \in Ids : x[1] = "refresh" => job'[x] = job[x]
  <2>1. CASE Retry \/ Finish(job)
    BY <1>1, <1>2, <2>1, EndsFinish, EndsRetry
  <2>2. ASSUME NEW s \in Slots, Finish([job EXCEPT ![<<"add", hand.id[2], s>>] = TryLimit])
        PROVE  hand' = NoHand /\ \A x \in Ids : x[1] = "refresh" => job'[x] = job[x]
    <3>1. [job EXCEPT ![<<"add", hand.id[2], s>>] = TryLimit] \in JobTypes
      BY <1>2, JobSet, TryLimits
    <3>2. hand' = NoHand /\ \A x \in Ids : x # hand.id => job'[x] = [job EXCEPT ![<<"add", hand.id[2], s>>] = TryLimit][x]
      BY <1>2, <2>2, <3>1, EndsFinish
    <3>3. \A x \in Ids : x[1] = "refresh" => x # <<"add", hand.id[2], s>>
      OBVIOUS
    <3>q. QED BY <1>1, <1>2, <3>2, <3>3 DEF JobTypes
  <2>q. QED BY <1>3, <2>1, <2>2
<1>q. QED BY <1>1, <1>3, <1>4, FreshOther

\* A refresh ends.
LEMMA FreshRefresh == ASSUME Typed, CacheInv, ReadPSCBalance \/ updateBalances PROVE CacheInv'
<1> USE DEF Typed
<1>1. hand.id[1] = "refresh" /\ hand.id # Idle /\ hand.id \in Ids /\ row.made /\ job \in JobTypes
  BY IdsShape, Made DEF ReadPSCBalance, updateBalances, CacheInv, TypeOK, JobTypes
<1>2. CASE ReadPSCBalance
  <2>1. hand'.id = hand.id /\ hand'.row = hand.row /\ hand'.both /\ hand'.seen.ptc = hand.seen.ptc
        /\ hand'.seen.psc = chain.psc /\ UNCHANGED <<chain, news, row, job, after, ui, harm>>
    BY <1>2 DEF ReadPSCBalance, TypeOK, Balances, channel
  <2>2. RowMade'
    BY <2>1 DEF CacheInv, RowMade
  <2>3. Pending => Pending'
    BY <2>1 DEF Pending, Heard, RefreshWaits
  <2>q. QED BY <1>1, <2>1, <2>2, <2>3 DEF CacheInv, Fresh
<1>3. CASE updateBalances
  <2>1. hand.both /\ row' = [hand.row EXCEPT !.ptc = hand.seen.ptc, !.psc = hand.seen.psc]
        /\ harm' = (harm \/ row # hand.row) /\ UNCHANGED <<chain, news, after, ui>>
    BY <1>3 DEF updateBalances, channel
  <2>2. hand' = NoHand /\ hand'.id = Idle /\ \A x \in Ids : x # hand.id => job'[x] = job[x]
    BY <1>1, <1>3, EndsFinish, NoneTyped DEF updateBalances
  <2>3. hand.row \in Row /\ hand.row.made
    BY <1>1 DEF TypeOK, CacheInv, RowMade
  <2>4. row'.made /\ row'.ptc = hand.seen.ptc /\ row'.psc = hand.seen.psc
    BY <2>1, <2>3 DEF Row
  <2>5. RowMade'
    BY <2>1, <2>2, <2>4, IdsShape DEF CacheInv, RowMade
  <2>6. (Pending => Pending') /\ (PendingPSC => PendingPSC')
    BY <2>1, <2>2, IdsShape DEF Pending, PendingPSC, Heard, RefreshWaits
  <2>7. ~harm' => ~harm
    BY <2>1
  <2>q. QED BY <1>1, <2>1, <2>2, <2>4, <2>5, <2>6, <2>7, IdsShape DEF CacheInv, Fresh
<1>q. QED BY <1>2, <1>3
\* The account is made.
LEMMA FreshAccount == ASSUME Typed, CacheInv, GenerateAccount \/ ImportAccount PROVE CacheInv'
<1> USE DEF Typed
<1>1. ~row.made /\ row' = [NoRow EXCEPT !.made = TRUE] /\ row'.made /\ row'.ptc = 0 /\ row'.psc = 0
  BY DEF GenerateAccount, ImportAccount, NoRow
<1>2. hand.id = Idle /\ ~ui.open /\ UNCHANGED <<chain, hand, ui, after>> /\ hand.id[1] # "refresh"
  BY <1>1, IdsShape, Made DEF GenerateAccount, ImportAccount, CacheInv, RowMade, channel
<1>3. RowMade'
  BY <1>1, <1>2 DEF RowMade
<1>4. CASE GenerateAccount
  BY <1>1, <1>2, <1>3, <1>4 DEF GenerateAccount, CacheInv, Fresh
<1>5. CASE ImportAccount
  <2>1. <<"refresh", 0, 0>> \in Ids /\ job'[<<"refresh", 0, 0>>] > 0
    BY <1>5, IdsShape, TryLimits DEF ImportAccount, TypeOK
  <2>2. Pending'
    BY <1>2, <2>1, IdsShape DEF Pending, RefreshWaits
  <2>q. QED BY <1>2, <1>3, <2>2 DEF CacheInv, Fresh, PendingPSC
<1>q. QED BY <1>4, <1>5

\* The user asks for something.
LEMMA FreshUser ==
  ASSUME Typed, CacheInv,
         \/ \E r \in Requests, to \in Contracts, a \in Amounts : TransferTokens(r, to, a)
         \/ UpdateBalance \/ UpdateAccountRead \/ Consume
  PROVE  CacheInv'
<1> USE DEF Typed
<1>1. row.made /\ UNCHANGED <<chain, hand, row, news, after, harm>>
  BY DEF TransferTokens, UpdateBalance, UpdateAccountRead, Consume, channel
<1>2. ui'.open => ui'.row.made
  <2>1. ui' = ui \/ \E b \in BOOLEAN : ui' = [open |-> TRUE, row |-> [row EXCEPT !.inUse = b]]
    BY DEF TransferTokens, UpdateBalance, UpdateAccountRead, Consume
  <2>2. ASSUME NEW b \in BOOLEAN, ui' = [open |-> TRUE, row |-> [row EXCEPT !.inUse = b]]
        PROVE  ui'.row.made
    <3>1. ui'.row = [row EXCEPT !.inUse = b]
      BY <2>2
    <3>q. QED BY <1>1, <3>1 DEF TypeOK, Row
  <2>q. QED BY <2>1, <2>2 DEF CacheInv, RowMade
<1>3. RowMade'
  BY <1>1, <1>2 DEF CacheInv, RowMade
<1>4. \A x \in Ids : job[x] > 0 => job'[x] > 0
  BY TryLimits DEF TransferTokens, UpdateBalance, UpdateAccountRead, Consume, Add, TypeOK
<1>5. \A x \in Ids : RefreshWaits(x) => RefreshWaits(x)'
  BY <1>1, <1>4 DEF RefreshWaits
<1>q. QED BY <1>1, <1>3, <1>5, FreshKept DEF CacheInv, Heard, Pending, PendingPSC

\* A row is written back as it was, or harm is done.
LEMMA FreshEdit == ASSUME Typed, CacheInv, UpdateAccount PROVE CacheInv'
<1> USE DEF Typed
<1>1. ui.row.made /\ row.made /\ row' = ui.row /\ ui' = NoUi /\ UNCHANGED <<chain, hand, news, job, after>>
      /\ harm' = (harm \/ ui.row # [row EXCEPT !.inUse = ui.row.inUse])
  BY DEF UpdateAccount, CacheInv, RowMade, channel
<1>2. RowMade'
  BY <1>1 DEF CacheInv, RowMade, NoUi
<1>3. ~harm' => ~harm /\ row'.ptc = row.ptc /\ row'.psc = row.psc
  BY <1>1 DEF TypeOK, Row
<1>4. (Pending => Pending') /\ (PendingPSC => PendingPSC')
  BY <1>1 DEF Pending, PendingPSC, Heard, RefreshWaits
<1>q. QED BY <1>1, <1>2, <1>3, <1>4 DEF CacheInv, Fresh

\* Whatever changes the balances is heard of.
LEMMA FreshContract == ASSUME Typed, CacheInv, Mine \/ \E a \in Amounts : Receive(a) PROVE CacheInv'
<1> USE DEF Typed
<1>1. UNCHANGED <<row, hand, job, after, ui, harm>>
  BY DEF Mine, Receive, channel
<1>2. RowMade'
  BY <1>1 DEF CacheInv, RowMade
<1>3. \/ UNCHANGED <<chain, news>>
      \/ \E e : /\ news' = Append(news, e)
               /\ \/ e.kind = "transfer"
                  \/ e.kind = "toppedup" /\ chain'.ptc = chain.ptc
                  \/ chain'.ptc = chain.ptc /\ chain'.psc = chain.psc
  <2>1. CASE \E a \in Amounts : Receive(a)
    BY <2>1 DEF Receive
  <2>2. CASE Mine
    <3>1. CASE pool[1].kind = "approve"
      BY <2>2, <3>1 DEF Mine, TypeOK, Balances
    <3>2. CASE pool[1].kind \in {"add", "return"}
      BY <2>2, <3>2 DEF Mine
    <3>3. CASE pool[1].kind = "topup"
      <4>1. chain \in Balances
        BY DEF TypeOK
      <4>2. CASE UNCHANGED <<chain, news>>
        BY <4>2
      <4>3. CASE /\ chain' = [chain EXCEPT !.psc = @ - pool[1].amount]
                 /\ news' = Append(news, [kind |-> "toppedup", req |-> 0, amount |-> pool[1].amount])
        BY <4>1, <4>3 DEF Balances
      <4>q. QED BY <2>2, <3>3, <4>2, <4>3 DEF Mine
    <3>q. QED BY <2>2, <3>1, <3>2, <3>3, Mined
  <2>q. QED BY <2>1, <2>2
<1>4. CASE UNCHANGED <<chain, news>>
  <2>1. (Pending => Pending') /\ (PendingPSC => PendingPSC')
    BY <1>1, <1>4 DEF Pending, PendingPSC, Heard, RefreshWaits
  <2>q. QED BY <1>1, <1>2, <1>4, <2>1 DEF CacheInv, Fresh
<1>5. ASSUME NEW e, news' = Append(news, e),
             \/ e.kind = "transfer"
             \/ e.kind = "toppedup" /\ chain'.ptc = chain.ptc
             \/ chain'.ptc = chain.ptc /\ chain'.psc = chain.psc
      PROVE  CacheInv'
  <2>1. \A k \in {"transfer", "toppedup"} : (Heard(k) => Heard(k)') /\ (e.kind = k => Heard(k)')
    BY <1>5, HeardAppend
  <2>2. (Pending => Pending') /\ (PendingPSC => PendingPSC')
    BY <1>1, <2>1 DEF Pending, PendingPSC, RefreshWaits
  <2>3. (e.kind = "transfer" => Pending') /\ (e.kind = "toppedup" => PendingPSC')
    BY <2>1 DEF Pending, PendingPSC
  <2>4. Pending' => PendingPSC'
    BY DEF PendingPSC
  <2>q. QED BY <1>1, <1>2, <1>5, <2>2, <2>3, <2>4 DEF CacheInv, Fresh
<1>q. QED BY <1>3, <1>4, <1>5

\* The monitor turns events into jobs.
LEMMA FreshTake == ASSUME Typed, CacheInv, TakeEvent PROVE CacheInv'
<1> USE DEF Typed
<1>1. news # <<>> /\ news' = Tail(news) /\ UNCHANGED <<chain, row, hand, ui>>
  BY DEF TakeEvent
<1>2. CASE ~getAddressesInUse
  <2>1. harm' = (harm \/ row.made) /\ UNCHANGED <<job, after>>
    BY <1>2 DEF TakeEvent
  <2>q. QED BY <1>1, <2>1 DEF CacheInv, RowMade, Fresh
<1>3. CASE getAddressesInUse
  <2>1. row.made /\ harm' = harm
    BY <1>3 DEF TakeEvent, getAddressesInUse
  <2>2. \A x \in Ids : job[x] > 0 => job'[x] > 0
    BY <1>3, TryLimits DEF TakeEvent, AddRefresh, Add, TypeOK
  <2>3. \A s \in Slots : after[s].tries > 0 => after'[s].tries > 0
    <3>1. CASE UNCHANGED after
      BY <3>1
    <3>2. CASE AddAfterTopUp(news[1].amount)
      BY <3>2, TryLimits DEF AddAfterTopUp, TypeOK
    <3>q. QED BY <1>3, <3>1, <3>2 DEF TakeEvent
  <2>4. RowMade'
    BY <1>1, <2>1 DEF CacheInv, RowMade
  <2>5. \A x \in Ids : RefreshWaits(x) => RefreshWaits(x)'
    BY <1>1, <2>2 DEF RefreshWaits
  <2>6. Heard("transfer") => Pending'
    <3>1. CASE news[1].kind # "transfer"
      BY <1>1, <3>1, HeardTail DEF Pending
    <3>2. CASE news[1].kind = "transfer"
      <4> PICK s \in Slots : Add("refresh", 0, s)
        BY <1>3, <3>2 DEF TakeEvent, AddRefresh
      <4>1. <<"refresh", 0, s>> \in Ids /\ job[<<"refresh", 0, s>>] = 0 /\ job'[<<"refresh", 0, s>>] > 0
        BY IdsShape, TryLimits DEF Add, Slot, TypeOK
      <4>2. hand'.id # <<"refresh", 0, s>>
        BY <1>1, <4>1 DEF HandActive, Idle
      <4>q. QED BY <4>1, <4>2 DEF Pending, RefreshWaits
    <3>q. QED BY <3>1, <3>2
  <2>7. Heard("toppedup") => PendingPSC'
    <3>1. CASE news[1].kind # "toppedup"
      BY <1>1, <3>1, HeardTail DEF PendingPSC
    <3>2. CASE news[1].kind = "toppedup"
      <4>1. AddAfterTopUp(news[1].amount)
        BY <1>3, <3>2 DEF TakeEvent
      <4>2. \E s \in Slots : after'[s].tries > 0
        BY <4>1, TryLimits DEF AddAfterTopUp, TypeOK
      <4>q. QED BY <4>2 DEF PendingPSC
    <3>q. QED BY <3>1, <3>2
  <2>8. (\E s \in Slots : after[s].tries > 0) => PendingPSC'
    BY <2>3 DEF PendingPSC
  <2>q. QED BY <1>1, <2>1, <2>4, <2>5, <2>6, <2>7, <2>8, FreshKept DEF CacheInv
<1>q. QED BY <1>2, <1>3
\* Top-ups: the job of the event is there until the balances are to be refreshed.
LEMMA FreshTopUp ==
  ASSUME Typed, CacheInv,
         \/ ClientPreChannelTopUp \/ checkAndCreateAutoIncreaseJob
         \/ \E a \in Amounts : TopUpChannel(a)
  PROVE  CacheInv'
<1> USE DEF Typed
<1>1. UNCHANGED <<chain, row, hand, news, job, ui, harm>>
  BY DEF ClientPreChannelTopUp, checkAndCreateAutoIncreaseJob, TopUpChannel, history
<1>2. \A s \in Slots : after'[s].tries = after[s].tries
  <2>1. CASE after' = after
    BY <2>1
  <2>2. CASE after' = [s \in Slots |-> [after[s] EXCEPT !.fresh = FALSE]]
    BY <2>2 DEF TypeOK, After
  <2>q. QED BY <2>1, <2>2 DEF ClientPreChannelTopUp, checkAndCreateAutoIncreaseJob, TopUpChannel, AddTopUp
<1>3. RowMade'
  BY <1>1, <1>2 DEF CacheInv, RowMade
<1>q. QED BY <1>1, <1>2, <1>3, FreshKept DEF CacheInv, Heard, Pending, PendingPSC, RefreshWaits

\* What the job of a top-up event can do to itself and to the jobs to refresh.
LEMMA AfterTopUpDoes ==
  ASSUME Typed, NEW s \in Slots, ClientAfterChannelTopUp(s)
  PROVE  /\ after[s].tries > 0 /\ UNCHANGED <<chain, pool, row, hand, news, ui>> /\ (harm => harm')
         /\ <<"refresh", 0, 0>> \in Ids /\ (hand.id # Idle => hand.id \in Ids /\ job[hand.id] > 0)
         /\ \/ job[<<"refresh", 0, 0>>] = 0 /\ job' = [job EXCEPT ![<<"refresh", 0, 0>>] = TryLimit]
            \/ /\ job[<<"refresh", 0, 0>>] > 0 /\ job' = job
               /\ \/ harm'
                  \/ after'[s].tries = after[s].tries - 1 /\ after[s].tries > 1
<1>1. <<"refresh", 0, 0>> \in Ids /\ (hand.id # Idle => hand.id \in Ids /\ job[hand.id] > 0)
  BY IdsShape DEF Typed, TypeOK, HandActive
<1>2. after[s].tries > 0 /\ UNCHANGED <<chain, pool, row, hand, news, ui>> /\ (harm => harm')
  <2>1. after[s].tries > 0 /\ UNCHANGED <<chain, pool, row, hand, news, ui>>
    BY DEF ClientAfterChannelTopUp
  <2>2. harm' = harm \/ harm' = (harm \/ after[s].tries = 1)
    BY DEF ClientAfterChannelTopUp
  <2>3. harm => harm'
    <3>1. CASE harm' = harm
      BY <3>1
    <3>2. CASE harm' = (harm \/ after[s].tries = 1)
      BY <3>2
    <3>q. QED BY <2>2, <3>1, <3>2
  <2>q. QED BY <2>1, <2>3
<1>3. CASE job[<<"refresh", 0, 0>>] = 0 /\ job' = [job EXCEPT ![<<"refresh", 0, 0>>] = TryLimit]
  BY <1>1, <1>2, <1>3
<1>4. CASE /\ job[<<"refresh", 0, 0>>] > 0 /\ job' = job /\ harm' = (harm \/ after[s].tries = 1)
           /\ after' = [after EXCEPT ![s] = IF after[s].tries = 1 THEN NoAfter ELSE [after[s] EXCEPT !.tries = @ - 1]]
  <2>1. after \in [Slots -> After] /\ after[s] \in After /\ after[s].tries \in Nat
    BY DEF Typed, TypeOK, After
  <2>2. CASE after[s].tries = 1
    BY <1>1, <1>2, <1>4, <2>2
  <2>3. CASE after[s].tries # 1
    <3> PICK v : v = after[s].tries - 1
      OBVIOUS
    <3>1. after' = [after EXCEPT ![s] = [after[s] EXCEPT !.tries = v]]
      BY <1>4, <2>3
    <3>2. after'[s].tries = v /\ after[s].tries > 1
      BY <1>2, <2>1, <2>3, <3>1 DEF After
    <3>q. QED BY <1>1, <1>2, <1>4, <3>2
  <2>q. QED BY <2>2, <2>3
<1>q. QED BY <1>3, <1>4 DEF ClientAfterChannelTopUp

\* It ends only with a job to refresh, or is given up.
LEMMA FreshAfter == ASSUME Typed, CacheInv, NEW s \in Slots, ClientAfterChannelTopUp(s) PROVE CacheInv'
<1> USE DEF Typed
<1> DEFINE x == <<"refresh", 0, 0>>
<1>1. after[s].tries > 0 /\ UNCHANGED <<chain, row, hand, news, ui>> /\ (harm => harm') /\ x \in Ids
  BY AfterTopUpDoes
<1>0. row.made
  BY <1>1, Made DEF CacheInv
<1>2. RowMade'
  BY <1>0, <1>1 DEF CacheInv, RowMade
<1>3. \A y \in Ids : job[y] > 0 => job'[y] > 0
  BY AfterTopUpDoes, TryLimits DEF TypeOK
<1>4. \A y \in Ids : RefreshWaits(y) => RefreshWaits(y)'
  BY <1>1, <1>3 DEF RefreshWaits
<1>5. CASE job[x] = 0
  <2>1. job' = [job EXCEPT ![x] = TryLimit] /\ hand.id # x
    BY <1>1, <1>5, AfterTopUpDoes DEF Idle
  <2>2. job'[x] > 0
    BY <1>1, <2>1, TryLimits DEF TypeOK
  <2>3. Pending'
    BY <1>1, <2>1, <2>2 DEF Pending, RefreshWaits
  <2>q. QED BY <1>1, <1>2, <1>4, <2>3, FreshKept DEF CacheInv, PendingPSC
<1>6. CASE job[x] > 0
  <2>1. harm' \/ after'[s].tries > 0
    <3>1. harm' \/ (after'[s].tries = after[s].tries - 1 /\ after[s].tries > 1)
      BY <1>6, AfterTopUpDoes
    <3>2. after[s].tries \in Nat
      BY DEF TypeOK, After
    <3>q. QED BY <3>1, <3>2
  <2>2. CASE harm'
    BY <1>2, <2>2 DEF CacheInv, Fresh
  <2>3. CASE after'[s].tries > 0
    BY <1>1, <1>2, <1>4, <2>3, FreshKept DEF CacheInv, Heard, Pending, PendingPSC
  <2>q. QED BY <2>1, <2>2, <2>3
<1>7. job[x] \in Nat
  BY <1>1 DEF TypeOK
<1>q. QED BY <1>5, <1>6, <1>7

\* A refresh that fails runs again, or is given up.
LEMMA FreshFault == ASSUME Typed, CacheInv, HandlerFails \/ Crash PROVE CacheInv'
<1> USE DEF Typed
<1>1. UNCHANGED <<chain, row, news, after>> /\ (harm => harm') /\ hand' = NoHand /\ (ui' = ui \/ ui' = NoUi)
  <2>1. CASE HandlerFails
    BY <2>1 DEF HandlerFails, Retry, channel
  <2>2. CASE Crash
    BY <2>2 DEF Crash, channel
  <2>q. QED BY <2>1, <2>2
<1>2. RowMade'
  <2>1. CASE hand.id # Idle
    BY <1>1, <2>1, Made, NoneTyped, IdsShape DEF CacheInv, RowMade, NoUi
  <2>2. CASE ui.open
    BY <1>1, <2>2, NoneTyped, IdsShape DEF CacheInv, RowMade, NoUi
  <2>q. QED BY <2>1, <2>2 DEF HandlerFails, Crash
<1>3. \A x \in Ids : x # hand.id => job'[x] = job[x]
  BY EndsRetry DEF HandlerFails, Crash, TypeOK
<1>4. \A x \in Ids : RefreshWaits(x) => RefreshWaits(x)'
  BY <1>1, <1>3, NoneTyped, IdsShape DEF RefreshWaits
<1>5. CASE hand.id[1] # "refresh"
  BY <1>1, <1>2, <1>4, <1>5, NoneTyped, IdsShape, FreshKept DEF CacheInv, Heard, Pending, PendingPSC
<1>6. CASE hand.id[1] = "refresh"
  <2>1. hand.id \in Ids /\ job[hand.id] > 0 /\ hand.id # Idle
    BY <1>6, IdsShape DEF HandActive, TypeOK
  <2>2. harm' \/ job'[hand.id] > 0
    <3>1. CASE Crash
      BY <2>1, <3>1 DEF Crash
    <3>2. CASE Retry
      <4>1. job[hand.id] \in Nat
        BY <2>1 DEF TypeOK
      <4>2. job'[hand.id] = job[hand.id] - 1
        BY <2>1, <3>2 DEF Retry, TypeOK
      <4>3. job[hand.id] = 1 => harm'
        BY <1>6, <3>2 DEF Retry
      <4>q. QED BY <2>1, <4>1, <4>2, <4>3
    <3>q. QED BY <3>1, <3>2 DEF HandlerFails
  <2>3. job'[hand.id] > 0 => Pending'
    BY <1>1, <1>6, <2>1, NoneTyped DEF Pending, RefreshWaits
  <2>q. QED BY <1>1, <1>2, <2>2, <2>3, NoneTyped, IdsShape DEF CacheInv, Fresh, PendingPSC
<1>q. QED BY <1>5, <1>6

\* Whatever is mined between the reads of a refresh, while the row, or what a
\* running refresh will write to it, is not up to date, another one is to come.
THEOREM CacheInvCorrect == Spec => []CacheInv
<1>1. Init => CacheInv
  <2> SUFFICES ASSUME Init PROVE CacheInv OBVIOUS
  <2>q. QED BY NoneTyped, IdsShape DEF Init, CacheInv, RowMade, Fresh, NoRow, NoUi, NoAfter
<1>2. Typed /\ CacheInv /\ [Next]_vars => CacheInv'
  <2> SUFFICES ASSUME Typed, CacheInv, [Next]_vars PROVE CacheInv' OBVIOUS
  <2>1. CASE \E x \in Ids : Start(x)
    BY <2>1, FreshStart
  <2>2. CASE PreAccountAddBalanceApprove \/ AfterAccountAddBalanceApprove \/ PreAccountAddBalance \/ PreAccountReturnBalance
    BY <2>2, FreshHandler
  <2>3. CASE ReadPSCBalance \/ updateBalances
    BY <2>3, FreshRefresh
  <2>4. CASE UpdateAccount
    BY <2>4, FreshEdit
  <2>5. CASE \E s \in Slots : ClientAfterChannelTopUp(s)
    BY <2>5, FreshAfter
  <2>6. CASE GenerateAccount \/ ImportAccount
    BY <2>6, FreshAccount
  <2>7. CASE \/ \E r \in Requests, to \in Contracts, a \in Amounts : TransferTokens(r, to, a)
             \/ UpdateBalance \/ UpdateAccountRead \/ Consume
    BY <2>7, FreshUser
  <2>8. CASE ClientPreChannelTopUp \/ checkAndCreateAutoIncreaseJob \/ \E a \in Amounts : TopUpChannel(a)
    BY <2>8, FreshTopUp
  <2>9. CASE Mine \/ \E a \in Amounts : Receive(a)
    BY <2>9, FreshContract
  <2>10. CASE TakeEvent
    BY <2>10, FreshTake
  <2>11. CASE HandlerFails \/ Crash
    BY <2>11, FreshFault
  <2>12. CASE UNCHANGED vars
    BY <2>12 DEF vars, channel, CacheInv, RowMade, Fresh, Pending, PendingPSC, Heard, RefreshWaits
  <2>q. QED BY <2>1, <2>2, <2>3, <2>4, <2>5, <2>6, <2>7, <2>8, <2>9, <2>10, <2>11, <2>12 DEF Next, Work, User
<1>q. QED BY <1>1, <1>2, TypeCorrect, PTL DEF Spec, Typed

\* Once nothing is left to do the cached balances are those of the contracts,
\* unless a row was overwritten, the account taken out of use or a refresh given up.
THEOREM CacheCorrect == Spec => []CacheSettles
<1>1. TypeOK /\ CacheInv => CacheSettles
  BY IdsShape DEF TypeOK, CacheInv, Fresh, CacheSettles, Settled, Pending, PendingPSC, Heard, RefreshWaits
<1>q. QED BY <1>1, TypeCorrect, CacheInvCorrect, PTL
-----------------------------------------------------------------------------
(* Top-ups.  The monitor asks for a top-up only if there was none yet, or  *)
(* the event of the last one has become a job: then nothing of it is left  *)
(* in the pool or in the news, and the job that sent it is not active.     *)

AtMostOne(q, k) == \A i, j \in DOMAIN q : q[i].kind = k /\ q[j].kind = k => i = j
No(q, k) == \A i \in DOMAIN q : q[i].kind # k

\* The last top-up has come through, or there was none.
Through == ~ch.asked \/ ch.done \/ \E s \in Slots : after[s].fresh /\ after[s].tries > 0

OnlyOne ==
  /\ AtMostOne(pool, "topup") /\ AtMostOne(news, "toppedup")
  /\ No(pool, "topup") \/ No(news, "toppedup")
  /\ ch.pre > 0 => No(pool, "topup") /\ No(news, "toppedup")
  /\ Through => ch.pre = 0 /\ No(pool, "topup") /\ No(news, "toppedup")

TopUpInv == ~byUser /\ count.faults = 0 => OnlyOne

\* No event or transaction of a kind, or one, after one more ...
LEMMA KindAppend ==
  ASSUME NEW S, NEW q \in Seq(S), NEW e, NEW k
  PROVE  /\ No(q, k) /\ e.kind # k => No(Append(q, e), k)
         /\ AtMostOne(q, k) /\ e.kind # k => AtMostOne(Append(q, e), k)
         /\ No(q, k) => AtMostOne(Append(q, e), k)
<1>1. /\ Len(q) \in Nat /\ DOMAIN q = 1 .. Len(q) /\ DOMAIN Append(q, e) = 1 .. Len(q) + 1
      /\ Append(q, e)[Len(q) + 1] = e /\ \A i \in 1 .. Len(q) : Append(q, e)[i] = q[i]
  OBVIOUS
<1>2. \A i \in 1 .. Len(q) + 1 : i = Len(q) + 1 \/ i \in 1 .. Len(q)
  BY <1>1
<1>q. QED BY <1>1, <1>2 DEF No, AtMostOne

\* ... and without the first.
LEMMA KindTail ==
  ASSUME NEW S, NEW q \in Seq(S), q # <<>>, NEW k
  PROVE  /\ No(q, k) => No(Tail(q), k)
         /\ AtMostOne(q, k) => AtMostOne(Tail(q), k)
         /\ AtMostOne(q, k) /\ q[1].kind = k => No(Tail(q), k)
<1>1. /\ Len(q) \in Nat \ {0} /\ DOMAIN q = 1 .. Len(q) /\ DOMAIN Tail(q) = 1 .. Len(q) - 1
      /\ \A i \in 1 .. Len(q) - 1 : Tail(q)[i] = q[i + 1]
  OBVIOUS
<1>2. \A i \in 1 .. Len(q) - 1 : i + 1 \in 1 .. Len(q) /\ i + 1 # 1
  BY <1>1
<1>3. No(q, k) => No(Tail(q), k)
  BY <1>1, <1>2 DEF No
<1>4. AtMostOne(q, k) => AtMostOne(Tail(q), k)
  <2> SUFFICES ASSUME AtMostOne(q, k), NEW i \in 1 .. Len(q) - 1, NEW j \in 1 .. Len(q) - 1,
                      Tail(q)[i].kind = k, Tail(q)[j].kind = k
               PROVE  i = j
    BY <1>1 DEF AtMostOne
  <2>1. i + 1 = j + 1
    BY <1>1, <1>2 DEF AtMostOne
  <2>q. QED BY <2>1
<1>5. AtMostOne(q, k) /\ q[1].kind = k => No(Tail(q), k)
  BY <1>1, <1>2 DEF No, AtMostOne
<1>q. QED BY <1>3, <1>4, <1>5

\* Faults are counted: while there is none, no step was one.
LEMMA NoFault ==
  ASSUME TypeOK, NEW k \in {"requests", "used", "topups", "received", "updates", "faults"}, NEW max, Bounded(k, max)
  PROVE  count'.faults = 0 => count.faults = 0 /\ k # "faults"
  BY DEF TypeOK, Bounded

\* A step that has nothing to do with top-ups.
LEMMA TopUpKept ==
  ASSUME TypeOK, TopUpInv, UNCHANGED <<ch, after, byUser>>,
         count'.faults = 0 => count.faults = 0,
         pool' = pool \/ \E t : t.kind # "topup" /\ pool' = Append(pool, t),
         news' = news \/ \E e : e.kind # "toppedup" /\ news' = Append(news, e)
  PROVE  TopUpInv'
<1>1. pool \in Seq(Tx) /\ news \in Seq(Event)
  BY DEF TypeOK
<1>2. (No(pool, "topup") => No(pool', "topup")) /\ (AtMostOne(pool, "topup") => AtMostOne(pool', "topup"))
  BY <1>1, KindAppend
<1>3. (No(news, "toppedup") => No(news', "toppedup")) /\ (AtMostOne(news, "toppedup") => AtMostOne(news', "toppedup"))
  BY <1>1, KindAppend
<1>4. Through' = Through
  BY DEF Through
<1>q. QED BY <1>2, <1>3, <1>4 DEF TopUpInv, OnlyOne

\* The handlers of the account, their faults counted.
LEMMA TopUpHandler ==
  ASSUME Typed, TopUpInv,
         \/ \E x \in Ids : Start(x)
         \/ PreAccountAddBalanceApprove \/ AfterAccountAddBalanceApprove
         \/ PreAccountAddBalance \/ PreAccountReturnBalance
         \/ ReadPSCBalance \/ updateBalances \/ HandlerFails \/ Crash
  PROVE  TopUpInv'
<1> USE DEF Typed
<1>1. CASE HandlerFails \/ Crash
  <2>1. count'.faults # 0
    BY <1>1, NoFault DEF HandlerFails, Crash
  <2>q. QED BY <2>1 DEF TopUpInv
<1>2. CASE \E x \in Ids : Start(x)
  BY <1>2, TopUpKept DEF Start, channel, history
<1>3. CASE ReadPSCBalance
  BY <1>3, TopUpKept DEF ReadPSCBalance, channel, history
<1>4. \A next : Finish(next) => (count'.faults = 0 => count.faults = 0)
  BY NoFault DEF Finish
<1>5. CASE updateBalances
  BY <1>4, <1>5, TopUpKept DEF updateBalances, channel, history
<1>6. \A k, a, b : Send(k, a, b) /\ k # "topup" => \E t : t.kind # "topup" /\ pool' = Append(pool, t)
  BY DEF Send
<1>7. CASE PreAccountAddBalanceApprove
  <2>1. count'.faults = 0 => count.faults = 0
    BY <1>4, <1>7 DEF PreAccountAddBalanceApprove, Refused
  <2>2. pool' = pool \/ \E t : t.kind # "topup" /\ pool' = Append(pool, t)
    BY <1>6, <1>7 DEF PreAccountAddBalanceApprove, Refused
  <2>q. QED BY <1>7, <2>1, <2>2, TopUpKept DEF PreAccountAddBalanceApprove, channel
<1>8. CASE AfterAccountAddBalanceApprove
  BY <1>4, <1>8, TopUpKept DEF AfterAccountAddBalanceApprove, channel, history
<1>9. CASE PreAccountAddBalance
  <2>1. count'.faults = 0 => count.faults = 0
    BY <1>4, <1>9 DEF PreAccountAddBalance, Refused
  <2>2. pool' = pool \/ \E t : t.kind # "topup" /\ pool' = Append(pool, t)
    BY <1>6, <1>9 DEF PreAccountAddBalance, Refused
  <2>q. QED BY <1>9, <2>1, <2>2, TopUpKept DEF PreAccountAddBalance, channel
<1>10. CASE PreAccountReturnBalance
  <2>1. count'.faults = 0 => count.faults = 0
    BY <1>4, <1>10 DEF PreAccountReturnBalance, Refused
  <2>2. pool' = pool \/ \E t : t.kind # "topup" /\ pool' = Append(pool, t)
    BY <1>6, <1>10 DEF PreAccountReturnBalance, Refused
  <2>q. QED BY <1>10, <2>1, <2>2, TopUpKept DEF PreAccountReturnBalance, channel
<1>q. QED BY <1>1, <1>2, <1>3, <1>5, <1>7, <1>8, <1>9, <1>10

\* What has nothing to do with the channel.
LEMMA TopUpOthers ==
  ASSUME Typed, TopUpInv,
         \/ GenerateAccount \/ ImportAccount \/ UpdateBalance \/ UpdateAccountRead \/ UpdateAccount
         \/ \E r \in Requests, to \in Contracts, a \in Amounts : TransferTokens(r, to, a)
         \/ \E a \in Amounts : Receive(a)
  PROVE  TopUpInv'
<1> USE DEF Typed
<1>1. UNCHANGED <<ch, after, byUser, pool>>
  BY DEF GenerateAccount, ImportAccount, UpdateBalance, UpdateAccountRead, UpdateAccount, TransferTokens, Receive, channel, history
<1>2. count'.faults = 0 => count.faults = 0
  BY NoFault DEF GenerateAccount, ImportAccount, UpdateBalance, UpdateAccountRead, UpdateAccount, TransferTokens, Receive
<1>3. news' = news \/ \E e : e.kind # "toppedup" /\ news' = Append(news, e)
  <2>1. CASE \E a \in Amounts : Receive(a)
    <3>1. news' = Append(news, [kind |-> "transfer", req |-> 0, amount |-> 0])
      BY <2>1 DEF Receive
    <3>q. QED BY <3>1
  <2>q. QED BY <2>1 DEF GenerateAccount, ImportAccount, UpdateBalance, UpdateAccountRead, UpdateAccount, TransferTokens
<1>q. QED BY <1>1, <1>2, <1>3, TopUpKept

\* The channel is used, or topped up by the user or the monitor.
LEMMA TopUpAsked ==
  ASSUME Typed, TopUpInv,
         Consume \/ checkAndCreateAutoIncreaseJob \/ \E a \in Amounts : TopUpChannel(a)
  PROVE  TopUpInv'
<1> USE DEF Typed
<1>1. CASE \E a \in Amounts : TopUpChannel(a)
  BY <1>1 DEF TopUpChannel, TopUpInv
<1>2. CASE Consume
  <2>1. ch'.pre = ch.pre /\ ch'.asked = ch.asked /\ ch'.done = ch.done
    BY <1>2 DEF Consume, TypeOK, Channel
  <2>2. UNCHANGED <<pool, news, after, byUser>> /\ (count'.faults = 0 => count.faults = 0)
    BY <1>2, NoFault DEF Consume, history
  <2>q. QED BY <2>1, <2>2 DEF TopUpInv, OnlyOne, Through
<1>3. CASE checkAndCreateAutoIncreaseJob
  <2>1. UNCHANGED <<pool, news, byUser>> /\ (count'.faults = 0 => count.faults = 0) /\ AddTopUp(ch.dep)
    BY <1>3, NoFault DEF checkAndCreateAutoIncreaseJob, AddTopUp, history
  <2>2. Through
    BY <1>3 DEF checkAndCreateAutoIncreaseJob, notMinedChannelTopUpExists, Through
  <2>3. ch'.asked /\ ~ch'.done
    BY <2>1 DEF AddTopUp, TypeOK, Channel
  <2>4. \A s \in Slots : ~after'[s].fresh
    BY <2>1 DEF AddTopUp, TypeOK, After
  <2>5. ~Through'
    BY <2>3, <2>4 DEF Through
  <2>q. QED BY <2>1, <2>2, <2>5 DEF TopUpInv, OnlyOne
<1>q. QED BY <1>1, <1>2, <1>3

\* The job to top up sends its transaction, and is not run again.
LEMMA TopUpSent == ASSUME Typed, TopUpInv, ClientPreChannelTopUp PROVE TopUpInv'
<1> USE DEF Typed
<1>1. ch.pre > 0 /\ UNCHANGED <<news, after, byUser>>
  BY DEF ClientPreChannelTopUp, history
<1>2. ch'.asked = ch.asked /\ ch'.done = ch.done
  BY DEF ClientPreChannelTopUp, TypeOK, Channel
<1>3. Through' = Through
  BY <1>1, <1>2 DEF Through
<1>4. pool \in Seq(Tx) /\ ch.pre \in Nat
  BY DEF TypeOK, Channel
<1>5. CASE pool' = Append(pool, [kind |-> "topup", amount |-> ch.amount, req |-> 0]) /\ ch' = [ch EXCEPT !.pre = 0] /\ UNCHANGED count
  <2>1. ch'.pre = 0
    BY <1>5 DEF TypeOK, Channel
  <2>2. No(pool, "topup") => AtMostOne(pool', "topup")
    BY <1>4, <1>5, KindAppend
  <2>q. QED BY <1>1, <1>3, <1>5, <2>1, <2>2 DEF TopUpInv, OnlyOne
<1>6. CASE Bounded("faults", MaxFaults)
  <2>1. count'.faults # 0
    BY <1>6, NoFault
  <2>q. QED BY <2>1 DEF TopUpInv
<1>7. CASE ch' = [ch EXCEPT !.pre = @ - 1] /\ UNCHANGED <<pool, count>>
  BY <1>1, <1>3, <1>7 DEF TopUpInv, OnlyOne
<1>q. QED BY <1>5, <1>6, <1>7 DEF ClientPreChannelTopUp

\* The job of the event ends.
LEMMA TopUpDone == ASSUME Typed, TopUpInv, NEW s \in Slots, ClientAfterChannelTopUp(s) PROVE TopUpInv'
<1> USE DEF Typed
<1>1. after[s].tries > 0 /\ UNCHANGED <<pool, news, byUser>>
  BY DEF ClientAfterChannelTopUp, history
<1>2. ch'.pre = ch.pre /\ ch'.asked = ch.asked /\ (ch'.done => ch.done \/ after[s].fresh)
  BY DEF ClientAfterChannelTopUp, TypeOK, Channel
<1>3. \A t \in Slots : after'[t].fresh /\ after'[t].tries > 0 => after[t].fresh /\ after[t].tries > 0
  <2> PICK v : v = after[s].tries - 1
    OBVIOUS
  <2>1. after' = after \/ after' = [after EXCEPT ![s] = NoAfter] \/ after' = [after EXCEPT ![s] = [after[s] EXCEPT !.tries = v]]
    BY DEF ClientAfterChannelTopUp
  <2>2. after \in [Slots -> After] /\ ~(NoAfter.tries > 0)
    BY DEF TypeOK, NoAfter
  <2>3. [after[s] EXCEPT !.tries = v].fresh = after[s].fresh
    BY <2>2 DEF After
  <2>4. \A t \in Slots : t # s => after'[t] = after[t]
    BY <2>1, <2>2
  <2>5. after'[s] \in {after[s], NoAfter, [after[s] EXCEPT !.tries = v]}
    BY <2>1, <2>2
  <2>6. after'[s].tries > 0 => after'[s].fresh = after[s].fresh
    <3>1. CASE after'[s] = NoAfter
      BY <2>2, <3>1
    <3>2. CASE after'[s] = [after[s] EXCEPT !.tries = v]
      BY <2>3, <3>2
    <3>q. QED BY <2>5, <3>1, <3>2
  <2>q. QED BY <1>1, <2>4, <2>6
<1>4. Through' => Through
  BY <1>1, <1>2, <1>3 DEF Through
<1>5. count'.faults = 0 => count.faults = 0
  BY NoFault DEF ClientAfterChannelTopUp
<1>q. QED BY <1>1, <1>2, <1>4, <1>5 DEF TopUpInv, OnlyOne

\* The transaction is mined: its event is the only one.
LEMMA TopUpMined == ASSUME Typed, TopUpInv, Mine PROVE TopUpInv'
<1> USE DEF Typed
<1>1. /\ pool \in Seq(Tx) /\ pool # <<>> /\ pool' = Tail(pool) /\ news \in Seq(Event)
      /\ UNCHANGED <<ch, after, byUser, count>>
  BY Mined DEF TypeOK
<1>2. Through' = Through
  BY <1>1 DEF Through
<1>3. /\ No(pool, "topup") => No(pool', "topup")
      /\ AtMostOne(pool, "topup") => AtMostOne(pool', "topup")
      /\ AtMostOne(pool, "topup") /\ pool[1].kind = "topup" => No(pool', "topup")
  BY <1>1, KindTail
<1>4. CASE news' = news
  BY <1>1, <1>2, <1>3, <1>4 DEF TopUpInv, OnlyOne
<1>5. CASE pool[1].kind # "topup" /\ \E e : e.kind # "toppedup" /\ news' = Append(news, e)
  <2>1. (No(news, "toppedup") => No(news', "toppedup")) /\ (AtMostOne(news, "toppedup") => AtMostOne(news', "toppedup"))
    BY <1>1, <1>5, KindAppend
  <2>q. QED BY <1>1, <1>2, <1>3, <2>1 DEF TopUpInv, OnlyOne
<1>6. CASE pool[1].kind = "topup" /\ \E e : news' = Append(news, e)
  <2>1. ~No(pool, "topup")
    BY <1>1, <1>6 DEF No
  <2>2. No(news, "toppedup") => AtMostOne(news', "toppedup")
    BY <1>1, <1>6, KindAppend
  <2>q. QED BY <1>1, <1>2, <1>3, <1>6, <2>1, <2>2 DEF TopUpInv, OnlyOne
<1>7. \/ news' = news
      \/ pool[1].kind # "topup" /\ \E e : e.kind # "toppedup" /\ news' = Append(news, e)
      \/ pool[1].kind = "topup" /\ \E e : news' = Append(news, e)
  <2>1. ASSUME NEW k \in {"approval", "transfer"}, NEW r, news' = Append(news, [kind |-> k, req |-> r, amount |-> 0])
        PROVE  \E e : e.kind # "toppedup" /\ news' = Append(news, e)
    BY <2>1
  <2>q. QED BY <2>1 DEF Mine
<1>q. QED BY <1>4, <1>5, <1>6, <1>7

\* The event is heard: nothing of the top-up is left but its job.
LEMMA TopUpHeard == ASSUME Typed, TopUpInv, TakeEvent PROVE TopUpInv'
<1> USE DEF Typed
<1>1. news \in Seq(Event) /\ news # <<>> /\ news' = Tail(news) /\ UNCHANGED <<ch, pool, byUser, count>>
  BY DEF TakeEvent, TypeOK, history
<1>2. /\ No(news, "toppedup") => No(news', "toppedup")
      /\ AtMostOne(news, "toppedup") => AtMostOne(news', "toppedup")
      /\ AtMostOne(news, "toppedup") /\ news[1].kind = "toppedup" => No(news', "toppedup")
  BY <1>1, KindTail
<1>3. CASE after' = after
  BY <1>1, <1>2, <1>3 DEF TopUpInv, OnlyOne, Through
<1>4. CASE news[1].kind = "toppedup"
  <2>1. ~No(news, "toppedup")
    BY <1>1, <1>4 DEF No
  <2>q. QED BY <1>1, <1>2, <1>4, <2>1 DEF TopUpInv, OnlyOne, TypeOK, Channel
<1>q. QED BY <1>3, <1>4 DEF TakeEvent

\* While there are no faults and the user does not top up, a top-up is in one
\* place: its job, its transaction, its event or the job of the event.
THEOREM TopUpInvCorrect == Spec => []TopUpInv
<1>1. Init => TopUpInv
  BY DEF Init, TopUpInv, OnlyOne, AtMostOne, No
<1>2. Typed /\ TopUpInv /\ [Next]_vars => TopUpInv'
  <2> SUFFICES ASSUME Typed, TopUpInv, [Next]_vars PROVE TopUpInv' OBVIOUS
  <2>1. CASE \/ \E x \in Ids : Start(x)
             \/ PreAccountAddBalanceApprove \/ AfterAccountAddBalanceApprove
             \/ PreAccountAddBalance \/ PreAccountReturnBalance
             \/ ReadPSCBalance \/ updateBalances \/ HandlerFails \/ Crash
    BY <2>1, TopUpHandler
  <2>2. CASE \/ GenerateAccount \/ ImportAccount \/ UpdateBalance \/ UpdateAccountRead \/ UpdateAccount
             \/ \E r \in Requests, to \in Contracts, a \in Amounts : TransferTokens(r, to, a)
             \/ \E a \in Amounts : Receive(a)
    BY <2>2, TopUpOthers
  <2>3. CASE Consume \/ checkAndCreateAutoIncreaseJob \/ \E a \in Amounts : TopUpChannel(a)
    BY <2>3, TopUpAsked
  <2>4. CASE ClientPreChannelTopUp
    BY <2>4, TopUpSent
  <2>5. CASE \E s \in Slots : ClientAfterChannelTopUp(s)
    BY <2>5, TopUpDone
  <2>6. CASE Mine
    BY <2>6, TopUpMined
  <2>7. CASE TakeEvent
    BY <2>7, TopUpHeard
  <2>8. CASE UNCHANGED vars
    BY <2>8 DEF vars, channel, history, TopUpInv, OnlyOne, Through
  <2>q. QED BY <2>1, <2>2, <2>3, <2>4, <2>5, <2>6, <2>7, <2>8 DEF Next, Work, User
<1>q. QED BY <1>1, <1>2, TypeCorrect, PTL DEF Spec, Typed

\* Of the top-ups the monitor asks for no two are under way, from the job to the
\* event, unless the user tops up as well or a job is run twice.
THEOREM TopUpsCorrect == Spec => []OneTopUpUnderWay
<1>1. TypeOK /\ TopUpInv => OneTopUpUnderWay
  <2> SUFFICES ASSUME TypeOK, TopUpInv, ~byUser, count.faults = 0 PROVE UnderWay <= 1
    BY DEF OneTopUpUnderWay
  <2> DEFINE P == {i \in DOMAIN pool : pool[i].kind = "topup"}
             N == {i \in DOMAIN news : news[i].kind = "toppedup"}
  <2>1. OnlyOne
    BY DEF TopUpInv
  <2>2. /\ P = {} \/ \E i : P = {i}
        /\ N = {} \/ \E i : N = {i}
    <3>1. \A i, j \in P : i = j
      BY <2>1 DEF OnlyOne, AtMostOne
    <3>2. \A i, j \in N : i = j
      BY <2>1 DEF OnlyOne, AtMostOne
    <3>3. ASSUME NEW X, \A i, j \in X : i = j PROVE X = {} \/ \E i : X = {i}
      <4>1. ASSUME NEW i \in X PROVE X = {i}
        BY <3>3, <4>1
      <4>q. QED BY <4>1
    <3> HIDE DEF P, N
    <3>q. QED BY <3>1, <3>2, <3>3
  <2>3. /\ P = {} \/ N = {}
        /\ ch.pre > 0 => P = {} /\ N = {}
    BY <2>1 DEF OnlyOne, No
  <2>4. /\ Cardinality(P) \in {0, 1} /\ (P = {} => Cardinality(P) = 0)
        /\ Cardinality(N) \in {0, 1} /\ (N = {} => Cardinality(N) = 0)
    BY <2>2, FS_EmptySet, FS_Singleton
  <2> HIDE DEF P, N
  <2>5. Cardinality(P) + Cardinality(N) + (IF ch.pre > 0 THEN 1 ELSE 0) <= 1
    BY <2>3, <2>4
  <2>q. QED BY <2>5 DEF UnderWay, P, N
<1>q. QED BY <1>1, TypeCorrect, TopUpInvCorrect, PTL
-----------------------------------------------------------------------------
(* What is asked for.  Each job is that of a request made, and so is each  *)
(* approval, in the pool and among the events.                             *)

Whose(kind) == IF kind = "return" THEN "ptc" ELSE "psc"
AskedOf(c) == {r \in Requests : r <= count.requests /\ asked[r].to = c}
Within(q, k, A) == \A i \in DOMAIN q : q[i].kind = k /\ q[i].req # 0 => q[i].req \in A

JobsAsked ==
  /\ \A x \in Ids : job[x] > 0 /\ x[1] # "refresh" => x[2] \in AskedOf(Whose(x[1]))
  /\ Within(pool, "approve", AskedOf("psc"))
  /\ Within(news, "approval", AskedOf("psc"))

\* A queue stays within what was asked for, when that grows, without its first and with one more.
LEMMA WithinKept ==
  ASSUME NEW S, NEW q \in Seq(S), NEW k, NEW A, NEW B, A \subseteq B, Within(q, k, A)
  PROVE  /\ Within(q, k, B)
         /\ q # <<>> => Within(Tail(q), k, B) /\ (q[1].kind = k /\ q[1].req # 0 => q[1].req \in B)
         /\ \A e : (e.kind = k /\ e.req # 0 => e.req \in B) => Within(Append(q, e), k, B)
<1>1. Len(q) \in Nat /\ DOMAIN q = 1 .. Len(q)
  OBVIOUS
<1>2. Within(q, k, B)
  BY DEF Within
<1>3. ASSUME q # <<>> PROVE Within(Tail(q), k, B) /\ (q[1].kind = k /\ q[1].req # 0 => q[1].req \in B)
  <2>1. /\ Len(q) # 0 /\ DOMAIN Tail(q) = 1 .. Len(q) - 1
        /\ \A i \in 1 .. Len(q) - 1 : Tail(q)[i] = q[i + 1]
    BY <1>3
  <2>2. 1 \in DOMAIN q /\ \A i \in 1 .. Len(q) - 1 : i + 1 \in DOMAIN q
    BY <1>1, <2>1
  <2>q. QED BY <1>2, <2>1, <2>2 DEF Within
<1>4. ASSUME NEW e, e.kind = k /\ e.req # 0 => e.req \in B PROVE Within(Append(q, e), k, B)
  <2>1. /\ DOMAIN Append(q, e) = 1 .. Len(q) + 1
        /\ Append(q, e)[Len(q) + 1] = e /\ \A i \in 1 .. Len(q) : Append(q, e)[i] = q[i]
    OBVIOUS
  <2>2. \A i \in 1 .. Len(q) + 1 : i = Len(q) + 1 \/ i \in DOMAIN q
    BY <1>1
  <2>q. QED BY <1>1, <1>2, <1>4, <2>1, <2>2 DEF Within
<1>q. QED BY <1>2, <1>3, <1>4

\* One more of anything but requests.
LEMMA NotAsked ==
  ASSUME TypeOK, NEW k \in {"used", "topups", "received", "updates", "faults"}, NEW max, Bounded(k, max)
  PROVE  count'.requests = count.requests
  BY DEF TypeOK, Bounded

\* A step that adds jobs, transactions and events for requests made only.
LEMMA AskedKept ==
  ASSUME TypeOK, JobsAsked, \A c : AskedOf(c) \subseteq AskedOf(c)',
         \A x \in Ids : job'[x] > 0 /\ x[1] # "refresh" => job[x] > 0 \/ x[2] \in AskedOf(Whose(x[1]))',
         \/ pool' = pool
         \/ (pool # <<>> /\ pool' = Tail(pool))
         \/ (\E t : pool' = Append(pool, t) /\ (t.kind = "approve" /\ t.req # 0 => t.req \in AskedOf("psc")')),
         \/ news' = news
         \/ (news # <<>> /\ news' = Tail(news))
         \/ (\E e : news' = Append(news, e) /\ (e.kind = "approval" /\ e.req # 0 => e.req \in AskedOf("psc")'))
  PROVE  JobsAsked'
<1> PICK A : A = AskedOf("psc")
  OBVIOUS
<1> PICK B : B = AskedOf("psc")'
  OBVIOUS
<1>1. A \subseteq B /\ pool \in Seq(Tx) /\ news \in Seq(Event)
  BY DEF TypeOK
<1>2. Within(pool', "approve", B)
  <2>1. Within(pool, "approve", A)
    BY DEF JobsAsked
  <2>2. /\ Within(pool, "approve", B)
        /\ pool # <<>> => Within(Tail(pool), "approve", B)
        /\ \A e : (e.kind = "approve" /\ e.req # 0 => e.req \in B) => Within(Append(pool, e), "approve", B)
    BY <1>1, <2>1, WithinKept
  <2>q. QED BY <2>2
<1>3. Within(news', "approval", B)
  <2>1. Within(news, "approval", A)
    BY DEF JobsAsked
  <2>2. /\ Within(news, "approval", B)
        /\ news # <<>> => Within(Tail(news), "approval", B)
        /\ \A e : (e.kind = "approval" /\ e.req # 0 => e.req \in B) => Within(Append(news, e), "approval", B)
    BY <1>1, <2>1, WithinKept
  <2>q. QED BY <2>2
<1>4. \A x \in Ids : job'[x] > 0 /\ x[1] # "refresh" => x[2] \in AskedOf(Whose(x[1]))'
  BY DEF JobsAsked, Whose
<1>5. Within(pool, "approve", AskedOf("psc"))' /\ Within(news, "approval", AskedOf("psc"))'
  BY <1>2, <1>3 DEF Within
<1>q. QED BY <1>4, <1>5 DEF JobsAsked, Whose

\* A step that makes no request.
LEMMA SameAsked ==
  ASSUME asked' = asked, count'.requests = count.requests
  PROVE  \A c : AskedOf(c)' = AskedOf(c)
  BY DEF AskedOf

\* The job of a handler that runs.
LEMMA HandAsked ==
  ASSUME Typed, JobsAsked, hand.id[1] \in Sending \cup {"after"}
  PROVE  /\ hand.id \in Ids /\ hand.id # Idle /\ job[hand.id] > 0
         /\ hand.id[2] \in AskedOf(Whose(hand.id[1]))
<1>1. hand.id \in Ids /\ hand.id # Idle
  BY IdsShape DEF Typed, TypeOK, Sending
<1>2. job[hand.id] > 0
  BY <1>1 DEF Typed, HandActive
<1>q. QED BY <1>1, <1>2 DEF JobsAsked, Sending

\* The ways in which a handler changes the jobs.
LEMMA JobsAfter ==
  ASSUME TypeOK, NEW next \in JobTypes, hand.id \in Ids, Finish(next)
  PROVE  /\ \A x \in Ids : job'[x] > 0 => next[x] > 0
         /\ count'.requests = count.requests
<1>1. CASE job' = [next EXCEPT ![hand.id] = 0] /\ UNCHANGED count
  BY <1>1 DEF JobTypes
<1>2. CASE job' = next /\ Bounded("faults", MaxFaults)
  BY <1>2, NotAsked
<1>q. QED BY <1>1, <1>2 DEF Finish

\* No job becomes active by a failure.
LEMMA JobsRetried ==
  ASSUME TypeOK, hand.id \in Ids, job[hand.id] > 0, Retry
  PROVE  \A x \in Ids : job'[x] > 0 => job[x] > 0
  BY DEF TypeOK, Retry

\* The handlers that send do so for their own request.
LEMMA AskedSends ==
  ASSUME Typed, JobsAsked,
         PreAccountAddBalanceApprove \/ PreAccountAddBalance \/ PreAccountReturnBalance \/ HandlerFails
  PROVE  JobsAsked'
<1> USE DEF Typed
<1> DEFINE k == hand.id[1]
<1> DEFINE r == hand.id[2]
<1>1. CASE k \in Sending
  <2>1. hand.id \in Ids /\ job[hand.id] > 0 /\ r \in AskedOf(Whose(k)) /\ job \in JobTypes
    BY <1>1, HandAsked DEF TypeOK, JobTypes
  <2>2. asked' = asked /\ news' = news
    BY DEF PreAccountAddBalanceApprove, PreAccountAddBalance, PreAccountReturnBalance, HandlerFails
  <2>3. /\ count'.requests = count.requests
        /\ \A x \in Ids : job'[x] > 0 => job[x] > 0 \/ (k = "approve" /\ x[1] = "add" /\ x[2] = r)
    <3>1. CASE Finish(job)
      BY <2>1, <3>1, JobsAfter
    <3>2. CASE Retry /\ (UNCHANGED count \/ Bounded("faults", MaxFaults))
      BY <2>1, <3>2, JobsRetried, NotAsked
    <3>3. ASSUME NEW s \in Slots, k = "approve", Finish([job EXCEPT ![<<"add", r, s>>] = TryLimit])
          PROVE  /\ count'.requests = count.requests
                 /\ \A x \in Ids : job'[x] > 0 => job[x] > 0 \/ (k = "approve" /\ x[1] = "add" /\ x[2] = r)
      <4> DEFINE next == [job EXCEPT ![<<"add", r, s>>] = TryLimit]
      <4>0. Finish(next)
        BY <3>3
      <4>1. next \in JobTypes /\ \A x \in Ids : next[x] > 0 => job[x] > 0 \/ x = <<"add", r, s>>
        BY <2>1, JobSet, TryLimits DEF JobTypes
      <4> HIDE DEF next
      <4>2. count'.requests = count.requests /\ \A x \in Ids : job'[x] > 0 => next[x] > 0
        BY <2>1, <4>0, <4>1, JobsAfter
      <4>q. QED BY <3>3, <4>1, <4>2
    <3>q. QED BY <3>1, <3>2, <3>3 DEF PreAccountAddBalanceApprove, PreAccountAddBalance, PreAccountReturnBalance, HandlerFails, Refused
  <2>4. pool' = pool \/ \E t : pool' = Append(pool, t) /\ (t.kind = "approve" /\ t.req # 0 => t.req = r /\ k = "approve")
    <3>1. ASSUME NEW a, NEW b, NEW j, Send(j, a, b), j = k
          PROVE \E t : pool' = Append(pool, t) /\ (t.kind = "approve" /\ t.req # 0 => t.req = r /\ k = "approve")
      BY <3>1 DEF Send
    <3>q. QED BY <3>1 DEF PreAccountAddBalanceApprove, PreAccountAddBalance, PreAccountReturnBalance, HandlerFails, Refused
  <2>5. \A c : AskedOf(c)' = AskedOf(c)
    BY <2>2, <2>3, SameAsked
  <2>6. k = "approve" => r \in AskedOf("psc")'
    BY <2>1, <2>5 DEF Whose
  <2>7. \A x \in Ids : job'[x] > 0 /\ x[1] # "refresh" => job[x] > 0 \/ x[2] \in AskedOf(Whose(x[1]))'
    BY <2>3, <2>6 DEF Whose
  <2>8. pool' = pool \/ \E t : pool' = Append(pool, t) /\ (t.kind = "approve" /\ t.req # 0 => t.req \in AskedOf("psc")')
    BY <2>4, <2>6
  <2>q. QED BY <2>2, <2>5, <2>7, <2>8, AskedKept
<1>2. CASE k \notin Sending
  <2>1. HandlerFails /\ hand.id \in Ids /\ job[hand.id] > 0
    BY <1>2 DEF PreAccountAddBalanceApprove, PreAccountAddBalance, PreAccountReturnBalance, Sending, HandlerFails, HandActive, TypeOK
  <2>2. pool' = pool /\ Retry /\ Bounded("faults", MaxFaults) /\ asked' = asked /\ news' = news
    BY <1>2, <2>1 DEF HandlerFails, Sending
  <2>3. \A x \in Ids : job'[x] > 0 => job[x] > 0
    BY <2>1, <2>2, JobsRetried
  <2>4. count'.requests = count.requests
    BY <2>2, NotAsked
  <2>5. \A c : AskedOf(c)' = AskedOf(c)
    BY <2>2, <2>4, SameAsked
  <2>q. QED BY <2>2, <2>3, <2>5, AskedKept
<1>q. QED BY <1>1, <1>2

\* The other handlers: the job that takes the tokens is for the request of the approval.
LEMMA AskedHandlers ==
  ASSUME Typed, JobsAsked,
         \/ \E x \in Ids : Start(x)
         \/ AfterAccountAddBalanceApprove \/ ReadPSCBalance \/ updateBalances \/ Crash
  PROVE  JobsAsked'
<1> USE DEF Typed
<1>1. CASE (\E x \in Ids : Start(x)) \/ ReadPSCBalance \/ Crash
  <2>1. UNCHANGED <<pool, news, asked, job>>
    BY <1>1 DEF Start, ReadPSCBalance, Crash
  <2>2. count'.requests = count.requests
    BY <1>1, NotAsked DEF Start, ReadPSCBalance, Crash
  <2>q. QED BY <2>1, <2>2, SameAsked, AskedKept
<1>2. CASE updateBalances
  <2>1. UNCHANGED <<pool, news, asked>> /\ Finish(job) /\ job \in JobTypes /\ hand.id \in Ids
    BY <1>2, IdsShape DEF updateBalances, TypeOK, JobTypes
  <2>2. count'.requests = count.requests /\ \A x \in Ids : job'[x] > 0 => job[x] > 0
    BY <2>1, JobsAfter
  <2>q. QED BY <2>1, <2>2, SameAsked, AskedKept
<1>3. CASE AfterAccountAddBalanceApprove
  <2> DEFINE r == hand.id[2]
  <2>1. /\ UNCHANGED <<pool, news, asked>> /\ job \in JobTypes
        /\ hand.id \in Ids /\ r \in AskedOf("psc")
    BY <1>3, HandAsked DEF AfterAccountAddBalanceApprove, TypeOK, JobTypes, Whose
  <2> PICK s \in Slots : Finish([job EXCEPT ![<<"add", r, s>>] = TryLimit])
    BY <1>3 DEF AfterAccountAddBalanceApprove
  <2> DEFINE next == [job EXCEPT ![<<"add", r, s>>] = TryLimit]
  <2>2. Finish(next)
    OBVIOUS
  <2>3. next \in JobTypes /\ \A x \in Ids : next[x] > 0 => job[x] > 0 \/ x = <<"add", r, s>>
    BY <2>1, JobSet, TryLimits DEF JobTypes
  <2> HIDE DEF next
  <2>4. count'.requests = count.requests /\ \A x \in Ids : job'[x] > 0 => next[x] > 0
    BY <2>1, <2>2, <2>3, JobsAfter
  <2>5. \A c : AskedOf(c)' = AskedOf(c)
    BY <2>1, <2>4, SameAsked
  <2>6. \A x \in Ids : job'[x] > 0 => job[x] > 0 \/ x[2] \in AskedOf(Whose(x[1]))'
    BY <2>1, <2>3, <2>4, <2>5 DEF Whose
  <2>q. QED BY <2>1, <2>5, <2>6, AskedKept
<1>q. QED BY <1>1, <1>2, <1>3

\* What leaves the requests alone, and adds jobs to refresh only.
LEMMA AskedOthers ==
  ASSUME Typed, JobsAsked,
         \/ GenerateAccount \/ ImportAccount \/ UpdateBalance \/ UpdateAccountRead \/ UpdateAccount
         \/ Consume \/ checkAndCreateAutoIncreaseJob \/ ClientPreChannelTopUp
         \/ \E a \in Amounts : Receive(a) \/ TopUpChannel(a)
         \/ \E s \in Slots : ClientAfterChannelTopUp(s)
  PROVE  JobsAsked'
<1> USE DEF Typed
<1>1. asked' = asked
  BY DEF GenerateAccount, ImportAccount, UpdateBalance, UpdateAccountRead, UpdateAccount, Consume, checkAndCreateAutoIncreaseJob,
     ClientPreChannelTopUp, Receive, TopUpChannel, ClientAfterChannelTopUp
<1>2. count'.requests = count.requests
  BY NotAsked DEF GenerateAccount, ImportAccount, UpdateBalance, UpdateAccountRead, UpdateAccount, Consume, checkAndCreateAutoIncreaseJob,
     ClientPreChannelTopUp, Receive, TopUpChannel, ClientAfterChannelTopUp, AddTopUp
<1>3. job' = job \/ job' = [job EXCEPT ![<<"refresh", 0, 0>>] = TryLimit]
  BY DEF GenerateAccount, ImportAccount, UpdateBalance, UpdateAccountRead, UpdateAccount, Consume, checkAndCreateAutoIncreaseJob,
     ClientPreChannelTopUp, Receive, TopUpChannel, ClientAfterChannelTopUp
<1>4. pool' = pool \/ \E t : pool' = Append(pool, t) /\ t.kind # "approve"
  <2>1. ASSUME pool' = Append(pool, [kind |-> "topup", amount |-> ch.amount, req |-> 0])
        PROVE  \E t : pool' = Append(pool, t) /\ t.kind # "approve"
    BY <2>1
  <2>q. QED BY <2>1 DEF GenerateAccount, ImportAccount, UpdateBalance, UpdateAccountRead, UpdateAccount, Consume,
            checkAndCreateAutoIncreaseJob, ClientPreChannelTopUp, Receive, TopUpChannel, ClientAfterChannelTopUp
<1>5. news' = news \/ \E e : news' = Append(news, e) /\ e.kind # "approval"
  <2>1. ASSUME news' = Append(news, [kind |-> "transfer", req |-> 0, amount |-> 0])
        PROVE  \E e : news' = Append(news, e) /\ e.kind # "approval"
    BY <2>1
  <2>q. QED BY <2>1 DEF GenerateAccount, ImportAccount, UpdateBalance, UpdateAccountRead, UpdateAccount, Consume,
            checkAndCreateAutoIncreaseJob, ClientPreChannelTopUp, Receive, TopUpChannel, ClientAfterChannelTopUp
<1>6. \A c : AskedOf(c)' = AskedOf(c)
  BY <1>1, <1>2, SameAsked
<1>7. \A x \in Ids : job'[x] > 0 /\ x[1] # "refresh" => job[x] > 0
  BY <1>3 DEF TypeOK
<1>q. QED BY <1>4, <1>5, <1>6, <1>7, AskedKept

\* A request is made: the others stay.
LEMMA AskedMore ==
  ASSUME Typed, NEW r \in Requests, NEW to \in Contracts, NEW a \in Amounts, TransferTokens(r, to, a)
  PROVE  /\ count.requests \in Nat /\ r = count.requests + 1 /\ count'.requests = r
         /\ asked' = [asked EXCEPT ![r] = [to |-> to, amount |-> a]]
         /\ \A c : AskedOf(c) \subseteq AskedOf(c)'
         /\ r \in AskedOf(to)'
<1> USE DEF Typed
<1>1. count.requests \in Nat /\ r = count.requests + 1 /\ count'.requests = r
  BY DEF TransferTokens, Bounded, TypeOK
<1>2. asked' = [asked EXCEPT ![r] = [to |-> to, amount |-> a]]
  BY DEF TransferTokens
<1>3. (\A q \in Requests : q <= count.requests => asked'[q] = asked[q] /\ q <= r) /\ asked'[r].to = to
  BY <1>1, <1>2 DEF TypeOK, Requests
<1>q. QED BY <1>1, <1>2, <1>3 DEF AskedOf, Requests

\* So is the job of a new request.
LEMMA AskedAsk ==
  ASSUME Typed, JobsAsked, NEW r \in Requests, NEW to \in Contracts, NEW a \in Amounts, TransferTokens(r, to, a)
  PROVE  JobsAsked'
<1> USE DEF Typed
<1> DEFINE k == IF to = "psc" THEN "approve" ELSE "return"
<1>1. (\A c : AskedOf(c) \subseteq AskedOf(c)') /\ r \in AskedOf(to)'
  BY AskedMore
<1>2. UNCHANGED <<pool, news>>
  BY DEF TransferTokens
<1>3. PICK s \in Slots : Add(k, r, s)
  BY DEF TransferTokens
<1>4. \A x \in Ids : job'[x] > 0 => job[x] > 0 \/ x = <<k, r, s>>
  BY <1>3 DEF Add, TypeOK
<1>5. Whose(k) = to
  BY DEF Whose, Contracts
<1>6. \A x \in Ids : job'[x] > 0 => job[x] > 0 \/ x[2] \in AskedOf(Whose(x[1]))'
  BY <1>1, <1>4, <1>5 DEF Whose
<1>q. QED BY <1>1, <1>2, <1>6, AskedKept

\* An approval that is mined is heard of with its request, ...
LEMMA AskedMined == ASSUME Typed, JobsAsked, Mine PROVE JobsAsked'
<1> USE DEF Typed
<1>1. pool # <<>> /\ pool' = Tail(pool) /\ UNCHANGED <<asked, job, count>> /\ pool \in Seq(Tx)
  BY Mined DEF TypeOK
<1>2. \A c : AskedOf(c)' = AskedOf(c)
  BY <1>1, SameAsked
<1>3. pool[1].kind = "approve" /\ pool[1].req # 0 => pool[1].req \in AskedOf("psc")
  <2>1. 1 \in DOMAIN pool
    BY <1>1
  <2>q. QED BY <2>1 DEF JobsAsked, Within
<1>4. news' = news \/ \E e : news' = Append(news, e) /\ (e.kind = "approval" /\ e.req # 0 => e.req \in AskedOf("psc")')
  <2>1. CASE pool[1].kind = "approve" /\ news' = Append(news, [kind |-> "approval", req |-> pool[1].req, amount |-> 0])
    BY <1>2, <1>3, <2>1
  <2>2. ASSUME NEW k \in {"transfer", "toppedup"}, NEW m, news' = Append(news, [kind |-> k, req |-> 0, amount |-> m])
        PROVE  \E e : news' = Append(news, e) /\ (e.kind = "approval" /\ e.req # 0 => e.req \in AskedOf("psc")')
    BY <2>2
  <2>q. QED BY <2>1, <2>2 DEF Mine
<1>q. QED BY <1>1, <1>2, <1>4, AskedKept

\* ... and its job is for that request.
LEMMA AskedHeard == ASSUME Typed, JobsAsked, TakeEvent PROVE JobsAsked'
<1> USE DEF Typed
<1>1. news # <<>> /\ news' = Tail(news) /\ UNCHANGED <<asked, pool, count>> /\ news \in Seq(Event)
  BY DEF TakeEvent, TypeOK
<1>2. \A c : AskedOf(c)' = AskedOf(c)
  BY <1>1, SameAsked
<1>3. news[1].kind = "approval" /\ news[1].req # 0 => news[1].req \in AskedOf("psc")
  <2>1. 1 \in DOMAIN news
    BY <1>1
  <2>q. QED BY <2>1 DEF JobsAsked, Within
<1>4. \A x \in Ids : job'[x] > 0 /\ x[1] # "refresh" =>
                       job[x] > 0 \/ (x[1] = "after" /\ x[2] = news[1].req /\ news[1].req # 0 /\ news[1].kind = "approval")
  <2>1. CASE job' = job
    BY <2>1
  <2>2. CASE AddRefresh
    <3> PICK s \in Slots : Add("refresh", 0, s)
      BY <2>2 DEF AddRefresh
    <3>q. QED BY DEF Add, TypeOK
  <2>3. CASE news[1].kind = "approval" /\ news[1].req # 0 /\ \E s \in Slots : Add("after", news[1].req, s)
    <3> PICK s \in Slots : Add("after", news[1].req, s)
      BY <2>3
    <3>q. QED BY <2>3 DEF Add, TypeOK
  <2>q. QED BY <2>1, <2>2, <2>3 DEF TakeEvent
<1>5. \A x \in Ids : job'[x] > 0 /\ x[1] # "refresh" => job[x] > 0 \/ x[2] \in AskedOf(Whose(x[1]))'
  BY <1>2, <1>3, <1>4 DEF Whose
<1>q. QED BY <1>1, <1>2, <1>5, AskedKept

\* Whatever fails and is run again, no transfer is carried out that nobody has
\* asked for.
THEOREM JobsAskedCorrect == Spec => []JobsAsked
<1>1. Init => JobsAsked
  BY DEF Init, JobsAsked, Within
<1>2. Typed /\ JobsAsked /\ [Next]_vars => JobsAsked'
  <2> SUFFICES ASSUME Typed, JobsAsked, [Next]_vars PROVE JobsAsked' OBVIOUS
  <2>1. CASE PreAccountAddBalanceApprove \/ PreAccountAddBalance \/ PreAccountReturnBalance \/ HandlerFails
    BY <2>1, AskedSends
  <2>2. CASE \/ \E x \in Ids : Start(x)
             \/ AfterAccountAddBalanceApprove \/ ReadPSCBalance \/ updateBalances \/ Crash
    BY <2>2, AskedHandlers
  <2>3. CASE \/ GenerateAccount \/ ImportAccount \/ UpdateBalance \/ UpdateAccountRead \/ UpdateAccount
             \/ Consume \/ checkAndCreateAutoIncreaseJob \/ ClientPreChannelTopUp
             \/ \E a \in Amounts : Receive(a) \/ TopUpChannel(a)
             \/ \E s \in Slots : ClientAfterChannelTopUp(s)
    BY <2>3, AskedOthers
  <2>4. CASE \E r \in Requests, to \in Contracts, a \in Amounts : TransferTokens(r, to, a)
    BY <2>4, AskedAsk
  <2>5. CASE Mine
    BY <2>5, AskedMined
  <2>6. CASE TakeEvent
    BY <2>6, AskedHeard
  <2>7. CASE UNCHANGED vars
    BY <2>7 DEF vars, JobsAsked, Within, AskedOf
  <2>q. QED BY <2>1, <2>2, <2>3, <2>4, <2>5, <2>6, <2>7 DEF Next, Work, User
<1>q. QED BY <1>1, <1>2, TypeCorrect, PTL DEF Spec, Typed
-----------------------------------------------------------------------------
(* What is moved.  Of each kind of transaction: what the contracts have    *)
(* done and what is in the pool is covered by a budget b and by what was   *)
(* sent again, and that budget, with the amounts of the requests that have *)
(* not sent such a transaction yet, by what was asked for.                 *)

Sent(q, k) == [i \in DOMAIN q |-> IF q[i].kind = k THEN q[i].amount ELSE 0]
Unsent(k) == [r \in Requests |-> IF asked[r].to = Whose(k) /\ <<k, r>> \notin tried THEN asked[r].amount ELSE 0]
Paid(k) == IF k = "return" THEN moved.ptc ELSE IF k = "add" THEN moved.psc ELSE moved.psc + chain.allow

Budget(k) ==
  \E p, b \in Nat : /\ Adds(Sent(pool, k), Len(pool), Paid(k), p)
                    /\ p <= b + extra[k]
                    /\ Adds(Unsent(k), count.requests, b, want[Whose(k)])

BudgetInv == count.requests <= MaxRequests /\ \A k \in Sending : Budget(k)

\* What the budget is made of are natural numbers.
LEMMA BudgetTypes ==
  ASSUME TypeOK, NEW k \in Sending
  PROVE  /\ pool \in Seq(Tx) /\ Len(pool) \in Nat /\ count.requests \in Nat
         /\ Paid(k) \in Nat /\ extra[k] \in Nat /\ want[Whose(k)] \in Nat
         /\ chain.allow \in Nat /\ moved.psc \in Nat /\ moved.ptc \in Nat
         /\ \A r \in Requests : Unsent(k)[r] \in Nat
<1>1. pool \in Seq(Tx) /\ count.requests \in Nat /\ extra[k] \in Nat
  BY DEF TypeOK
<1>2. Len(pool) \in Nat
  BY <1>1
<1>3. chain.allow \in Nat /\ moved.psc \in Nat /\ moved.ptc \in Nat /\ want[Whose(k)] \in Nat
  BY DEF TypeOK, Balances, Contracts, Whose
<1>4. Paid(k) \in Nat
  BY <1>3 DEF Paid
<1>5. \A r \in Requests : Unsent(k)[r] \in Nat
  BY DEF TypeOK, Asked, Unsent
<1>q. QED BY <1>1, <1>2, <1>3, <1>4, <1>5

\* The amounts of the pool with a transaction more.
LEMMA SentAppend ==
  ASSUME NEW q \in Seq(Tx), NEW t \in Tx, NEW k
  PROVE  /\ AllNat(Sent(Append(q, t), k), Len(q) + 1) /\ Len(Append(q, t)) = Len(q) + 1
         /\ \A j \in 1 .. Len(q) : Sent(Append(q, t), k)[j] = Sent(q, k)[j]
         /\ Sent(Append(q, t), k)[Len(q) + 1] = IF t.kind = k THEN t.amount ELSE 0
<1> DEFINE s == Append(q, t)
<1>1. /\ Len(q) \in Nat /\ DOMAIN q = 1 .. Len(q) /\ DOMAIN s = 1 .. Len(q) + 1 /\ Len(s) = Len(q) + 1
      /\ s[Len(q) + 1] = t /\ \A j \in 1 .. Len(q) : s[j] = q[j]
  OBVIOUS
<1>2. \A j \in 1 .. Len(q) + 1 : s[j] \in Tx
  <2>1. s \in Seq(Tx)
    OBVIOUS
  <2>q. QED BY <1>1, <2>1
<1>a. \A e \in Tx : e.amount \in Nat
  BY DEF Tx
<1> HIDE DEF s
<1>3. \A j \in 1 .. Len(q) + 1 : Sent(s, k)[j] = IF s[j].kind = k THEN s[j].amount ELSE 0
  BY <1>1 DEF Sent
<1>4. \A j \in 1 .. Len(q) : j \in 1 .. Len(q) + 1 /\ Sent(q, k)[j] = IF q[j].kind = k THEN q[j].amount ELSE 0
  BY <1>1 DEF Sent
<1>5. \A j \in 1 .. Len(q) + 1 : Sent(s, k)[j] \in Nat
  BY <1>2, <1>3, <1>a
<1>6. Len(q) + 1 \in 1 .. Len(q) + 1
  BY <1>1
<1>7. AllNat(Sent(s, k), Len(q) + 1)
  BY <1>5 DEF AllNat
<1>8. \A j \in 1 .. Len(q) : Sent(s, k)[j] = Sent(q, k)[j]
  BY <1>1, <1>3, <1>4
<1>9. Sent(s, k)[Len(q) + 1] = IF t.kind = k THEN t.amount ELSE 0
  BY <1>1, <1>3, <1>6
<1>q. QED BY <1>1, <1>7, <1>8, <1>9 DEF s

\* The amounts of the pool without the first transaction.
LEMMA SentTail ==
  ASSUME NEW q \in Seq(Tx), q # <<>>, NEW k
  PROVE  /\ Len(q) - 1 \in Nat /\ Len(Tail(q)) = Len(q) - 1
         /\ AllNat(Sent(q, k), Len(q))
         /\ \A j \in 1 .. Len(q) - 1 : Sent(Tail(q), k)[j] = Sent(q, k)[j + 1]
         /\ Sent(q, k)[1] = IF q[1].kind = k THEN q[1].amount ELSE 0
<1> DEFINE s == Tail(q)
<1>1. /\ Len(q) \in Nat \ {0} /\ DOMAIN q = 1 .. Len(q) /\ DOMAIN s = 1 .. Len(q) - 1 /\ Len(s) = Len(q) - 1
      /\ \A j \in 1 .. Len(q) - 1 : s[j] = q[j + 1]
  OBVIOUS
<1>2. \A j \in 1 .. Len(q) : q[j] \in Tx
  BY <1>1
<1> HIDE DEF s
<1>3. \A j \in 1 .. Len(q) : Sent(q, k)[j] = IF q[j].kind = k THEN q[j].amount ELSE 0
  BY <1>1 DEF Sent
<1>4. \A j \in 1 .. Len(q) - 1 : j + 1 \in 1 .. Len(q) /\ Sent(s, k)[j] = IF s[j].kind = k THEN s[j].amount ELSE 0
  BY <1>1 DEF Sent
<1>5. \A j \in 1 .. Len(q) : Sent(q, k)[j] \in Nat
  BY <1>2, <1>3 DEF Tx
<1>6. Len(q) - 1 \in Nat /\ 1 \in 1 .. Len(q)
  BY <1>1
<1>7. AllNat(Sent(q, k), Len(q))
  BY <1>5 DEF AllNat
<1>8. \A j \in 1 .. Len(q) - 1 : Sent(s, k)[j] = Sent(q, k)[j + 1]
  BY <1>1, <1>3, <1>4
<1>q. QED BY <1>1, <1>3, <1>6, <1>7, <1>8 DEF s

\* A step that asks for nothing, and sends nothing of this kind.
LEMMA BudgetKept ==
  ASSUME TypeOK, TypeOK', NEW k \in Sending, Budget(k), UNCHANGED <<asked, want, tried>>,
         extra'[k] = extra[k], count'.requests = count.requests, Paid(k)' = Paid(k),
         \/ pool' = pool
         \/ \E t \in Tx : pool' = Append(pool, t) /\ t.kind # k
  PROVE  Budget(k)'
<1>1. PICK p \in Nat, b \in Nat : /\ Adds(Sent(pool, k), Len(pool), Paid(k), p)
                                  /\ p <= b + extra[k]
                                  /\ Adds(Unsent(k), count.requests, b, want[Whose(k)])
  BY DEF Budget
<1>2. Unsent(k)' = Unsent(k) /\ want'[Whose(k)] = want[Whose(k)]
  BY DEF Unsent
<1>3. Adds(Sent(pool', k), Len(pool'), Paid(k), p)
  <2>1. CASE pool' = pool
    BY <1>1, <2>1
  <2>2. CASE \E t \in Tx : pool' = Append(pool, t) /\ t.kind # k
    <3> PICK t \in Tx : pool' = Append(pool, t) /\ t.kind # k
      BY <2>2
    <3> DEFINE n == Len(pool) c == Sent(Append(pool, t), k)
    <3>1. /\ n \in Nat /\ AllNat(c, n + 1) /\ (\A j \in 1 .. n : c[j] = Sent(pool, k)[j])
          /\ c[n + 1] = 0 /\ Len(pool') = n + 1 /\ Paid(k) \in Nat
      BY BudgetTypes, SentAppend
    <3>2. p + c[n + 1] <= p
      BY <3>1
    <3> HIDE DEF n, c
    <3>3. Adds(c, n + 1, Paid(k), p)
      BY <1>1, <3>1, <3>2, AddsMore DEF n
    <3>q. QED BY <3>1, <3>3 DEF c
  <2>q. QED BY <2>1, <2>2
<1>4. Adds(Sent(pool', k), Len(pool'), Paid(k)', p)
  BY <1>3
<1>5. Adds(Unsent(k)', count'.requests, b, want'[Whose(k)])
  BY <1>1, <1>2
<1>6. p <= b + extra'[k]
  BY <1>1
<1>q. QED BY <1>4, <1>5, <1>6 DEF Budget, Sent, Whose

\* A handler sends at most what was asked for: the request pays for it the
\* first time, and what is sent again does after that.
LEMMA BudgetSend ==
  ASSUME Typed, TypeOK', JobsAsked, BudgetInv, NEW j \in Sending, hand.id[1] = j,
         NEW a \in Nat, a <= Amount, NEW rec \in BOOLEAN, Send(j, a, rec),
         UNCHANGED <<chain, asked, moved, want>>, count'.requests = count.requests
  PROVE  BudgetInv'
<1> USE DEF Typed
<1> DEFINE r == hand.id[2]
           t == [kind |-> j, amount |-> a, req |-> IF rec THEN r ELSE 0]
<1>1. r \in Requests /\ r <= count.requests /\ asked[r].to = Whose(j)
  BY HandAsked DEF AskedOf
<1>2. pool' = Append(pool, t) /\ tried' = tried \cup {<<j, r>>} /\ t \in Tx
  BY <1>1 DEF Send, Tx
<1>3. \A k : Paid(k)' = Paid(k)
  BY DEF Paid
<1>4. ASSUME NEW k \in Sending, k # j PROVE Budget(k)'
  <2>1. PICK p \in Nat, b \in Nat : /\ Adds(Sent(pool, k), Len(pool), Paid(k), p)
                                    /\ p <= b + extra[k]
                                    /\ Adds(Unsent(k), count.requests, b, want[Whose(k)])
    BY DEF Budget, BudgetInv
  <2>2. extra'[k] = extra[k]
    BY <1>4 DEF Send, TypeOK
  <2>3. Unsent(k)' = Unsent(k)
    BY <1>2, <1>4 DEF Unsent
  <2> DEFINE n == Len(pool) c == Sent(Append(pool, t), k)
  <2>4. /\ n \in Nat /\ AllNat(c, n + 1) /\ (\A i \in 1 .. n : c[i] = Sent(pool, k)[i])
        /\ c[n + 1] = 0 /\ Len(pool') = n + 1 /\ Paid(k) \in Nat
    BY <1>2, <1>4, BudgetTypes, SentAppend
  <2>5. p + c[n + 1] <= p
    BY <2>4
  <2> HIDE DEF n, c
  <2>6. Adds(c, n + 1, Paid(k), p)
    BY <2>1, <2>4, <2>5, AddsMore DEF n
  <2>7. Adds(Sent(pool', k), Len(pool'), Paid(k)', p)
    BY <1>2, <1>3, <2>4, <2>6 DEF c
  <2>8. Adds(Unsent(k)', count'.requests, b, want'[Whose(k)])
    BY <2>1, <2>3
  <2>9. p <= b + extra'[k]
    BY <2>1, <2>2
  <2>q. QED BY <2>7, <2>8, <2>9 DEF Budget, Sent, Whose
<1>5. Budget(j)'
  <2>1. PICK p \in Nat, b \in Nat : /\ Adds(Sent(pool, j), Len(pool), Paid(j), p)
                                    /\ p <= b + extra[j]
                                    /\ Adds(Unsent(j), count.requests, b, want[Whose(j)])
    BY DEF Budget, BudgetInv
  <2> DEFINE n == Len(pool) c == Sent(Append(pool, t), j)
  <2>2. /\ n \in Nat /\ AllNat(c, n + 1) /\ (\A i \in 1 .. n : c[i] = Sent(pool, j)[i])
        /\ c[n + 1] = a /\ Len(pool') = n + 1 /\ Paid(j) \in Nat
    BY <1>2, BudgetTypes, SentAppend
  <2>3. /\ count.requests \in Nat /\ extra[j] \in Nat /\ want[Whose(j)] \in Nat
        /\ \A i \in Requests : Unsent(j)[i] \in Nat /\ Unsent(j)'[i] \in Nat
    BY BudgetTypes DEF TypeOK, Asked, Unsent
  <2> PICK q \in Nat : q = p + a
    OBVIOUS
  <2>10. p + c[n + 1] <= q
    BY <2>2
  <2> HIDE DEF n, c
  <2>4. Adds(c, n + 1, Paid(j), q)
    BY <2>1, <2>2, <2>10, AddsMore DEF n
  <2>5. Adds(Sent(pool', j), Len(pool'), Paid(j)', q)
    BY <1>2, <1>3, <2>2, <2>4 DEF c
  <2>6. CASE <<j, r>> \in tried
    <3>1. tried' = tried /\ extra' = [extra EXCEPT ![j] = @ + a]
      BY <1>2, <2>6 DEF Send
    <3>2. extra'[j] = extra[j] + a
      BY <3>1 DEF TypeOK
    <3>3. q <= b + extra'[j]
      BY <2>1, <2>3, <3>2
    <3>4. Unsent(j)' = Unsent(j)
      BY <3>1 DEF Unsent
    <3>5. Adds(Unsent(j)', count'.requests, b, want'[Whose(j)])
      BY <2>1, <3>4
    <3>q. QED BY <2>5, <3>3, <3>5 DEF Budget, Sent, Whose
  <2>7. CASE <<j, r>> \notin tried
    <3>1. extra' = extra
      BY <2>7 DEF Send
    <3> DEFINE m == count.requests A == Unsent(j) B == Unsent(j)'
    <3>2. m <= MaxRequests /\ m \in Nat
      BY <2>3 DEF BudgetInv
    <3>3. \A i \in 1 .. m : i \in Requests
      BY <3>2, AccountsAssumption DEF Requests
    <3>4. AllNat(A, m)
      BY <2>3, <3>3 DEF AllNat
    <3>5. r \in 1 .. m /\ A[r] = Amount /\ B[r] = 0
      BY <1>1, <1>2, <2>7, <3>2 DEF Unsent, Amount, Requests
    <3>6. \A i \in 1 .. m : i # r => B[i] = A[i]
      BY <1>2, <3>3 DEF Unsent
    <3>7. Amount \in Nat
      BY <3>4, <3>5 DEF AllNat
    <3> HIDE DEF A, B, m
    <3>8. Adds(B, m, b + A[r], want[Whose(j)])
      BY <2>1, <2>3, <3>2, <3>4, <3>5, <3>6, AddsUsed DEF A, m
    <3> PICK d \in Nat : d = b + Amount
      BY <3>7
    <3>9. Adds(Unsent(j)', count'.requests, d, want'[Whose(j)])
      BY <3>5, <3>8 DEF B, m
    <3>10. q <= d + extra'[j]
      BY <2>1, <2>3, <3>1, <3>7
    <3>q. QED BY <2>5, <3>9, <3>10 DEF Budget, Sent, Whose
  <2>q. QED BY <2>6, <2>7
<1>q. QED BY <1>4, <1>5 DEF BudgetInv

\* The contracts do what the first transaction of the pool says, or nothing.
LEMMA BudgetMined == ASSUME Typed, TypeOK', BudgetInv, Mine PROVE BudgetInv'
<1> USE DEF Typed
<1>1. /\ pool \in Seq(Tx) /\ pool # <<>> /\ pool' = Tail(pool) /\ pool[1].amount \in Nat
      /\ UNCHANGED <<asked, want, extra, tried, count>>
  BY Mined DEF TypeOK
<1> SUFFICES ASSUME NEW k \in Sending PROVE Budget(k)'
  BY <1>1 DEF BudgetInv
<1>2. PICK p \in Nat, b \in Nat : /\ Adds(Sent(pool, k), Len(pool), Paid(k), p)
                                  /\ p <= b + extra[k]
                                  /\ Adds(Unsent(k), count.requests, b, want[Whose(k)])
  BY DEF Budget, BudgetInv
<1> DEFINE a == pool[1].amount
<1>a. a \in Nat
  BY <1>1
<1>3. /\ chain.allow \in Nat /\ chain.ptc \in Nat /\ chain.psc \in Nat
      /\ moved.psc \in Nat /\ moved.ptc \in Nat
      /\ chain'.allow \in Nat /\ moved'.psc \in Nat /\ moved'.ptc \in Nat
  BY DEF TypeOK, Balances, Contracts
<1>4. moved \in [Contracts -> Nat] /\ chain \in Balances
  BY DEF TypeOK
<1>5. Paid(k)' <= Paid(k) + (IF pool[1].kind = k THEN a ELSE 0)
  <2>1. CASE pool[1].kind = "approve"
    <3>1. chain'.allow = chain.allow + a /\ moved' = moved
      BY <1>4, <2>1 DEF Mine, Balances
    <3>q. QED BY <1>1, <1>3, <2>1, <3>1 DEF Paid, Sending
  <2>2. CASE pool[1].kind = "add" /\ chain.ptc >= a /\ chain.allow >= a
    <3> PICK v \in Nat : v = moved.psc + a
      BY <1>1, <1>3
    <3>1. /\ chain' = [ptc |-> chain.ptc - a, psc |-> chain.psc + a, allow |-> chain.allow - a]
          /\ moved' = [moved EXCEPT !.psc = v]
      BY <1>a, <1>3, <2>2 DEF Mine
    <3>2. moved'.psc = v /\ moved'.ptc = moved.ptc
      BY <1>4, <3>1 DEF Contracts
    <3>3. chain'.allow = chain.allow - a
      BY <3>1
    <3>q. QED BY <1>a, <1>3, <2>2, <3>2, <3>3 DEF Paid, Sending
  <2>3. CASE pool[1].kind = "return" /\ chain.psc >= a
    <3> PICK v \in Nat : v = moved.ptc + a
      BY <1>1, <1>3
    <3> PICK x, y : x = chain.ptc + a /\ y = chain.psc - a
      OBVIOUS
    <3>1. chain' = [chain EXCEPT !.ptc = x, !.psc = y] /\ moved' = [moved EXCEPT !.ptc = v]
      BY <1>1, <1>3, <2>3 DEF Mine
    <3>2. moved'.psc = moved.psc /\ moved'.ptc = v /\ chain'.allow = chain.allow
      BY <1>4, <3>1 DEF Contracts, Balances
    <3>q. QED BY <1>1, <1>3, <2>3, <3>2 DEF Paid, Sending
  <2>4. CASE moved' = moved /\ chain'.allow = chain.allow
    BY <1>1, <1>3, <2>4 DEF Paid, Sending
  <2>5. CASE pool[1].kind = "topup"
    <3>1. moved' = moved /\ chain'.allow = chain.allow
      BY <1>4, <2>5 DEF Mine, Balances
    <3>q. QED BY <2>4, <3>1
  <2>q. QED BY <2>1, <2>2, <2>3, <2>4, <2>5 DEF Mine
<1>7. Paid(k) \in Nat /\ Paid(k)' \in Nat
  BY <1>3 DEF Paid
<1> DEFINE n == Len(pool) - 1 A == Sent(pool, k) C == Sent(Tail(pool), k)
<1>8. /\ n \in Nat /\ Len(Tail(pool)) = n /\ Len(pool) = n + 1 /\ AllNat(A, n + 1)
      /\ (\A i \in 1 .. n : C[i] = A[i + 1]) /\ A[1] = IF pool[1].kind = k THEN a ELSE 0
  <2>1. /\ n \in Nat /\ Len(Tail(pool)) = n /\ AllNat(A, Len(pool))
        /\ (\A i \in 1 .. n : C[i] = A[i + 1]) /\ A[1] = IF pool[1].kind = k THEN a ELSE 0
    BY <1>1, SentTail
  <2>2. Len(pool) = n + 1
    BY <1>1
  <2>q. QED BY <2>1, <2>2
<1> HIDE DEF n, A, C
<1>9. Adds(C, n, Paid(k)', p)
  <2>1. Adds(A, n + 1, Paid(k), p) /\ Paid(k)' <= Paid(k) + A[1]
    BY <1>2, <1>5, <1>8 DEF A
  <2>q. QED BY <1>7, <1>8, <2>1, AddsFirst
<1>10. Adds(Sent(pool', k), Len(pool'), Paid(k)', p)
  BY <1>1, <1>8, <1>9 DEF C
<1>11. Adds(Unsent(k)', count'.requests, b, want'[Whose(k)])
  <2>1. Unsent(k)' = Unsent(k)
    BY <1>1 DEF Unsent
  <2>q. QED BY <1>1, <1>2, <2>1
<1>12. p <= b + extra'[k]
  BY <1>1, <1>2
<1>q. QED BY <1>10, <1>11, <1>12 DEF Budget, Sent, Whose

\* A request more.
LEMMA BudgetAsk ==
  ASSUME Typed, TypeOK', BudgetInv, NEW r \in Requests, NEW to \in Contracts, NEW a \in Amounts, TransferTokens(r, to, a)
  PROVE  BudgetInv'
<1> USE DEF Typed
<1>1. /\ count.requests \in Nat /\ r = count.requests + 1 /\ count'.requests = r
      /\ asked' = [asked EXCEPT ![r] = [to |-> to, amount |-> a]]
  BY AskedMore
<1>2. UNCHANGED <<pool, chain, moved, extra, tried>> /\ want' = [want EXCEPT ![to] = @ + a]
  BY DEF TransferTokens
<1>3. count'.requests <= MaxRequests
  BY <1>1, AccountsAssumption DEF Requests
<1>4. ASSUME NEW k \in Sending PROVE Budget(k)'
  <2>1. PICK p \in Nat, b \in Nat : /\ Adds(Sent(pool, k), Len(pool), Paid(k), p)
                                    /\ p <= b + extra[k]
                                    /\ Adds(Unsent(k), count.requests, b, want[Whose(k)])
    BY DEF Budget, BudgetInv
  <2> DEFINE m == count.requests A == Unsent(k) B == Unsent(k)'
  <2>2. /\ m \in Nat /\ want[Whose(k)] \in Nat /\ want'[Whose(k)] \in Nat /\ a \in Nat
        /\ \A i \in Requests : B[i] \in Nat
    BY AccountsAssumption DEF TypeOK, Asked, Unsent, Whose, Contracts
  <2>3. \A i \in 1 .. m + 1 : i \in Requests
    BY <1>1, <1>3, AccountsAssumption DEF Requests
  <2>4. AllNat(B, m + 1)
    BY <2>2, <2>3 DEF AllNat
  <2>5. asked \in [Requests -> Asked] /\ \A i \in 1 .. m : i # r
    <3>1. \A i \in 1 .. m : i # m + 1
      BY <2>2
    <3>q. QED BY <1>1, <3>1 DEF TypeOK
  <2>6. \A i \in 1 .. m : B[i] = A[i]
    <3> SUFFICES ASSUME NEW i \in 1 .. m PROVE B[i] = A[i]
      OBVIOUS
    <3>1. i \in Requests /\ asked'[i] = asked[i]
      BY <1>1, <2>2, <2>3, <2>5
    <3>q. QED BY <1>2, <3>1 DEF Unsent
  <2>7. want[Whose(k)] + B[r] <= want'[Whose(k)]
    <3>1. asked'[r].to = to /\ asked'[r].amount = a
      BY <1>1, <2>5
    <3>2. B[r] \in {0, a} /\ (to # Whose(k) => B[r] = 0)
      BY <3>1 DEF Unsent
    <3>3. to = Whose(k) => want'[Whose(k)] = want[Whose(k)] + a
      BY <1>2 DEF TypeOK
    <3>4. to # Whose(k) => want'[Whose(k)] = want[Whose(k)]
      BY <1>2 DEF TypeOK, Whose, Contracts
    <3>q. QED BY <2>2, <3>2, <3>3, <3>4
  <2> HIDE DEF m, A, B
  <2>8. Adds(B, m + 1, b, want'[Whose(k)])
    BY <1>1, <2>1, <2>2, <2>4, <2>6, <2>7, AddsMore DEF m, A
  <2>9. Adds(Unsent(k)', count'.requests, b, want'[Whose(k)])
    BY <1>1, <2>8 DEF B, m
  <2>10. Adds(Sent(pool', k), Len(pool'), Paid(k)', p)
    BY <1>2, <2>1 DEF Paid
  <2>11. p <= b + extra'[k]
    BY <1>2, <2>1
  <2>q. QED BY <2>9, <2>10, <2>11 DEF Budget, Sent, Whose
<1>q. QED BY <1>3, <1>4 DEF BudgetInv

\* What is moved is within what was asked for, for the handlers that send ...
LEMMA BudgetHandlers ==
  ASSUME Typed, TypeOK', JobsAsked, BudgetInv,
         PreAccountAddBalanceApprove \/ PreAccountAddBalance \/ PreAccountReturnBalance \/ HandlerFails
  PROVE  BudgetInv'
<1> USE DEF Typed
<1>1. UNCHANGED <<chain, asked, moved, want>>
  BY DEF PreAccountAddBalanceApprove, PreAccountAddBalance, PreAccountReturnBalance, HandlerFails
<1>2. count'.requests = count.requests
  <2>1. count' = count \/ Bounded("faults", MaxFaults)
    BY DEF PreAccountAddBalanceApprove, PreAccountAddBalance, PreAccountReturnBalance, HandlerFails, Refused, Finish
  <2>q. QED BY <2>1, NotAsked
<1>3. CASE UNCHANGED <<pool, extra, tried>>
  <2>1. \A k : Paid(k)' = Paid(k)
    BY <1>1 DEF Paid
  <2>2. \A k \in Sending : Budget(k)'
    BY <1>1, <1>2, <1>3, <2>1, BudgetKept DEF BudgetInv
  <2>q. QED BY <1>2, <2>2 DEF BudgetInv
<1>4. CASE \E rec \in BOOLEAN : hand.id[1] = "approve" /\ MayApprove /\ Send("approve", Amount - hand.seen.allow, rec)
  <2> PICK rec \in BOOLEAN : hand.id[1] = "approve" /\ MayApprove /\ Send("approve", Amount - hand.seen.allow, rec)
    BY <1>4
  <2>1. hand.id[2] \in Requests
    BY HandAsked DEF AskedOf, Sending
  <2>2. Amount \in Nat /\ hand.seen.allow \in Nat
    BY <2>1 DEF TypeOK, Asked, Amount, Balances
  <2> PICK a : a = Amount - hand.seen.allow
    OBVIOUS
  <2>3. a \in Nat /\ a <= Amount
    BY <2>2 DEF MayApprove
  <2>4. Send("approve", a, rec)
    BY DEF Send
  <2>q. QED BY <1>1, <1>2, <2>3, <2>4, BudgetSend DEF Sending
<1>5. CASE \E rec \in BOOLEAN, k \in {"add", "return"} : hand.id[1] = k /\ Send(k, Amount, rec)
  <2> PICK rec \in BOOLEAN, k \in {"add", "return"} : hand.id[1] = k /\ Send(k, Amount, rec)
    BY <1>5
  <2>1. hand.id[2] \in Requests
    BY HandAsked DEF AskedOf, Sending
  <2> PICK a : a = Amount
    OBVIOUS
  <2>4. Amount \in Nat
    BY <2>1 DEF TypeOK, Asked, Amount
  <2>2. a \in Nat /\ a <= Amount
    BY <2>4
  <2>3. Send(k, a, rec)
    BY DEF Send
  <2>q. QED BY <1>1, <1>2, <2>2, <2>3, BudgetSend DEF Sending
<1>6. CASE PreAccountAddBalanceApprove
  BY <1>3, <1>4, <1>6 DEF PreAccountAddBalanceApprove, Refused
<1>7. CASE PreAccountAddBalance
  BY <1>3, <1>5, <1>7 DEF PreAccountAddBalance, Refused
<1>8. CASE PreAccountReturnBalance
  BY <1>3, <1>5, <1>8 DEF PreAccountReturnBalance, Refused
<1>9. CASE HandlerFails
  BY <1>3, <1>4, <1>5, <1>9 DEF HandlerFails
<1>q. QED BY <1>6, <1>7, <1>8, <1>9

\* ... and for the steps that send nothing but top-ups.
LEMMA BudgetOthers ==
  ASSUME Typed, TypeOK', BudgetInv,
         \/ \E x \in Ids : Start(x)
         \/ AfterAccountAddBalanceApprove \/ ReadPSCBalance \/ updateBalances \/ Crash \/ TakeEvent
         \/ GenerateAccount \/ ImportAccount \/ UpdateBalance \/ UpdateAccountRead \/ UpdateAccount
         \/ Consume \/ checkAndCreateAutoIncreaseJob \/ ClientPreChannelTopUp
         \/ \E a \in Amounts : Receive(a) \/ TopUpChannel(a)
         \/ \E s \in Slots : ClientAfterChannelTopUp(s)
  PROVE  BudgetInv'
<1> USE DEF Typed
<1> USE DEF Start, AfterAccountAddBalanceApprove, ReadPSCBalance, updateBalances, Crash, TakeEvent, GenerateAccount,
            ImportAccount, UpdateBalance, UpdateAccountRead, UpdateAccount, Consume, checkAndCreateAutoIncreaseJob,
            ClientPreChannelTopUp, Receive, TopUpChannel, ClientAfterChannelTopUp
<1>1. UNCHANGED <<asked, moved, want, extra, tried>>
  BY DEF history
<1>2. count'.requests = count.requests
  <2>1. count' = count \/ \E k \in {"used", "topups", "received", "updates", "faults"} : \E max : Bounded(k, max)
    BY DEF Finish, AddTopUp
  <2>q. QED BY <2>1, NotAsked
<1>3. chain'.allow = chain.allow
  <2>1. chain' = chain \/ \E v : chain' = [chain EXCEPT !.ptc = v]
    OBVIOUS
  <2>q. QED BY <2>1 DEF TypeOK, Balances
<1>4. pool' = pool \/ pool' = Append(pool, [kind |-> "topup", amount |-> ch.amount, req |-> 0])
  OBVIOUS
<1>5. [kind |-> "topup", amount |-> ch.amount, req |-> 0] \in Tx
  BY DEF TypeOK, Channel, Tx
<1>6. ASSUME NEW k \in Sending PROVE Budget(k)'
  <2>1. Paid(k)' = Paid(k)
    BY <1>1, <1>3 DEF Paid
  <2>2. pool' = pool \/ \E t \in Tx : pool' = Append(pool, t) /\ t.kind # k
    BY <1>4, <1>5 DEF Sending
  <2>q. QED BY <1>1, <1>2, <2>1, <2>2, BudgetKept DEF BudgetInv
<1>q. QED BY <1>2, <1>6 DEF BudgetInv

\* At the beginning only the allowance of the account counts.
LEMMA BudgetInit == Init => BudgetInv
<1> SUFFICES ASSUME Init PROVE BudgetInv OBVIOUS
<1>1. count.requests = 0 /\ 0 <= MaxRequests
  BY AccountsAssumption DEF Init
<1>2. ASSUME NEW k \in Sending PROVE Budget(k)
  <2>1. chain.allow \in Nat
    BY AccountsAssumption DEF Init, Balances
  <2>2. extra[k] = IF k = "approve" THEN chain.allow ELSE 0
    BY DEF Init
  <2>3. want[Whose(k)] = 0 /\ moved.psc = 0 /\ moved.ptc = 0
    BY DEF Init, Contracts, Whose
  <2>4. Paid(k) \in Nat /\ Paid(k) <= 0 + extra[k]
    BY <2>1, <2>2, <2>3 DEF Paid, Sending
  <2>5. pool = <<>>
    BY DEF Init
  <2>6. Len(pool) = 0
    BY <2>5
  <2>7. Adds(Sent(pool, k), Len(pool), Paid(k), Paid(k))
    BY <2>4, <2>6, AddsNone
  <2>8. Adds(Unsent(k), count.requests, 0, want[Whose(k)])
    BY <1>1, <2>3, AddsNone
  <2>q. QED BY <2>4, <2>7, <2>8 DEF Budget
<1>q. QED BY <1>1, <1>2 DEF BudgetInv

\* For each kind of transaction, what was done and what is in the pool is covered
\* by the requests that have sent theirs and by what was sent again.
THEOREM BudgetCorrect == Spec => []BudgetInv
<1>1. Init => BudgetInv
  BY BudgetInit
<1>2. Typed /\ Typed' /\ JobsAsked /\ BudgetInv /\ [Next]_vars => BudgetInv'
  <2> SUFFICES ASSUME Typed, TypeOK', JobsAsked, BudgetInv, [Next]_vars PROVE BudgetInv'
    BY DEF Typed
  <2>1. CASE PreAccountAddBalanceApprove \/ PreAccountAddBalance \/ PreAccountReturnBalance \/ HandlerFails
    BY <2>1, BudgetHandlers
  <2>2. CASE \/ \E x \in Ids : Start(x)
             \/ AfterAccountAddBalanceApprove \/ ReadPSCBalance \/ updateBalances \/ Crash \/ TakeEvent
             \/ GenerateAccount \/ ImportAccount \/ UpdateBalance \/ UpdateAccountRead \/ UpdateAccount
             \/ Consume \/ checkAndCreateAutoIncreaseJob \/ ClientPreChannelTopUp
             \/ \E a \in Amounts : Receive(a) \/ TopUpChannel(a)
             \/ \E s \in Slots : ClientAfterChannelTopUp(s)
    BY <2>2, BudgetOthers
  <2>3. CASE \E r \in Requests, to \in Contracts, a \in Amounts : TransferTokens(r, to, a)
    BY <2>3, BudgetAsk
  <2>4. CASE Mine
    BY <2>4, BudgetMined
  <2>5. CASE UNCHANGED vars
    BY <2>5 DEF vars, history, BudgetInv, Budget, Paid, Unsent, Sent
  <2>q. QED BY <2>1, <2>2, <2>3, <2>4, <2>5 DEF Next, Work, User
<1>q. QED BY <1>1, <1>2, TypeCorrect, JobsAskedCorrect, PTL DEF Spec, Typed

\* No more is moved between the contracts than was asked for, whatever fails and
\* is run again, but for what was sent again: to add too much takes both an
\* allowance and a transfer sent again.
THEOREM MovedCorrect == Spec => []NoMoreThanAsked
<1>1. TypeOK /\ BudgetInv => NoMoreThanAsked
  <2> SUFFICES ASSUME TypeOK, BudgetInv PROVE NoMoreThanAsked OBVIOUS
  <2>1. ASSUME NEW k \in Sending PROVE Paid(k) <= want[Whose(k)] + extra[k]
    <3>1. PICK p \in Nat, b \in Nat : /\ Adds(Sent(pool, k), Len(pool), Paid(k), p)
                                      /\ p <= b + extra[k]
                                      /\ Adds(Unsent(k), count.requests, b, want[Whose(k)])
      BY DEF Budget, BudgetInv
    <3>2. Paid(k) \in Nat /\ extra[k] \in Nat /\ want[Whose(k)] \in Nat /\ Len(pool) \in Nat /\ count.requests \in Nat
      BY BudgetTypes
    <3>3. Paid(k) <= p
      BY <3>1, <3>2, AddsBound
    <3>4. b <= want[Whose(k)]
      BY <3>1, <3>2, AddsBound
    <3>q. QED BY <3>1, <3>2, <3>3, <3>4
  <2>2. chain.allow \in Nat /\ moved.psc \in Nat /\ want.psc \in Nat /\ extra["approve"] \in Nat
    BY DEF TypeOK, Balances, Contracts, Sending
  <2>3. /\ moved.psc + chain.allow <= want.psc + extra["approve"]
        /\ moved.psc <= want.psc + extra["add"]
        /\ moved.ptc <= want.ptc + extra["return"]
    BY <2>1 DEF Paid, Whose, Sending
  <2>q. QED BY <2>2, <2>3 DEF NoMoreThanAsked
<1>q. QED BY <1>1, TypeCorrect, BudgetCorrect, PTL
=============================================================================

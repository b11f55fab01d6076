--------------------------- MODULE PaymentProofs ---------------------------
(***************************************************************************)
(* Proofs about Payment, for every price, deposit, bound and number of     *)
(* cheques on their way: the type invariant, and ReceiptCashable, by the   *)
(* inductive invariant IInv.                                               *)
(***************************************************************************)
EXTENDS Payment, TLAPS

\* Prices are natural numbers.
LEMMA PriceNat == ASSUME NEW u \in Nat PROVE ComputePrice(u) \in Nat
  BY PaymentAssumption DEF ComputePrice

\* So is the amount of a cheque, and it is at most the deposit it is drawn on.
LEMMA ChequeNat ==
  ASSUME NEW r \in Row, used \in Nat
  PROVE  Cheque(r) \in Nat /\ Cheque(r) <= r.deposit
<1>1. ComputePrice(used) \in Nat BY PriceNat
<1> QED BY <1>1 DEF Cheque, Row

\* What pending top-ups add to a deposit.
LEMMA AddedTimes ==
  /\ 0 * Added = 0
  /\ \A n \in Nat : n * Added \in Nat /\ (n + 1) * Added = n * Added + Added
  BY PaymentAssumption

-----------------------------------------------------------------------------
(* The type invariant.                                                     *)

\* Assignments to one field of a row, a run or a cheque.
LEMMA RowUpdates ==
  ASSUME NEW r \in Row
  PROVE  /\ \A n \in Nat : /\ [r EXCEPT !.deposit = n] \in Row
                            /\ [r EXCEPT !.receipt = n] \in Row
                            /\ [r EXCEPT !.receipt = n, !.sig = n] \in Row
         /\ \A b \in BOOLEAN : [r EXCEPT !.open = b] \in Row
         /\ \A v \in Svc : [r EXCEPT !.svc = v] \in Row
  BY DEF Row

LEMMA RunUpdates ==
  ASSUME NEW r \in Run, NEW b \in BOOLEAN
  PROVE  [r EXCEPT !.canceled = b] \in Run
  BY DEF Run

LEMMA PostUpdates ==
  ASSUME NEW q \in Post
  PROVE  /\ \A c \in PostPc : [q EXCEPT !.pc = c] \in Post
         /\ \A b \in BOOLEAN : [q EXCEPT !.waiting = b] \in Post
  BY DEF Post

\* An answer leaves the cheques their type.
LEMMA ReplyType ==
  ASSUME TypeOK, NEW p \in Posts, NEW c \in PostPc, Reply(p, c)
  PROVE  post' \in [Posts -> Post]
<1>1. post \in [Posts -> Post] BY DEF TypeOK
<1>2. [post[p] EXCEPT !.pc = c] \in Post BY <1>1, PostUpdates
<1>3. post' = [post EXCEPT ![p] = [post[p] EXCEPT !.pc = c]] BY DEF Reply
<1> QED BY <1>1, <1>2, <1>3

LEMMA CountUpdates ==
  ASSUME NEW c \in [topups : Nat, status : Nat, faults : Nat]
  PROVE  /\ [c EXCEPT !.topups = @ + 1] \in [topups : Nat, status : Nat, faults : Nat]
         /\ [c EXCEPT !.status = @ + 1] \in [topups : Nat, status : Nat, faults : Nat]
         /\ [c EXCEPT !.faults = @ + 1] \in [topups : Nat, status : Nat, faults : Nat]
  OBVIOUS

\* A handler makes a row of a row.
LEMMA ResultType ==
  ASSUME NEW k \in Kinds, NEW r \in Row, NEW q \in Result(k, r)
  PROVE  q \in Row
<1>1. r.deposit + Added \in Nat BY PaymentAssumption DEF Row
<1>2. CASE k = "topup"
  <2>1. q = [r EXCEPT !.deposit = @ + Added] BY <1>2 DEF Result
  <2>2. q = [r EXCEPT !.deposit = r.deposit + Added] BY <2>1
  <2> QED BY <1>1, <2>2, RowUpdates
<1>3. CASE k = "close"
  <2>1. q = [r EXCEPT !.open = FALSE] BY <1>3 DEF Result
  <2> QED BY <2>1, RowUpdates
<1>4. CASE k = "complete"
  <2>1. q = [r EXCEPT !.svc = "terminated"] BY <1>4 DEF Result
  <2> QED BY <2>1, RowUpdates DEF Svc
<1>5. CASE k = "terminate"
  <2>1. \E v \in {"terminating", "terminated"} : q = [r EXCEPT !.svc = v]
    BY <1>5 DEF Result
  <2> QED BY <2>1, RowUpdates DEF Svc
<1>6. CASE k = "status"
  <2>1. q = [r EXCEPT !.svc = "serving"] BY <1>6 DEF Result
  <2> QED BY <2>1, RowUpdates DEF Svc
<1> QED BY <1>2, <1>3, <1>4, <1>5, <1>6 DEF Kinds, Queued, Events

\* Canceling and adding jobs keeps the table of jobs a table of jobs.
LEMMA CancelType ==
  ASSUME TypeOK, NEW s \in Sides, CancelAndTerminate(s)
  PROVE  job' \in [Sides -> [Queued -> Nat]]
  BY DEF TypeOK, CancelAndTerminate, Queued, Events

LEMMA TerminatedType ==
  ASSUME TypeOK, NEW s \in Sides, Terminated(s)
  PROVE  job' \in [Sides -> [Queued -> Nat]] /\ run' \in [Sides -> Run]
<1>1. job' \in [Sides -> [Queued -> Nat]] BY CancelType DEF Terminated
<1>2. (run[s].kind # "none") \in BOOLEAN OBVIOUS
<1>3. [run[s] EXCEPT !.canceled = (run[s].kind # "none")] \in Run
  BY <1>2, RunUpdates DEF TypeOK
<1>4. run' = [run EXCEPT ![s] = [run[s] EXCEPT !.canceled = (run[s].kind # "none")]]
  BY DEF Terminated
<1>5. run' \in [Sides -> Run] BY <1>3, <1>4 DEF TypeOK
<1> QED BY <1>1, <1>5

LEMMA ConstantTypes == NoRow \in Row /\ NoRun \in Run /\ NoPost \in Post
  BY DEF NoRow, NoRun, NoPost, Row, Run, Post, PostPc, Svc

LEMMA RequeuedType ==
  ASSUME TypeOK, NEW s \in Sides, run[s].kind \in Queued
  PROVE  Requeued(s) \in [Sides -> [Queued -> Nat]]
<1>1. job[s] \in [Queued -> Nat] /\ job[s][run[s].kind] + 1 \in Nat BY DEF TypeOK
<1>2. [job[s] EXCEPT ![run[s].kind] = job[s][run[s].kind] + 1] \in [Queued -> Nat] BY <1>1
<1> QED BY <1>2 DEF TypeOK, Requeued

LEMMA AgainType ==
  ASSUME TypeOK, NEW s \in Sides, Again(s)
  PROVE  job' \in [Sides -> [Queued -> Nat]] /\ run' \in [Sides -> Run]
  BY ConstantTypes, RequeuedType DEF TypeOK, Again

LEMMA SaveRowType ==
  ASSUME TypeOK, NEW s \in Sides, run[s].kind # "none", SaveRow(s)
  PROVE  row' \in [Sides -> Row] /\ lost' \in BOOLEAN
<1>1. run[s].kind \in Kinds /\ run[s].row \in Row BY DEF TypeOK, Run
<1>2. PICK r \in Result(run[s].kind, run[s].row) : row' = [row EXCEPT ![s] = r]
  BY DEF SaveRow
<1>3. r \in Row BY <1>1, ResultType
<1>4. row' \in [Sides -> Row] BY <1>2, <1>3 DEF TypeOK
<1>5. lost' \in BOOLEAN BY DEF SaveRow, TypeOK
<1> QED BY <1>4, <1>5

LEMMA SendClosingType ==
  ASSUME TypeOK, NEW s \in Sides, SendClosing(s)
  PROVE  txs' \subseteq Tx
  BY DEF TypeOK, SendClosing, Tx, Run, Row

LEMMA RestartType ==
  ASSUME TypeOK, NEW s \in Sides, Restart(s)
  PROVE  /\ row' \in [Sides -> Row]
         /\ job' \in [Sides -> [Queued -> Nat]] /\ run' \in [Sides -> Run]
         /\ mon' \in Row /\ post' \in [Posts -> Post]
<1>1. row' \in [Sides -> Row] BY DEF TypeOK, Restart, Row, Svc
<1>2. job' \in [Sides -> [Queued -> Nat]] /\ run' \in [Sides -> Run]
  BY ConstantTypes, RequeuedType DEF TypeOK, Restart
<1>3. mon' \in Row BY ConstantTypes DEF TypeOK, Restart
<1>4. \A p \in Posts : [post[p] EXCEPT !.waiting = FALSE] \in Post
  BY PostUpdates DEF TypeOK
<1>5. post' \in [Posts -> Post] BY <1>4, ConstantTypes DEF TypeOK, Restart
<1> QED BY <1>1, <1>2, <1>3, <1>5

\* Init satisfies the type invariant.
LEMMA InitType == Init => TypeOK
<1> SUFFICES ASSUME Init PROVE TypeOK OBVIOUS
<1>1. [deposit |-> Deposit, receipt |-> 0, sig |-> 0, open |-> TRUE, svc |-> "serving"] \in Row
  BY PaymentAssumption DEF Row, Svc
<1>2. row \in [Sides -> Row] BY <1>1 DEF Init
<1>3. job \in [Sides -> [Queued -> Nat]] BY DEF Init
<1>4. run \in [Sides -> Run] /\ mon \in Row /\ post \in [Posts -> Post]
  BY ConstantTypes DEF Init
<1>5. chain \in [deposit : Nat, closed : BOOLEAN, paid : Nat] BY PaymentAssumption DEF Init
<1>6. lost \in BOOLEAN /\ twice \in [Sides -> BOOLEAN] BY DEF Init
<1>7. txs \subseteq Tx /\ used \in Nat BY DEF Init
<1>8. count \in [topups : Nat, status : Nat, faults : Nat] BY DEF Init
<1> QED BY <1>2, <1>3, <1>4, <1>5, <1>6, <1>7, <1>8 DEF TypeOK

\* Every step keeps it.
LEMMA NextType == TypeOK /\ [Next]_vars => TypeOK'
<1> SUFFICES ASSUME TypeOK, [Next]_vars PROVE TypeOK' OBVIOUS
<1> USE DEF hist, db
<1>1. CASE Consume BY <1>1 DEF TypeOK, Consume
<1>2. CASE TopUp BY <1>2, PaymentAssumption DEF TypeOK, TopUp, Queued, Events
<1>3. CASE VerifyUnitsBasedChannels
  BY <1>3, TerminatedType DEF TypeOK, VerifyUnitsBasedChannels, TerminateChannel, Sides
<1>4. CASE Select BY <1>4 DEF TypeOK, Select, Sides
<1>5. CASE processTerminate
  <2>1. CASE Terminated("client") /\ mon' = NoRow /\ UNCHANGED <<row, post>>
    BY <1>5, <2>1, TerminatedType, ConstantTypes DEF TypeOK, processTerminate, Sides
  <2>2. CASE mon' = NoRow /\ UNCHANGED <<db, post>>
    BY <1>5, <2>2, ConstantTypes DEF TypeOK, processTerminate
  <2>3. CASE Restart("client")
    BY <1>5, <2>3, RestartType DEF TypeOK, processTerminate, Sides
  <2> QED BY <1>5, <2>1, <2>2, <2>3 DEF processTerminate
<1>6. CASE processPost
  <2>1. Cheque(mon) \in Nat BY ChequeNat DEF TypeOK
  <2>2. post' \in [Posts -> Post]
    <3>1. [pc |-> "sent", amount |-> Cheque(mon), waiting |-> TRUE] \in Post
      BY <2>1 DEF Post, PostPc
    <3> QED BY <1>6, <3>1 DEF TypeOK, processPost
  <2> QED BY <1>6, <2>2, ConstantTypes DEF TypeOK, processPost
<1>7. ASSUME NEW t \in txs, CooperativeClose(t) PROVE TypeOK'
  <2>1. t.amount \in Nat BY DEF TypeOK, Tx
  <2>2. [chain EXCEPT !.closed = TRUE, !.paid = t.amount] \in
          [deposit : Nat, closed : BOOLEAN, paid : Nat]
    BY <2>1 DEF TypeOK
  <2>3. [s \in Sides |-> [job[s] EXCEPT !["close"] = @ + 1]] \in [Sides -> [Queued -> Nat]]
    BY DEF TypeOK, Queued, Events
  <2>4. /\ chain' \in [deposit : Nat, closed : BOOLEAN, paid : Nat]
        /\ job' \in [Sides -> [Queued -> Nat]]
    BY <1>7, <2>2, <2>3 DEF TypeOK, CooperativeClose
  <2> QED BY <1>7, <2>4 DEF TypeOK, CooperativeClose
<1>8. ASSUME NEW s \in Sides, TerminateByOther(s) PROVE TypeOK'
  BY <1>8, TerminatedType DEF TypeOK, TerminateByOther, TerminateChannel
<1>9. ASSUME NEW s \in Sides, NEW k \in Kinds, Start(s, k) PROVE TypeOK'
  <2>1. job' \in [Sides -> [Queued -> Nat]]
    <3>1. CASE k \in Queued
      <4>1. job[s] \in [Queued -> Nat] /\ job[s][k] - 1 \in Nat
        <5>1. job[s][k] > 0 BY <1>9, <3>1 DEF Start, Ready, Queued, Events
        <5> QED BY <3>1, <5>1 DEF TypeOK
      <4>2. job' = [job EXCEPT ![s] = [job[s] EXCEPT ![k] = job[s][k] - 1]]
        BY <1>9, <3>1 DEF Start
      <4>3. [job[s] EXCEPT ![k] = job[s][k] - 1] \in [Queued -> Nat] BY <4>1
      <4> QED BY <4>2, <4>3 DEF TypeOK
    <3> QED BY <1>9, <3>1 DEF TypeOK, Start
  <2>2. run' \in [Sides -> Run] BY <1>9 DEF TypeOK, Start, Run
  <2> QED BY <1>9, <2>1, <2>2 DEF TypeOK, Start
<1>10. ASSUME NEW s \in Sides, Finish(s) PROVE TypeOK'
  <2>1. row' \in [Sides -> Row] /\ lost' \in BOOLEAN BY <1>10, SaveRowType DEF Finish
  <2>2. txs' \subseteq Tx BY <1>10, SendClosingType DEF Finish
  <2>3. [run EXCEPT ![s] = NoRun] \in [Sides -> Run] BY ConstantTypes DEF TypeOK
  <2>4. job' \in [Sides -> [Queued -> Nat]] /\ run' \in [Sides -> Run]
    BY <1>10, <2>3, CancelType, AgainType DEF Finish, TypeOK
  <2> QED BY <1>10, <2>1, <2>2, <2>4 DEF TypeOK, Finish
<1>11. ASSUME NEW s \in Sides, FinishFails(s) PROVE TypeOK'
  <2>1. row' \in [Sides -> Row] /\ lost' \in BOOLEAN BY <1>11, SaveRowType DEF FinishFails
  <2>2. txs' \subseteq Tx BY <1>11, SendClosingType DEF FinishFails, TypeOK
  <2>3. job' \in [Sides -> [Queued -> Nat]] /\ run' \in [Sides -> Run]
    BY <1>11, AgainType DEF FinishFails
  <2>4. twice' \in [Sides -> BOOLEAN] BY <1>11 DEF FinishFails, TypeOK
  <2>5. count' \in [topups : Nat, status : Nat, faults : Nat]
    BY <1>11 DEF FinishFails, Fault, TypeOK
  <2> QED BY <1>11, <2>1, <2>2, <2>3, <2>4, <2>5 DEF TypeOK, FinishFails
<1>12. ASSUME NEW s \in Sides, Crash(s) PROVE TypeOK'
  <2>1. /\ row' \in [Sides -> Row]
        /\ job' \in [Sides -> [Queued -> Nat]] /\ run' \in [Sides -> Run]
        /\ mon' \in Row /\ post' \in [Posts -> Post]
    BY <1>12, RestartType DEF Crash
  <2>2. count' \in [topups : Nat, status : Nat, faults : Nat]
    BY <1>12, CountUpdates DEF TypeOK, Crash, Fault
  <2> QED BY <1>12, <2>1, <2>2 DEF TypeOK, Crash
<1>13. ASSUME NEW p \in Posts, handlePay(p) PROVE TypeOK'
  <2>1. post' \in [Posts -> Post] BY <1>13, ReplyType DEF handlePay, PostPc
  <2> QED BY <1>13, <2>1 DEF TypeOK, handlePay
<1>14. ASSUME NEW p \in Posts, updateChannelWithPayment(p) PROVE TypeOK'
  <2>1. row' \in [Sides -> Row]
    <3>1. post[p].amount \in Nat BY DEF TypeOK, Post
    <3>2. [row["agent"] EXCEPT !.receipt = post[p].amount, !.sig = post[p].amount] \in Row
      BY <3>1, RowUpdates DEF TypeOK, Sides
    <3>3. [row EXCEPT !["agent"].receipt = post[p].amount, !["agent"].sig = post[p].amount]
          = [row EXCEPT !["agent"] =
               [row["agent"] EXCEPT !.receipt = post[p].amount, !.sig = post[p].amount]]
      BY DEF TypeOK, Sides
    <3> QED BY <1>14, <3>2, <3>3 DEF TypeOK, updateChannelWithPayment
  <2>2. post' \in [Posts -> Post]
    BY <1>14, ReplyType DEF updateChannelWithPayment, PostPc
  <2> QED BY <1>14, <2>1, <2>2 DEF TypeOK, updateChannelWithPayment
<1>15. ASSUME NEW p \in Posts, postCheque(p) PROVE TypeOK'
  <2>1. row' \in [Sides -> Row]
    <3>1. post[p].amount \in Nat BY DEF TypeOK, Post
    <3>2. [row["client"] EXCEPT !.receipt = post[p].amount] \in Row
      BY <3>1, RowUpdates DEF TypeOK, Sides
    <3> QED BY <1>15, <3>2 DEF TypeOK, postCheque, saveReceipt
  <2>2. post' \in [Posts -> Post] BY <1>15, ConstantTypes DEF TypeOK, postCheque
  <2>3. job' \in [Sides -> [Queued -> Nat]] /\ run' \in [Sides -> Run]
    BY <1>15, TerminatedType DEF TypeOK, postCheque, Sides
  <2> QED BY <1>15, <2>1, <2>2, <2>3 DEF TypeOK, postCheque
<1>16. ASSUME NEW p \in Posts, LoseMessage(p) PROVE TypeOK'
  <2>1. [post[p] EXCEPT !.waiting = FALSE] \in Post BY PostUpdates DEF TypeOK
  <2>2. post' \in [Posts -> Post] BY <1>16, <2>1, ConstantTypes DEF TypeOK, LoseMessage
  <2> QED BY <1>16, <2>2 DEF TypeOK, LoseMessage, Fault
<1>17. ASSUME NEW p \in Posts, errUnexpected(p) PROVE TypeOK'
  <2>1. post' \in [Posts -> Post] BY <1>17, ReplyType DEF errUnexpected, PostPc
  <2> QED BY <1>17, <2>1, CountUpdates DEF TypeOK, errUnexpected, Fault
<1>18. ASSUME NEW s \in Sides, StopSession(s) PROVE TypeOK'
  <2>1. job' \in [Sides -> [Queued -> Nat]]
    BY <1>18 DEF StopSession, TypeOK, Queued, Events
  <2> QED BY <1>18, <2>1, CountUpdates DEF StopSession, TypeOK
<1>19. CASE UNCHANGED vars BY <1>19 DEF TypeOK, vars
<1> QED
  BY <1>1, <1>2, <1>3, <1>4, <1>5, <1>6, <1>7, <1>8, <1>9, <1>10, <1>11, <1>12,
     <1>13, <1>14, <1>15, <1>16, <1>17, <1>18, <1>19
  DEF Next, Monitor, Handler, Cheques, Kinds

\* The type invariant holds in every behaviour.
THEOREM TypeCorrect == Spec => []TypeOK
  BY InitType, NextType, PTL DEF Spec

-----------------------------------------------------------------------------
(* Steps that leave one part of the invariant alone.                       *)

LEMMA TimesMonotone ==
  ASSUME NEW m \in Nat, NEW n \in Nat, m <= n
  PROVE  m * Added <= n * Added
<1>1. n - m \in Nat /\ (n - m) * Added \in Nat BY PaymentAssumption
<1>2. n * Added = m * Added + (n - m) * Added BY PaymentAssumption
<1> QED BY <1>1, <1>2, PaymentAssumption

LEMMA PendingNat == ASSUME TypeOK, NEW u \in Sides PROVE Pending(u) \in Nat
  BY DEF TypeOK, Pending, Queued, Events

\* What is known once stays known: the contract's deposit only grows, and a
\* top-up counted twice stays so.
Growing ==
  /\ chain'.deposit >= chain.deposit
  /\ \A u \in Sides : twice[u] => twice'[u]

LEMMA CoveredStays ==
  ASSUME TypeOK, TypeOK', Growing, NEW u \in Sides, NEW n \in Nat, NEW m \in Nat,
         Covered(u, n), m <= n
  PROVE  Covered(u, m)'
<1>1. chain.deposit \in Nat /\ chain'.deposit \in Nat BY DEF TypeOK
<1>2. CASE twice[u] BY <1>2 DEF Growing, Covered
<1>3. CASE n <= chain.deposit BY <1>1, <1>3 DEF Growing, Covered
<1> QED BY <1>2, <1>3 DEF Covered

LEMMA DepositsStay ==
  ASSUME TypeOK, TypeOK', Growing, DepositsKnown,
         \A u \in Sides :
           /\ row'[u].deposit = row[u].deposit
           /\ Pending(u)' <= Pending(u)
           /\ run'[u].kind # "none" =>
                run[u].kind # "none" /\ run'[u].row.deposit = run[u].row.deposit
  PROVE  DepositsKnown'
<1> SUFFICES ASSUME NEW u \in Sides
             PROVE  /\ Covered(u, row[u].deposit + Pending(u) * Added)'
                    /\ (run[u].kind # "none" => run[u].row.deposit = row[u].deposit)'
  BY DEF DepositsKnown
<1>1. Pending(u) \in Nat BY PendingNat
<1>2. Pending(u)' \in Nat BY DEF TypeOK, Pending, Queued, Events
<1>3. Pending(u)' * Added <= Pending(u) * Added BY <1>1, <1>2, TimesMonotone
<1>4. Pending(u) * Added \in Nat /\ Pending(u)' * Added \in Nat
  BY <1>1, <1>2, AddedTimes
<1>5. row[u].deposit \in Nat /\ row'[u].deposit = row[u].deposit BY DEF TypeOK, Row
<1>6. Covered(u, row[u].deposit + Pending(u) * Added) BY DEF DepositsKnown
<1>7. twice[u] \/ row[u].deposit + Pending(u) * Added <= chain.deposit
  BY <1>6 DEF Covered
<1>8. twice'[u] \/ row'[u].deposit + Pending(u)' * Added <= chain'.deposit
  <2>1. chain.deposit \in Nat /\ chain'.deposit \in Nat BY DEF TypeOK
  <2>2. CASE twice[u] BY <2>2 DEF Growing
  <2>3. CASE row[u].deposit + Pending(u) * Added <= chain.deposit
    BY <2>1, <2>3, <1>3, <1>4, <1>5 DEF Growing
  <2> QED BY <2>2, <2>3, <1>7
<1> QED BY <1>8, <1>5 DEF DepositsKnown, Covered

LEMMA ReceiptsStay ==
  ASSUME TypeOK, TypeOK', Growing, GoodReceipts,
         row'["agent"] = row["agent"] \/ \E v \in Svc : row'["agent"] = [row["agent"] EXCEPT !.svc = v],
         run'["agent"].row = run["agent"].row \/ run'["agent"].row = NoRow,
         txs' \subseteq txs
  PROVE  GoodReceipts'
<1> "client" \in Sides /\ "agent" \in Sides BY DEF Sides
<1>1. /\ row'["agent"].receipt = row["agent"].receipt
      /\ row'["agent"].sig = row["agent"].sig
      /\ row'["agent"].deposit = row["agent"].deposit
      /\ row["agent"].receipt \in Nat
  BY DEF TypeOK, Row
<1>2. GoodReceipt(row["agent"])'
  BY <1>1, CoveredStays DEF GoodReceipts, GoodReceipt
<1>3. GoodReceipt(run["agent"].row)'
  <2>1. CASE run'["agent"].row = run["agent"].row
    <3>1. run["agent"].row.receipt \in Nat BY DEF TypeOK, Run, Row
    <3> QED BY <2>1, <3>1, CoveredStays DEF GoodReceipts, GoodReceipt
  <2>2. CASE run'["agent"].row = NoRow
    <3>1. 0 <= chain'.deposit BY DEF TypeOK
    <3> QED BY <2>2, <3>1 DEF GoodReceipt, NoRow, Covered
  <2> QED BY <2>1, <2>2
<1>4. \A t \in txs' : t.sig = t.amount /\ \A u \in Sides : Covered(u, t.amount)'
  <2> SUFFICES ASSUME NEW t \in txs', NEW u \in Sides
               PROVE  t.sig = t.amount /\ Covered(u, t.amount)'
    OBVIOUS
  <2>1. t \in txs /\ t.amount \in Nat BY DEF TypeOK, Tx
  <2> QED BY <2>1, CoveredStays DEF GoodReceipts
<1> QED BY <1>2, <1>3, <1>4 DEF GoodReceipts

LEMMA ChequesStay ==
  ASSUME TypeOK, TypeOK', Growing, GoodCheques,
         mon' = mon \/ mon' = NoRow,
         \A p \in Posts : post'[p].amount = post[p].amount \/ post'[p].amount = 0
  PROVE  GoodCheques'
<1> "client" \in Sides BY DEF Sides
<1>0. 0 <= chain'.deposit BY DEF TypeOK
<1>1. Covered("client", mon.deposit)'
  <2>1. CASE mon' = mon
    <3>1. mon.deposit \in Nat BY DEF TypeOK, Row
    <3> QED BY <2>1, <3>1, CoveredStays DEF GoodCheques
  <2>2. CASE mon' = NoRow BY <2>2, <1>0 DEF NoRow, Covered
  <2> QED BY <2>1, <2>2
<1>2. ASSUME NEW p \in Posts PROVE Covered("client", post[p].amount)'
  <2>1. CASE post'[p].amount = post[p].amount
    <3>1. post[p].amount \in Nat BY DEF TypeOK, Post
    <3> QED BY <2>1, <3>1, CoveredStays DEF GoodCheques
  <2>2. CASE post'[p].amount = 0 BY <2>2, <1>0 DEF Covered
  <2> QED BY <2>1, <2>2
<1> QED BY <1>1, <1>2 DEF GoodCheques

-----------------------------------------------------------------------------
(* The handlers' parts.                                                    *)

\* A termination cancels top-ups, and changes no row a handler has read.
LEMMA TerminatedParts ==
  ASSUME TypeOK, TypeOK', NEW s \in Sides, Terminated(s)
  PROVE  \A u \in Sides : /\ Pending(u)' <= Pending(u)
                          /\ run'[u].kind = run[u].kind
                          /\ run'[u].row = run[u].row
<1> SUFFICES ASSUME NEW u \in Sides
             PROVE  /\ Pending(u)' <= Pending(u)
                    /\ run'[u].kind = run[u].kind /\ run'[u].row = run[u].row
  OBVIOUS
<1>1. run'[u].kind = run[u].kind /\ run'[u].row = run[u].row
  BY DEF Terminated, TypeOK, Run
<1>2. job'[u]["topup"] <= job[u]["topup"]
  BY DEF Terminated, CancelAndTerminate, TypeOK, Queued, Events
<1> QED BY <1>1, <1>2 DEF Pending, TypeOK, Queued, Events

\* The job of a handler that is run again is pending again, or it was canceled.
LEMMA RequeueParts ==
  ASSUME TypeOK, TypeOK', NEW s \in Sides, run' = [run EXCEPT ![s] = NoRun],
         job' = job \/ (run[s].kind \in Queued /\ job' = Requeued(s))
  PROVE  /\ \A u \in Sides : Pending(u)' <= Pending(u)
         /\ \A u \in Sides \ {s} : run'[u] = run[u]
         /\ run'[s] = NoRun
<1>1. /\ \A u \in Sides \ {s} : run'[u] = run[u]
      /\ run'[s] = NoRun
  BY DEF Requeued, TypeOK
<1>2. ASSUME NEW u \in Sides \ {s} PROVE Pending(u)' <= Pending(u)
  <2>1. job'[u] = job[u] BY DEF Requeued, TypeOK
  <2> QED BY <1>1, <2>1 DEF Pending, TypeOK, Queued, Events
<1>3. Pending(s)' <= Pending(s)
  <2>1. run'[s].kind = "none" BY <1>1 DEF NoRun
  <2>2. CASE run[s].kind = "topup"
    <3>1. job'[s]["topup"] <= job[s]["topup"] + 1
      BY <2>2 DEF Requeued, TypeOK, Queued, Events
    <3> QED BY <2>1, <2>2, <3>1 DEF Pending, TypeOK, Queued, Events
  <2>3. CASE run[s].kind # "topup"
    <3>1. job'[s]["topup"] = job[s]["topup"]
      BY <2>3 DEF Requeued, TypeOK, Queued, Events
    <3> QED BY <2>1, <2>3, <3>1 DEF Pending, TypeOK, Queued, Events
  <2> QED BY <2>2, <2>3
<1> QED BY <1>1, <1>2, <1>3

\* What a handler keeps of the row it has read.
LEMMA ResultParts ==
  ASSUME NEW k \in Kinds, NEW r \in Row, NEW q \in Result(k, r)
  PROVE  /\ q.receipt = r.receipt /\ q.sig = r.sig
         /\ q.deposit = IF k = "topup" THEN r.deposit + Added ELSE r.deposit
<1>1. CASE k = "topup" BY <1>1 DEF Result, Row
<1>2. CASE k = "close" BY <1>2 DEF Result, Row
<1>3. CASE k = "complete" BY <1>3 DEF Result, Row
<1>4. CASE k = "terminate" BY <1>4 DEF Result, Row
<1>5. CASE k = "status" BY <1>5 DEF Result, Row
<1> QED BY <1>1, <1>2, <1>3, <1>4, <1>5 DEF Kinds, Queued, Events

\* So a save adds a top-up to the deposit, or leaves it, and writes back the
\* receipt the handler has read.
LEMMA SaveRowParts ==
  ASSUME TypeOK, DepositsKnown, NEW s \in Sides, run[s].kind # "none", SaveRow(s)
  PROVE  /\ \A u \in Sides \ {s} : row'[u] = row[u]
         /\ row'[s].receipt = run[s].row.receipt /\ row'[s].sig = run[s].row.sig
         /\ row'[s].deposit = IF run[s].kind = "topup" THEN row[s].deposit + Added
                                                       ELSE row[s].deposit
<1>1. run[s].kind \in Kinds /\ run[s].row \in Row BY DEF TypeOK, Run
<1>2. PICK r \in Result(run[s].kind, run[s].row) : row' = [row EXCEPT ![s] = r]
  BY DEF SaveRow
<1>3. row'[s] = r /\ \A u \in Sides \ {s} : row'[u] = row[u] BY <1>2 DEF TypeOK
<1>4. run[s].row.deposit = row[s].deposit BY DEF DepositsKnown
<1> QED BY <1>1, <1>3, <1>4, ResultParts

LEMMA SaveReceipts ==
  ASSUME TypeOK, TypeOK', Growing, DepositsKnown, GoodReceipts, NEW s \in Sides,
         run[s].kind # "none", SaveRow(s), run' = [run EXCEPT ![s] = NoRun],
         SendClosing(s) \/ UNCHANGED txs
  PROVE  GoodReceipts'
<1> "client" \in Sides /\ "agent" \in Sides BY DEF Sides
<1> DEFINE a == run["agent"].row
<1>1. a \in Row /\ a.receipt \in Nat /\ a.deposit \in Nat BY DEF TypeOK, Run, Row
<1>2. /\ a.sig = a.receipt /\ a.receipt <= a.deposit
      /\ Covered("client", a.receipt)
  BY DEF GoodReceipts, GoodReceipt
<1>3. row["agent"].receipt \in Nat /\ row["agent"].deposit \in Nat BY DEF TypeOK, Row
<1>4. GoodReceipt(row["agent"])'
  <2>1. CASE s = "agent"
    <3>1. a.deposit = row["agent"].deposit BY <2>1 DEF DepositsKnown
    <3>2. row'["agent"].receipt = a.receipt /\ row'["agent"].sig = a.sig
      BY <2>1, SaveRowParts
    <3>3. row'["agent"].deposit >= a.deposit
      BY <2>1, <3>1, <1>3, SaveRowParts, PaymentAssumption
    <3>4. row'["agent"].deposit \in Nat BY DEF TypeOK, Row
    <3>5. row'["agent"].receipt <= row'["agent"].deposit
      BY <1>1, <1>2, <3>2, <3>3, <3>4
    <3>6. Covered("client", row["agent"].receipt)'
      BY <1>1, <1>2, <3>2, CoveredStays
    <3> QED BY <1>2, <3>2, <3>5, <3>6 DEF GoodReceipt
  <2>2. CASE s # "agent"
    <3>1. row'["agent"] = row["agent"] BY <2>2, SaveRowParts
    <3> QED BY <3>1, <1>3, CoveredStays DEF GoodReceipts, GoodReceipt
  <2> QED BY <2>1, <2>2
<1>5. GoodReceipt(run["agent"].row)'
  <2>1. 0 <= chain'.deposit BY DEF TypeOK
  <2>2. CASE s = "agent"
    <3>1. run'["agent"].row = NoRow BY <2>2 DEF TypeOK, NoRun
    <3> QED BY <2>1, <3>1 DEF GoodReceipt, NoRow, Covered
  <2>3. CASE s # "agent"
    <3>1. run'["agent"].row = a BY <2>3 DEF TypeOK
    <3> QED BY <3>1, <1>1, <1>2, CoveredStays DEF GoodReceipt
  <2> QED BY <2>2, <2>3
<1>6. ASSUME NEW t \in txs', NEW u \in Sides
      PROVE  t.sig = t.amount /\ Covered(u, t.amount)'
  <2>1. CASE t \in txs
    <3>1. t.amount \in Nat BY <2>1 DEF TypeOK, Tx
    <3> QED BY <2>1, <3>1, CoveredStays DEF GoodReceipts
  <2>2. CASE t \notin txs
    <3>1. s = "agent" /\ t = [amount |-> a.receipt, sig |-> a.sig]
      BY <2>2 DEF SendClosing
    <3>2. t.amount = a.receipt /\ t.sig = a.receipt BY <3>1, <1>2
    <3>3. Covered("agent", a.receipt)
      <4>1. a.deposit = row["agent"].deposit BY <3>1 DEF DepositsKnown
      <4>2. Pending("agent") * Added \in Nat BY PendingNat, AddedTimes
      <4>3. Covered("agent", row["agent"].deposit + Pending("agent") * Added)
        BY DEF DepositsKnown
      <4>4. chain.deposit \in Nat BY DEF TypeOK
      <4> QED BY <1>1, <1>2, <1>3, <4>1, <4>2, <4>3, <4>4 DEF Covered
    <3>4. Covered(u, a.receipt) BY <1>2, <3>3 DEF Sides
    <3> QED BY <3>2, <3>4, <1>1, CoveredStays
  <2> QED BY <2>1, <2>2
<1> QED BY <1>4, <1>5, <1>6 DEF GoodReceipts

LEMMA SaveDeposits ==
  ASSUME TypeOK, TypeOK', Growing, DepositsKnown, NEW s \in Sides,
         run[s].kind # "none", SaveRow(s), run' = [run EXCEPT ![s] = NoRun],
         \A u \in Sides \ {s} : job'[u]["topup"] = job[u]["topup"],
         job'[s]["topup"] <= job[s]["topup"] \/ twice'[s]
  PROVE  DepositsKnown'
<1> SUFFICES ASSUME NEW u \in Sides
             PROVE  /\ Covered(u, row[u].deposit + Pending(u) * Added)'
                    /\ (run[u].kind # "none" => run[u].row.deposit = row[u].deposit)'
  BY DEF DepositsKnown
<1>0. /\ row[u].deposit \in Nat /\ chain.deposit \in Nat /\ chain'.deposit \in Nat
      /\ job[u]["topup"] \in Nat /\ job'[u]["topup"] \in Nat
  BY DEF TypeOK, Row, Queued, Events
<1>1. twice[u] \/ row[u].deposit + Pending(u) * Added <= chain.deposit
  BY DEF DepositsKnown, Covered
<1>2. CASE u # s
  <2>1. run'[u] = run[u] /\ row'[u] = row[u] BY <1>2, SaveRowParts DEF TypeOK
  <2>2. Pending(u)' = Pending(u) BY <1>2, <2>1 DEF Pending
  <2>3. Pending(u) * Added \in Nat BY PendingNat, AddedTimes
  <2>4. twice'[u] \/ row'[u].deposit + Pending(u)' * Added <= chain'.deposit
    BY <1>0, <1>1, <2>1, <2>2, <2>3 DEF Growing
  <2> QED BY <2>1, <2>4 DEF DepositsKnown, Covered
<1>3. CASE u = s
  <2>1. run'[u].kind = "none" BY <1>3 DEF TypeOK, NoRun
  <2>2. Pending(u)' = job'[u]["topup"] BY <2>1, <1>0 DEF Pending
  <2>3. CASE twice'[u] BY <2>1, <2>3 DEF Covered
  <2>4. CASE job'[u]["topup"] <= job[u]["topup"]
    <3> DEFINE j == job[u]["topup"]
               m == job'[u]["topup"]
    <3>1. m * Added <= j * Added /\ m * Added \in Nat /\ j * Added \in Nat
      BY <1>0, <2>4, TimesMonotone, AddedTimes
    <3>2. row'[u].deposit + j * Added = row[u].deposit + Pending(u) * Added
      <4>1. CASE run[u].kind = "topup"
        <5>1. row'[u].deposit = row[u].deposit + Added BY <4>1, <1>3, SaveRowParts
        <5>2. Pending(u) * Added = j * Added + Added
          BY <4>1, <1>0, AddedTimes DEF Pending
        <5> QED BY <5>1, <5>2, <1>0, <3>1, PaymentAssumption
      <4>2. CASE run[u].kind # "topup"
        <5>1. row'[u].deposit = row[u].deposit BY <4>2, <1>3, SaveRowParts
        <5>2. Pending(u) = j BY <4>2, <1>0 DEF Pending
        <5> QED BY <5>1, <5>2
      <4> QED BY <4>1, <4>2
    <3>3. row'[u].deposit \in Nat BY DEF TypeOK, Row
    <3>4. row'[u].deposit + m * Added <= row[u].deposit + Pending(u) * Added
      <4> HIDE DEF m, j
      <4> QED BY <3>1, <3>2, <3>3
    <3>5. Pending(u) * Added \in Nat BY PendingNat, AddedTimes
    <3>6. twice'[u] \/ row'[u].deposit + m * Added <= chain'.deposit
      <4> HIDE DEF m
      <4> QED BY <1>0, <1>1, <3>1, <3>3, <3>4, <3>5 DEF Growing
    <3> QED BY <2>1, <2>2, <3>6 DEF Covered
  <2> QED BY <2>3, <2>4, <1>3
<1> QED BY <1>2, <1>3

-----------------------------------------------------------------------------
(* The inductive invariant.                                                *)

\* Init satisfies the inductive invariant.
LEMMA InitInv == Init => IInv
<1> SUFFICES ASSUME Init PROVE IInv OBVIOUS
<1>1. TypeOK BY InitType
<1>2. DepositsKnown
  <2> SUFFICES ASSUME NEW u \in Sides
               PROVE  /\ Covered(u, row[u].deposit + Pending(u) * Added)
                      /\ run[u].kind = "none"
    BY DEF DepositsKnown
  <2>1. run[u].kind = "none" /\ job[u]["topup"] = 0 BY DEF Init, NoRun, Queued, Events
  <2>2. Pending(u) = 0 BY <2>1 DEF Pending
  <2>3. row[u].deposit + Pending(u) * Added <= chain.deposit
    BY <2>2, AddedTimes, PaymentAssumption DEF Init
  <2> QED BY <2>1, <2>3 DEF Covered
<1>3. GoodReceipts
  BY PaymentAssumption DEF Init, GoodReceipts, GoodReceipt, Covered, NoRun, NoRow, Sides
<1>4. GoodCheques BY PaymentAssumption DEF Init, GoodCheques, Covered, NoRow, NoPost
<1> QED BY <1>1, <1>2, <1>3, <1>4 DEF IInv

\* A restart keeps the invariant's parts.
LEMMA RestartParts ==
  ASSUME IInv, TypeOK', Growing, NEW s \in Sides, Restart(s), UNCHANGED txs
  PROVE  DepositsKnown' /\ GoodReceipts' /\ GoodCheques'
<1> "agent" \in Sides BY DEF Sides
<1>0. TypeOK /\ DepositsKnown /\ GoodReceipts /\ GoodCheques BY DEF IInv
<1>1. /\ \A u \in Sides : Pending(u)' <= Pending(u)
      /\ \A u \in Sides : run'[u] = run[u] \/ run'[u] = NoRun
  <2>1. run' = [run EXCEPT ![s] = NoRun] BY DEF Restart
  <2>2. job' = job \/ (run[s].kind \in Queued /\ job' = Requeued(s))
    <3>1. CASE run[s].kind \in Queued /\ ~run[s].canceled BY <3>1, Zenon DEF Restart
    <3>2. CASE ~(run[s].kind \in Queued /\ ~run[s].canceled)
      <4>1. job' = IF run[s].kind \in Queued /\ ~run[s].canceled THEN Requeued(s) ELSE job
        BY Zenon DEF Restart
      <4>2. job' = job BY <3>2, <4>1, Zenon
      <4> QED BY <4>2
    <3> QED BY <3>1, <3>2
  <2>3. /\ \A u \in Sides : Pending(u)' <= Pending(u)
        /\ \A u \in Sides \ {s} : run'[u] = run[u]
        /\ run'[s] = NoRun
    BY <1>0, <2>1, <2>2, RequeueParts
  <2> QED BY <2>3
<1>2. DepositsKnown'
  <2>1. \A u \in Sides : row'[u].deposit = row[u].deposit BY <1>0 DEF Restart, TypeOK, Row
  <2>2. \A u \in Sides : run'[u].kind # "none" => run'[u] = run[u] BY <1>1 DEF NoRun
  <2> QED BY <1>0, <1>1, <2>1, <2>2, DepositsStay
<1>3. GoodReceipts'
  <2>1. row'["agent"] = row["agent"] \/ \E v \in Svc : row'["agent"] = [row["agent"] EXCEPT !.svc = v]
    <3>1. CASE s = "agent"
      <4> DEFINE v == IF row[s].svc = "terminating" THEN "terminated" ELSE row[s].svc
      <4>1. row'["agent"] = [row["agent"] EXCEPT !.svc = v] BY <1>0, <3>1 DEF Restart, TypeOK
      <4>2. v \in Svc BY <1>0 DEF TypeOK, Row, Svc
      <4> QED BY <4>1, <4>2
    <3>2. CASE s # "agent" BY <1>0, <3>2 DEF Restart, TypeOK
    <3> QED BY <3>1, <3>2
  <2>2. run'["agent"].row = run["agent"].row \/ run'["agent"].row = NoRow BY <1>1 DEF NoRun
  <2> QED BY <1>0, <2>1, <2>2, ReceiptsStay
<1>4. GoodCheques'
  <2>1. mon' = mon \/ mon' = NoRow BY DEF Restart
  <2>2. \A p \in Posts : post'[p].amount = post[p].amount \/ post'[p].amount = 0
    BY <1>0 DEF Restart, NoPost, TypeOK, Post
  <2> QED BY <1>0, <2>1, <2>2, ChequesStay
<1> QED BY <1>2, <1>3, <1>4

\* A termination keeps the invariant's parts.
LEMMA TerminateParts ==
  ASSUME IInv, TypeOK', NEW s \in Sides, Terminated(s),
         UNCHANGED <<row, chain, txs, twice>>, GoodCheques'
  PROVE  IInv'
<1> "agent" \in Sides BY DEF Sides
<1>0. TypeOK /\ DepositsKnown /\ GoodReceipts BY DEF IInv
<1>1. Growing BY <1>0 DEF Growing, TypeOK
<1>2. DepositsKnown' BY <1>0, <1>1, TerminatedParts, DepositsStay
<1>3. GoodReceipts' BY <1>0, <1>1, TerminatedParts, ReceiptsStay
<1> QED BY <1>2, <1>3 DEF IInv

\* Every step keeps the inductive invariant.
LEMMA NextInv == IInv /\ [Next]_vars => IInv'
<1> SUFFICES ASSUME IInv, [Next]_vars PROVE IInv' OBVIOUS
<1> USE DEF hist, db
<1> "client" \in Sides /\ "agent" \in Sides BY DEF Sides
<1>a. TypeOK /\ DepositsKnown /\ GoodReceipts /\ GoodCheques BY DEF IInv
<1>b. TypeOK' BY <1>a, NextType
<1>c. UNCHANGED <<chain, twice>> => Growing BY <1>a DEF Growing, TypeOK
<1>d. Growing /\ UNCHANGED <<row, job, run>> => DepositsKnown'
  <2>1. ASSUME NEW u \in Sides, UNCHANGED <<job, run>> PROVE Pending(u)' <= Pending(u)
    BY <2>1, <1>a, PendingNat DEF Pending
  <2> QED BY <1>a, <1>b, <2>1, DepositsStay
<1>e. Growing /\ UNCHANGED <<row, run, txs>> => GoodReceipts' BY <1>a, <1>b, ReceiptsStay
<1>f. Growing /\ UNCHANGED <<mon, post>> => GoodCheques' BY <1>a, <1>b, ChequesStay
<1>1. CASE Consume
  BY <1>1, <1>b, <1>c, <1>d, <1>e, <1>f DEF Consume, IInv
<1>2. CASE TopUp
  <2>1. chain'.deposit = chain.deposit + Added /\ chain.deposit \in Nat
    BY <1>2, <1>a DEF TopUp, TypeOK
  <2>2. Growing BY <1>2, <2>1, PaymentAssumption DEF Growing, TopUp
  <2>3. DepositsKnown'
    <3> SUFFICES ASSUME NEW u \in Sides
                 PROVE  /\ Covered(u, row[u].deposit + Pending(u) * Added)'
                        /\ (run[u].kind # "none" => run[u].row.deposit = row[u].deposit)'
      BY DEF DepositsKnown
    <3>1. Pending(u)' = Pending(u) + 1
      BY <1>2, <1>a DEF TopUp, Pending, TypeOK, Queued, Events
    <3>2. Pending(u) \in Nat BY <1>a, PendingNat
    <3>3. Pending(u)' * Added = Pending(u) * Added + Added /\ Pending(u) * Added \in Nat
      BY <3>1, <3>2, AddedTimes
    <3>4. row'[u].deposit = row[u].deposit /\ row[u].deposit \in Nat
      BY <1>2, <1>a DEF TopUp, TypeOK, Row
    <3>5. twice[u] \/ row[u].deposit + Pending(u) * Added <= chain.deposit
      BY <1>a DEF DepositsKnown, Covered
    <3>6. row[u].deposit + Pending(u) * Added <= chain.deposit
            => row'[u].deposit + Pending(u)' * Added <= chain'.deposit
      BY <2>1, <3>3, <3>4, PaymentAssumption
    <3>7. twice'[u] = twice[u] BY <1>2 DEF TopUp
    <3>8. Covered(u, row[u].deposit + Pending(u) * Added)' BY <3>5, <3>6, <3>7 DEF Covered
    <3> QED BY <1>2, <1>a, <3>8 DEF TopUp, DepositsKnown
  <2> QED BY <1>2, <1>b, <2>2, <2>3, <1>e, <1>f DEF TopUp, IInv
<1>3. CASE VerifyUnitsBasedChannels
  BY <1>3, <1>b, <1>c, <1>f, TerminateParts DEF VerifyUnitsBasedChannels, TerminateChannel
<1>4. CASE Select
  <2>1. Covered("client", row["client"].deposit)
    <3>1. Pending("client") * Added \in Nat BY <1>a, PendingNat, AddedTimes
    <3>2. row["client"].deposit \in Nat /\ chain.deposit \in Nat BY <1>a DEF TypeOK, Row
    <3>3. Covered("client", row["client"].deposit + Pending("client") * Added)
      BY <1>a DEF DepositsKnown
    <3> QED BY <3>1, <3>2, <3>3 DEF Covered
  <2>2. GoodCheques' BY <1>4, <1>a, <2>1 DEF Select, GoodCheques, Covered
  <2> QED BY <1>4, <1>b, <1>c, <1>d, <1>e, <2>2 DEF Select, IInv
<1>5. CASE processTerminate
  <2>0. Growing /\ UNCHANGED <<chain, twice>>
    BY <1>5, <1>c DEF processTerminate
  <2>1. CASE Terminated("client") /\ mon' = NoRow /\ UNCHANGED <<row, post>>
    <3>1. GoodCheques' BY <2>0, <2>1, <1>a, <1>b, ChequesStay
    <3> QED BY <1>5, <2>1, <3>1, <1>b, TerminateParts DEF processTerminate
  <2>2. CASE mon' = NoRow /\ UNCHANGED <<db, post>>
    <3>1. GoodCheques' BY <2>0, <2>2, <1>a, <1>b, ChequesStay
    <3> QED BY <1>5, <2>0, <2>2, <3>1, <1>b, <1>d, <1>e DEF processTerminate, IInv
  <2>3. CASE Restart("client")
    BY <1>5, <2>0, <2>3, <1>b, RestartParts DEF processTerminate, IInv
  <2> QED BY <1>5, <2>1, <2>2, <2>3 DEF processTerminate
<1>6. CASE processPost
  <2>1. Cheque(mon) \in Nat /\ Cheque(mon) <= mon.deposit /\ mon.deposit \in Nat
    BY <1>a, ChequeNat DEF TypeOK, Row
  <2>2. Growing BY <1>6, <1>c DEF processPost
  <2>3. Covered("client", Cheque(mon))
    BY <2>1, <1>a DEF GoodCheques, Covered, TypeOK
  <2>4. Covered("client", mon.deposit)'
    <3>1. mon'.deposit = 0 /\ 0 <= chain'.deposit BY <1>6, <1>b DEF processPost, NoRow, TypeOK
    <3> QED BY <3>1 DEF Covered
  <2>5. ASSUME NEW p \in Posts PROVE Covered("client", post[p].amount)'
    <3>1. post'[p].amount = post[p].amount \/ post'[p].amount = Cheque(mon)
      BY <1>6, <1>a DEF processPost, TypeOK
    <3>2. Covered("client", post[p].amount) BY <1>a DEF GoodCheques
    <3>3. chain' = chain /\ twice' = twice BY <1>6 DEF processPost
    <3> QED BY <3>1, <3>2, <3>3, <2>3 DEF Covered
  <2>6. GoodCheques' BY <2>4, <2>5 DEF GoodCheques
  <2> QED BY <1>6, <2>2, <2>6, <1>b, <1>d, <1>e DEF processPost, IInv
<1>7. ASSUME NEW t \in txs, CooperativeClose(t) PROVE IInv'
  <2>1. chain'.deposit = chain.deposit /\ chain.deposit \in Nat
    BY <1>7, <1>a DEF CooperativeClose, TypeOK
  <2>2. Growing BY <1>7, <2>1 DEF CooperativeClose, Growing
  <2>3. \A u \in Sides : job'[u]["topup"] = job[u]["topup"]
    BY <1>7, <1>a DEF CooperativeClose, TypeOK, Queued, Events
  <2>4. \A u \in Sides : Pending(u)' <= Pending(u)
    BY <1>7, <2>3, <1>a, PendingNat DEF CooperativeClose, Pending
  <2>5. DepositsKnown' BY <1>7, <2>2, <2>4, <1>a, <1>b, DepositsStay DEF CooperativeClose
  <2>6. GoodReceipts' BY <1>7, <2>2, <1>a, <1>b, ReceiptsStay DEF CooperativeClose
  <2> QED BY <1>7, <2>2, <2>5, <2>6, <1>b, <1>f DEF CooperativeClose, IInv
<1>8. ASSUME NEW s \in Sides, TerminateByOther(s) PROVE IInv'
  BY <1>8, <1>b, <1>c, <1>f, TerminateParts DEF TerminateByOther, TerminateChannel
<1>9. ASSUME NEW s \in Sides, NEW k \in Kinds, Start(s, k) PROVE IInv'
  <2>1. Growing BY <1>9, <1>c DEF Start
  <2>2. run[s].kind = "none" /\ run'[s].kind = k /\ run'[s].row = row[s]
    BY <1>9, <1>a DEF Start, TypeOK
  <2>3. \A u \in Sides \ {s} : run'[u] = run[u] /\ job'[u] = job[u]
    BY <1>9, <1>a DEF Start, TypeOK
  <2>4. ASSUME NEW u \in Sides PROVE Pending(u)' = Pending(u)
    <3>1. CASE u # s BY <2>3, <3>1 DEF Pending
    <3>2. CASE u = s
      <4>1. CASE k = "topup"
        <5>1. job'[s]["topup"] = job[s]["topup"] - 1
          BY <1>9, <4>1, <1>a DEF Start, TypeOK, Queued, Events
        <5>2. job[s]["topup"] \in Nat BY <1>a DEF TypeOK, Queued, Events
        <5> QED BY <3>2, <4>1, <2>2, <5>1, <5>2 DEF Pending
      <4>2. CASE k # "topup"
        <5>1. job'[s]["topup"] = job[s]["topup"]
          BY <1>9, <4>2, <1>a DEF Start, TypeOK, Queued, Events
        <5> QED BY <3>2, <4>2, <2>2, <5>1 DEF Pending
      <4> QED BY <4>1, <4>2
    <3> QED BY <3>1, <3>2
  <2>5. DepositsKnown'
    <3>1. \A u \in Sides : Covered(u, row[u].deposit + Pending(u) * Added)'
      BY <1>9, <2>4, <1>a DEF Start, DepositsKnown, Covered
    <3>2. \A u \in Sides : (run[u].kind # "none" => run[u].row.deposit = row[u].deposit)'
      BY <1>9, <2>2, <2>3, <1>a DEF Start, DepositsKnown
    <3> QED BY <3>1, <3>2 DEF DepositsKnown
  <2>6. GoodReceipts'
    <3>1. row' = row /\ txs' = txs /\ chain' = chain /\ twice' = twice BY <1>9 DEF Start
    <3>2. run'["agent"].row = run["agent"].row \/ run'["agent"].row = row["agent"]
      BY <2>2, <2>3
    <3> QED BY <3>1, <3>2, <1>a DEF GoodReceipts, GoodReceipt, Covered
  <2> QED BY <1>9, <2>1, <2>5, <2>6, <1>b, <1>f DEF Start, IInv
<1>10. ASSUME NEW s \in Sides, Finish(s) PROVE IInv'
  <2>1. Growing BY <1>10, <1>c DEF Finish
  <2>2. run' = [run EXCEPT ![s] = NoRun] BY <1>10 DEF Finish, Again
  <2>3. /\ \A u \in Sides \ {s} : job'[u]["topup"] = job[u]["topup"]
        /\ job'[s]["topup"] <= job[s]["topup"]
    <3>1. job[s]["topup"] \in Nat BY <1>a DEF TypeOK, Queued, Events
    <3>2. CASE UNCHANGED job BY <3>1, <3>2
    <3>3. CASE CancelAndTerminate(s)
      BY <3>1, <3>3, <1>a DEF CancelAndTerminate, TypeOK, Queued, Events
    <3>4. CASE ClientClosing(s) /\ Again(s)
      BY <3>1, <3>4, <1>a DEF ClientClosing, Again, Requeued, TypeOK, Queued, Events
    <3> QED BY <1>10, <3>2, <3>3, <3>4 DEF Finish
  <2>4. DepositsKnown' BY <1>10, <2>1, <2>2, <2>3, <1>a, <1>b, SaveDeposits DEF Finish
  <2>5. GoodReceipts' BY <1>10, <2>1, <2>2, <1>a, <1>b, SaveReceipts DEF Finish
  <2> QED BY <1>10, <2>1, <2>4, <2>5, <1>b, <1>f DEF Finish, IInv
<1>11. ASSUME NEW s \in Sides, FinishFails(s) PROVE IInv'
  <2>1. Growing
    <3>1. \A u \in Sides : twice[u] => twice'[u] BY <1>11, <1>a DEF FinishFails, TypeOK
    <3>2. chain' = chain /\ chain.deposit \in Nat BY <1>11, <1>a DEF FinishFails, TypeOK
    <3> QED BY <3>1, <3>2 DEF Growing
  <2>2. run' = [run EXCEPT ![s] = NoRun] BY <1>11 DEF FinishFails, Again
  <2>3. /\ \A u \in Sides \ {s} : job'[u]["topup"] = job[u]["topup"]
        /\ job'[s]["topup"] <= job[s]["topup"] \/ twice'[s]
    <3>1. job[s]["topup"] \in Nat BY <1>a DEF TypeOK, Queued, Events
    <3>2. CASE run[s].kind = "topup" /\ job' # job
      <4>1. twice'[s] BY <1>11, <3>2, <1>a DEF FinishFails, TypeOK
      <4>2. \A u \in Sides \ {s} : job'[u] = job[u]
        BY <1>11, <1>a DEF FinishFails, Again, Requeued, TypeOK
      <4> QED BY <4>1, <4>2
    <3>3. CASE run[s].kind # "topup" \/ job' = job
      BY <1>11, <3>1, <3>3, <1>a DEF FinishFails, Again, Requeued, TypeOK, Queued, Events
    <3> QED BY <3>2, <3>3
  <2>4. DepositsKnown' BY <1>11, <2>1, <2>2, <2>3, <1>a, <1>b, SaveDeposits DEF FinishFails
  <2>5. GoodReceipts' BY <1>11, <2>1, <2>2, <1>a, <1>b, SaveReceipts DEF FinishFails
  <2> QED BY <1>11, <2>1, <2>4, <2>5, <1>b, <1>f DEF FinishFails, IInv
<1>12. ASSUME NEW s \in Sides, Crash(s) PROVE IInv'
  BY <1>12, <1>b, <1>c, RestartParts DEF Crash, IInv
<1>13. ASSUME NEW p \in Posts, handlePay(p) PROVE IInv'
  <2>1. Growing BY <1>13, <1>c DEF handlePay
  <2>2. \A q \in Posts : post'[q].amount = post[q].amount
    BY <1>13, <1>a DEF handlePay, Reply, TypeOK, Post
  <2>3. GoodCheques' BY <1>13, <2>1, <2>2, <1>a, <1>b, ChequesStay DEF handlePay
  <2> QED BY <1>13, <2>1, <2>3, <1>b, <1>d, <1>e DEF handlePay, IInv
<1>14. ASSUME NEW p \in Posts, updateChannelWithPayment(p) PROVE IInv'
  <2>1. Growing BY <1>14, <1>c DEF updateChannelWithPayment
  <2>2. \A q \in Posts : post'[q].amount = post[q].amount
    <3>1. Reply(p, "ok") \/ Reply(p, "refused") BY <1>14 DEF updateChannelWithPayment
    <3> QED BY <3>1, <1>a DEF Reply, TypeOK, Post
  <2>3. GoodCheques'
    BY <1>14, <2>1, <2>2, <1>a, <1>b, ChequesStay DEF updateChannelWithPayment
  <2>4. CASE UNCHANGED row
    BY <1>14, <2>1, <2>3, <2>4, <1>b, <1>d, <1>e DEF updateChannelWithPayment, IInv
  <2>5. CASE /\ Acceptable(row["agent"], post[p].amount)
             /\ row' = [row EXCEPT !["agent"].receipt = post[p].amount,
                                   !["agent"].sig = post[p].amount]
    <3>1. /\ row'["agent"].receipt = post[p].amount /\ row'["agent"].sig = post[p].amount
          /\ row'["agent"].deposit = row["agent"].deposit
          /\ row'["client"] = row["client"]
      BY <2>5, <1>a DEF TypeOK, Row
    <3>2. post[p].amount \in Nat /\ row["agent"].deposit \in Nat BY <1>a DEF TypeOK, Post, Row
    <3>3. UNCHANGED <<job, run, txs, chain, twice>> BY <1>14 DEF updateChannelWithPayment
    <3>4. DepositsKnown'
      <4>1. \A u \in Sides : row'[u].deposit = row[u].deposit BY <3>1 DEF Sides
      <4>2. \A u \in Sides : Pending(u)' <= Pending(u)
        BY <3>3, <1>a, PendingNat DEF Pending
      <4> QED BY <2>1, <3>3, <4>1, <4>2, <1>a, <1>b, DepositsStay
    <3>5. GoodReceipt(row["agent"])'
      <4>1. post[p].amount <= row["agent"].deposit BY <2>5, <3>2 DEF Acceptable
      <4>2. Covered("client", post[p].amount) BY <1>a DEF GoodCheques
      <4> QED BY <3>1, <3>3, <4>1, <4>2 DEF GoodReceipt, Covered
    <3>6. GoodReceipts' BY <3>3, <3>5, <1>a DEF GoodReceipts, GoodReceipt, Covered
    <3> QED BY <2>3, <3>4, <3>6, <1>b DEF IInv
  <2> QED BY <1>14, <2>4, <2>5 DEF updateChannelWithPayment
<1>15. ASSUME NEW p \in Posts, postCheque(p) PROVE IInv'
  <2>1. Growing BY <1>15, <1>c DEF postCheque
  <2>2. \A q \in Posts : post'[q].amount = post[q].amount \/ post'[q].amount = 0
    BY <1>15, <1>a DEF postCheque, TypeOK, NoPost
  <2>3. GoodCheques' BY <1>15, <2>1, <2>2, <1>a, <1>b, ChequesStay DEF postCheque
  <2>4. row'["agent"] = row["agent"] /\ \A u \in Sides : row'[u].deposit = row[u].deposit
    <3>1. row' = row \/ row' = [row EXCEPT !["client"].receipt = post[p].amount]
      BY <1>15 DEF postCheque, saveReceipt
    <3> QED BY <3>1, <1>a DEF TypeOK, Row, Sides
  <2>5. \A u \in Sides : /\ Pending(u)' <= Pending(u)
                         /\ run'[u].kind = run[u].kind /\ run'[u].row = run[u].row
    <3>1. CASE Terminated("client") BY <3>1, <1>a, <1>b, TerminatedParts
    <3>2. CASE UNCHANGED <<job, run>> BY <3>2, <1>a, PendingNat DEF Pending
    <3> QED BY <1>15, <3>1, <3>2 DEF postCheque
  <2>6. DepositsKnown' BY <2>1, <2>4, <2>5, <1>a, <1>b, DepositsStay
  <2>7. GoodReceipts' BY <1>15, <2>1, <2>4, <2>5, <1>a, <1>b, ReceiptsStay DEF postCheque
  <2> QED BY <2>3, <2>6, <2>7, <1>b DEF IInv
<1>16. ASSUME NEW p \in Posts, LoseMessage(p) PROVE IInv'
  <2>1. Growing BY <1>16, <1>c DEF LoseMessage
  <2>2. \A q \in Posts : post'[q].amount = post[q].amount \/ post'[q].amount = 0
    BY <1>16, <1>a DEF LoseMessage, TypeOK, NoPost, Post
  <2>3. GoodCheques' BY <1>16, <2>1, <2>2, <1>a, <1>b, ChequesStay DEF LoseMessage
  <2> QED BY <1>16, <2>1, <2>3, <1>b, <1>d, <1>e DEF LoseMessage, IInv
<1>17. ASSUME NEW p \in Posts, errUnexpected(p) PROVE IInv'
  <2>1. Growing BY <1>17, <1>c DEF errUnexpected
  <2>2. \A q \in Posts : post'[q].amount = post[q].amount
    BY <1>17, <1>a DEF errUnexpected, Reply, TypeOK, Post
  <2>3. GoodCheques' BY <1>17, <2>1, <2>2, <1>a, <1>b, ChequesStay DEF errUnexpected
  <2> QED BY <1>17, <2>1, <2>3, <1>b, <1>d, <1>e DEF errUnexpected, IInv
<1>18. ASSUME NEW s \in Sides, StopSession(s) PROVE IInv'
  <2>1. Growing BY <1>18, <1>c DEF StopSession
  <2>2. \A u \in Sides : job'[u]["topup"] = job[u]["topup"]
    BY <1>18, <1>a DEF StopSession, TypeOK, Queued, Events
  <2>3. \A u \in Sides : Pending(u)' <= Pending(u)
    BY <1>18, <2>2, <1>a, PendingNat DEF StopSession, Pending
  <2>4. DepositsKnown' BY <1>18, <2>1, <2>3, <1>a, <1>b, DepositsStay DEF StopSession
  <2> QED BY <1>18, <2>1, <2>4, <1>b, <1>e, <1>f DEF StopSession, IInv
<1>19. CASE UNCHANGED vars
  BY <1>19, <1>b, <1>c, <1>d, <1>e, <1>f DEF vars, IInv
<1> QED
  BY <1>1, <1>2, <1>3, <1>4, <1>5, <1>6, <1>7, <1>8, <1>9, <1>10, <1>11, <1>12,
     <1>13, <1>14, <1>15, <1>16, <1>17, <1>18, <1>19
  DEF Next, Monitor, Handler, Cheques, Kinds

\* The inductive invariant implies that the agent's receipts can be cashed.
LEMMA InvCashable == IInv => ReceiptCashable
<1> SUFFICES ASSUME IInv PROVE ReceiptCashable OBVIOUS
<1> "client" \in Sides /\ "agent" \in Sides BY DEF Sides
<1>0. TypeOK /\ DepositsKnown /\ GoodReceipts BY DEF IInv
<1>1. Cashable(row["agent"])
  <2>1. /\ row["agent"].sig = row["agent"].receipt
        /\ row["agent"].receipt <= row["agent"].deposit
        /\ Covered("client", row["agent"].receipt)
    BY <1>0 DEF GoodReceipts, GoodReceipt
  <2>2. Covered("agent", row["agent"].deposit + Pending("agent") * Added)
    BY <1>0 DEF DepositsKnown
  <2>3. Pending("agent") * Added \in Nat BY <1>0, PendingNat, AddedTimes
  <2>4. row["agent"].receipt \in Nat /\ row["agent"].deposit \in Nat /\ chain.deposit \in Nat
    BY <1>0 DEF TypeOK, Row
  <2>5. twice["agent"] \/ row["agent"].receipt <= chain.deposit
    BY <2>1, <2>2, <2>3, <2>4 DEF Covered
  <2> QED BY <2>1, <2>5 DEF Cashable, Covered
<1>2. \A t \in txs : Cashable([receipt |-> t.amount, sig |-> t.sig])
  BY <1>0 DEF GoodReceipts, Cashable, Covered
<1> QED BY <1>1, <1>2 DEF ReceiptCashable

\* The rows, the cheques and the closings stay consistent, however the two sides
\* interleave.
THEOREM InvCorrect == Spec => []IInv
  BY InitInv, NextInv, PTL DEF Spec

\* Whatever cheques are in flight and whichever stale row a handler writes back,
\* the agent's receipt and the closings it sends are ones the contract accepts:
\* for every price, deposit, number of cheques, top-ups, crashes and lost messages.
THEOREM ReceiptsCashable == Spec => []ReceiptCashable
  BY InvCorrect, InvCashable, PTL

-----------------------------------------------------------------------------
(* What the client takes for paid has been received.                       *)

\* Rows, runs and cheques that change as little as this keep PaidInv.
LEMMA PaidStays ==
  ASSUME TypeOK, TypeOK', PaidInv, ~lost' => ~lost,
         ~lost' => row'["agent"].receipt >= row["agent"].receipt,
         \/ row'["client"].receipt = row["client"].receipt
         \/ row'["client"].receipt = run["client"].row.receipt
         \/ \E p \in Posts : post[p].pc = "ok" /\ row'["client"].receipt = post[p].amount,
         \/ run'["client"].row.receipt = run["client"].row.receipt
         \/ run'["client"].row.receipt = row["client"].receipt
         \/ run'["client"].row.receipt = 0,
         \A p \in Posts : post'[p].pc = "ok" =>
           \/ post[p].pc = "ok" /\ post'[p].amount = post[p].amount
           \/ post'[p].amount = row'["agent"].receipt
  PROVE  PaidInv'
<1> "client" \in Sides /\ "agent" \in Sides BY DEF Sides
<1> SUFFICES ASSUME ~lost' PROVE
      /\ row'["client"].receipt <= row'["agent"].receipt
      /\ run'["client"].row.receipt <= row'["agent"].receipt
      /\ \A p \in Posts : post'[p].pc = "ok" => post'[p].amount <= row'["agent"].receipt
  BY DEF PaidInv
<1>1. /\ row["client"].receipt <= row["agent"].receipt
      /\ run["client"].row.receipt <= row["agent"].receipt
      /\ \A p \in Posts : post[p].pc = "ok" => post[p].amount <= row["agent"].receipt
  BY DEF PaidInv
<1>2. /\ row["client"].receipt \in Nat /\ row["agent"].receipt \in Nat
      /\ row'["client"].receipt \in Nat /\ row'["agent"].receipt \in Nat
      /\ run["client"].row.receipt \in Nat
      /\ \A p \in Posts : post[p].amount \in Nat /\ post'[p].amount \in Nat
  BY DEF TypeOK, Row, Run, Post
<1>3. row'["client"].receipt <= row'["agent"].receipt BY <1>1, <1>2
<1>4. run'["client"].row.receipt <= row'["agent"].receipt BY <1>1, <1>2
<1>5. \A p \in Posts : post'[p].pc = "ok" => post'[p].amount <= row'["agent"].receipt
  BY <1>1, <1>2
<1> QED BY <1>3, <1>4, <1>5

\* A save puts back the receipt that was read; the agent's is lost by that or
\* is not smaller than before.
LEMMA SaveRowPaid ==
  ASSUME TypeOK, NEW s \in Sides, run[s].kind # "none", SaveRow(s)
  PROVE  /\ ~lost' => ~lost
         /\ ~lost' => row'["agent"].receipt >= row["agent"].receipt
         /\ \/ row'["client"].receipt = row["client"].receipt
            \/ row'["client"].receipt = run["client"].row.receipt
<1> "client" \in Sides /\ "agent" \in Sides BY DEF Sides
<1>1. run[s].kind \in Kinds /\ run[s].row \in Row BY DEF TypeOK, Run
<1>2. PICK r \in Result(run[s].kind, run[s].row) : row' = [row EXCEPT ![s] = r]
  BY DEF SaveRow
<1>3. r.receipt = run[s].row.receipt BY <1>1, ResultParts
<1>4. lost' = (lost \/ (s = "agent" /\ row'[s].receipt < row[s].receipt)) BY DEF SaveRow
<1>5. ~lost' => ~lost BY <1>4
<1>6. ~lost' => row'["agent"].receipt >= row["agent"].receipt
  <2>1. row["agent"].receipt \in Nat /\ run[s].row.receipt \in Nat BY <1>1 DEF TypeOK, Row
  <2>2. CASE s = "agent"
    <3>1. row'["agent"].receipt \in Nat BY <1>2, <1>3, <2>1, <2>2 DEF TypeOK
    <3>2. ~lost' => ~(row'["agent"].receipt < row["agent"].receipt) BY <1>4, <2>2, Zenon
    <3> QED BY <2>1, <3>1, <3>2
  <2>3. CASE s # "agent"
    <3>1. row'["agent"] = row["agent"] BY <1>2, <2>3 DEF TypeOK
    <3> QED BY <2>1, <3>1
  <2> QED BY <2>2, <2>3
<1>7. \/ row'["client"].receipt = row["client"].receipt
      \/ row'["client"].receipt = run["client"].row.receipt
  BY <1>2, <1>3 DEF TypeOK
<1> QED BY <1>5, <1>6, <1>7

\* Every step keeps PaidInv.
LEMMA NextPaid == TypeOK /\ PaidInv /\ [Next]_vars => PaidInv'
<1> SUFFICES ASSUME TypeOK, PaidInv, [Next]_vars PROVE PaidInv' OBVIOUS
<1> USE DEF hist, db
<1> "client" \in Sides /\ "agent" \in Sides BY DEF Sides
<1>a. TypeOK' BY NextType
<1>b. row["agent"].receipt \in Nat BY DEF TypeOK, Row
<1>c. UNCHANGED <<row, run, post, lost>> => PaidInv' BY <1>a, <1>b, PaidStays
<1>d. ASSUME NEW s \in Sides, Terminated(s)
      PROVE  run'["client"].row.receipt = run["client"].row.receipt
  BY <1>d, <1>a, TerminatedParts
<1>e. ASSUME NEW s \in Sides, Restart(s), lost' = lost PROVE PaidInv'
  <2>1. row'["agent"].receipt = row["agent"].receipt /\ row'["client"].receipt = row["client"].receipt
    BY <1>e DEF Restart, TypeOK, Row
  <2>2. run'["client"] = run["client"] \/ run'["client"] = NoRun
    BY <1>e DEF Restart, TypeOK
  <2>3. \A p \in Posts : post'[p].pc = "ok" => post[p].pc = "ok" /\ post'[p].amount = post[p].amount
    BY <1>e DEF Restart, TypeOK, Post, NoPost
  <2> QED BY <1>a, <1>b, <1>e, <2>1, <2>2, <2>3, PaidStays DEF NoRun, NoRow
<1>1. CASE Consume BY <1>1, <1>c DEF Consume
<1>2. CASE TopUp BY <1>2, <1>c DEF TopUp
<1>3. CASE VerifyUnitsBasedChannels
  BY <1>3, <1>a, <1>b, <1>d, PaidStays DEF VerifyUnitsBasedChannels, TerminateChannel
<1>4. CASE Select BY <1>4, <1>c DEF Select
<1>5. CASE processTerminate
  BY <1>5, <1>a, <1>b, <1>c, <1>d, <1>e, PaidStays DEF processTerminate
<1>6. CASE processPost
  <2>1. \A p \in Posts : post'[p].pc = "ok" => post[p].pc = "ok" /\ post'[p].amount = post[p].amount
    <3>1. \/ post' = post
          \/ \E q \in Posts : post' =
               [post EXCEPT ![q] = [pc |-> "sent", amount |-> Cheque(mon), waiting |-> TRUE]]
      BY <1>6 DEF processPost
    <3> QED BY <3>1 DEF TypeOK
  <2> QED BY <1>6, <2>1, <1>a, <1>b, PaidStays DEF processPost
<1>7. ASSUME NEW t \in txs, CooperativeClose(t) PROVE PaidInv'
  BY <1>7, <1>c DEF CooperativeClose
<1>8. ASSUME NEW s \in Sides, TerminateByOther(s) PROVE PaidInv'
  BY <1>8, <1>a, <1>b, <1>d, PaidStays DEF TerminateByOther, TerminateChannel
<1>9. ASSUME NEW s \in Sides, NEW k \in Kinds, Start(s, k) PROVE PaidInv'
  <2>1. run'["client"].row = run["client"].row \/ run'["client"].row = row["client"]
    BY <1>9 DEF Start, TypeOK
  <2> QED BY <1>9, <2>1, <1>a, <1>b, PaidStays DEF Start
<1>10. ASSUME NEW s \in Sides, Finish(s) PROVE PaidInv'
  <2>1. run'["client"] = run["client"] \/ run'["client"] = NoRun
    BY <1>10 DEF Finish, Again, TypeOK
  <2> QED BY <1>10, <2>1, <1>a, SaveRowPaid, PaidStays DEF Finish, NoRun, NoRow
<1>11. ASSUME NEW s \in Sides, FinishFails(s) PROVE PaidInv'
  <2>1. run'["client"] = run["client"] \/ run'["client"] = NoRun
    BY <1>11 DEF FinishFails, Again, TypeOK
  <2> QED BY <1>11, <2>1, <1>a, SaveRowPaid, PaidStays DEF FinishFails, NoRun, NoRow
<1>12. ASSUME NEW s \in Sides, Crash(s) PROVE PaidInv'
  BY <1>12, <1>e DEF Crash
<1>13. ASSUME NEW p \in Posts, handlePay(p) PROVE PaidInv'
  <2>1. \A q \in Posts : post'[q].pc = "ok" => post[q].pc = "ok" /\ post'[q].amount = post[q].amount
    BY <1>13 DEF handlePay, Reply, TypeOK, Post
  <2> QED BY <1>13, <2>1, <1>a, <1>b, PaidStays DEF handlePay
<1>14. ASSUME NEW p \in Posts, updateChannelWithPayment(p) PROVE PaidInv'
  <2>1. \A q \in Posts : post'[q].amount = post[q].amount
    <3>1. Reply(p, "ok") \/ Reply(p, "refused") BY <1>14 DEF updateChannelWithPayment
    <3>2. post \in [Posts -> Post] BY DEF TypeOK
    <3>3. CASE Reply(p, "ok") BY <3>2, <3>3 DEF Reply, Post
    <3>4. CASE Reply(p, "refused") BY <3>2, <3>4 DEF Reply, Post
    <3> QED BY <3>1, <3>3, <3>4
  <2>2. CASE UNCHANGED row /\ Reply(p, "refused")
    <3>1. \A q \in Posts : post'[q].pc = "ok" => post[q].pc = "ok"
      BY <2>2 DEF Reply, TypeOK, Post
    <3> QED BY <1>14, <2>1, <2>2, <3>1, <1>a, <1>b, PaidStays DEF updateChannelWithPayment
  <2>3. CASE /\ Acceptable(row["agent"], post[p].amount) /\ Reply(p, "ok")
             /\ row' = [row EXCEPT !["agent"].receipt = post[p].amount,
                                   !["agent"].sig = post[p].amount]
    <3>1. /\ row'["agent"].receipt = post[p].amount
          /\ row'["client"] = row["client"]
      BY <2>3 DEF TypeOK, Row
    <3>2. post[p].amount \in Nat BY DEF TypeOK, Post
    <3>3. row'["agent"].receipt >= row["agent"].receipt BY <1>b, <2>3, <3>1, <3>2 DEF Acceptable
    <3>4. \A q \in Posts : post'[q].pc = "ok" => q = p \/ post[q].pc = "ok"
      BY <2>3 DEF Reply, TypeOK, Post
    <3> QED BY <1>14, <2>1, <3>1, <3>3, <3>4, <1>a, PaidStays DEF updateChannelWithPayment
  <2> QED BY <1>14, <2>2, <2>3 DEF updateChannelWithPayment
<1>15. ASSUME NEW p \in Posts, postCheque(p) PROVE PaidInv'
  <2>1. /\ row'["agent"] = row["agent"]
        /\ \/ row'["client"].receipt = row["client"].receipt
           \/ post[p].pc = "ok" /\ row'["client"].receipt = post[p].amount
    <3>1. \/ row' = row
          \/ post[p].pc = "ok" /\ row' = [row EXCEPT !["client"].receipt = post[p].amount]
      BY <1>15 DEF postCheque, saveReceipt
    <3> QED BY <3>1 DEF TypeOK, Row, Sides
  <2>2. \A q \in Posts : post'[q].pc = "ok" => post[q].pc = "ok" /\ post'[q].amount = post[q].amount
    BY <1>15 DEF postCheque, TypeOK, NoPost
  <2>3. run'["client"].row.receipt = run["client"].row.receipt
    BY <1>15, <1>d DEF postCheque
  <2> QED BY <1>15, <2>1, <2>2, <2>3, <1>a, <1>b, PaidStays DEF postCheque
<1>16. ASSUME NEW p \in Posts, LoseMessage(p) PROVE PaidInv'
  <2>1. \A q \in Posts : post'[q].pc = "ok" => post[q].pc = "ok" /\ post'[q].amount = post[q].amount
    BY <1>16 DEF LoseMessage, TypeOK, Post, NoPost
  <2> QED BY <1>16, <2>1, <1>a, <1>b, PaidStays DEF LoseMessage
<1>17. ASSUME NEW p \in Posts, errUnexpected(p) PROVE PaidInv'
  <2>1. \A q \in Posts : post'[q].pc = "ok" => post[q].pc = "ok" /\ post'[q].amount = post[q].amount
    BY <1>17 DEF errUnexpected, Reply, TypeOK, Post
  <2> QED BY <1>17, <2>1, <1>a, <1>b, PaidStays DEF errUnexpected
<1>18. ASSUME NEW s \in Sides, StopSession(s) PROVE PaidInv' BY <1>18, <1>c DEF StopSession
<1>19. CASE UNCHANGED vars BY <1>19, <1>c DEF vars
<1> QED
  BY <1>1, <1>2, <1>3, <1>4, <1>5, <1>6, <1>7, <1>8, <1>9, <1>10, <1>11, <1>12,
     <1>13, <1>14, <1>15, <1>16, <1>17, <1>18, <1>19
  DEF Next, Monitor, Handler, Cheques, Kinds

\* Cheques answered in any order, lost or repeated never put the client ahead of
\* the agent, as long as no handler of the agent writes an older receipt back.
THEOREM PaidReceived == Spec => []PaidIsReceived
<1>1. Init => PaidInv BY DEF Init, PaidInv, NoRun, NoRow, NoPost, Sides
<1>2. PaidInv => PaidIsReceived BY DEF PaidInv, PaidIsReceived
<1> QED BY <1>1, <1>2, NextPaid, TypeCorrect, PTL DEF Spec
=============================================================================

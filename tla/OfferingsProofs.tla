-------------------------- MODULE OfferingsProofs --------------------------
(***************************************************************************)
(* Proofs about Offerings, for every supply, every number of handlers and  *)
(* UI calls at once, both roles and every bound.                           *)
(*                                                                         *)
(* A handler believes the event its job was made of, and the row it read   *)
(* some time ago. IInv says that both may be believed: what the log has of *)
(* an offering the contract has done (LogBacked), an event stays where it  *)
(* is in the log (LogEnds), and every copy of the row is justified when it *)
(* is written back, because the contract never undoes what justified it.   *)
(*                                                                         *)
(* Four more invariants follow, each proved with the help of those before. *)
(* ContractInv: what is left and the channels that are open make up the    *)
(* supply. JobInv: a handler that runs has an active job, and none runs    *)
(* for the same object; so the object of a job does not change under its   *)
(* handler, and the supply of every copy is within bounds. SupplyInv, of   *)
(* an agent: one is taken for each channel it knows and given back for     *)
(* each closing whose job is done. CatalogueInv, of a client: the forward  *)
(* search leaves no gap, a row is made only of an active offering, and a   *)
(* removal that was taken has a job until the row says so.                 *)
(***************************************************************************)
EXTENDS Offerings, FiniteSetTheorems, TLAPS

Types ==
  /\ chain \in [st : {"none", "active", "removed"}, left : Nat, ripe : BOOLEAN,
                height : 0 .. MaxEvents]
  /\ log \in [Heights -> Event]
  /\ taken \subseteq Heights
  /\ rel \in [Heights -> Nat]
  /\ row \in Row
  /\ hand \in [Writers -> Hand]

LogEnds == \A n \in Heights : n > chain.height => log[n].kind = "none"

LogBacked ==
  \A n \in Heights :
    /\ log[n].kind \in {"created", "popedup"} => chain.st # "none"
    /\ log[n].kind = "deleted" => chain.st = "removed"

IInv == Types /\ LogEnds /\ LogBacked /\ NotAheadOfContract

\* The statuses by name.
LEMMA StatusElements ==
  /\ Status = {"none", "empty", "removed", "registered", "popped_up", "registering", "popping_up", "removing"}
  /\ Offered = {"registered", "popped_up"}
  BY DEF Status, Offered, Moving

\* No row and no handler are well-formed.
LEMMA NoneTyped == NoRow \in Row /\ NoHand \in Hand /\ NoRow.status = "none" /\ NoHand.row = NoRow /\ NoEvent \in Event
  BY StatusElements DEF NoRow, Row, NoHand, Hand, NoEvent, Event

\* At the beginning there is nothing: no offering, no event, no row.
LEMMA InitInv == Init => IInv
<1> SUFFICES ASSUME Init PROVE IInv OBVIOUS
<1>1. Types
  BY NoneTyped, OfferingsAssumption DEF Init, Types
<1>2. LogEnds /\ LogBacked
  BY NoneTyped DEF Init, LogEnds, LogBacked, NoEvent
<1>3. NotAheadOfContract
  BY NoneTyped, StatusElements DEF Init, NotAheadOfContract, Justified
<1>q. QED BY <1>1, <1>2, <1>3 DEF IInv

\* A status that may be written: what Justified asks of it, in this state.
Claim(s) ==
  /\ s \in {"registered", "popped_up", "popping_up", "removing"} => chain.st # "none"
  /\ s = "popped_up" => \E n \in Heights : log[n].kind = "popedup"
  /\ s = "removed" => chain.st = "removed"

\* Only the status of a row matters.
LEMMA JustifiedIsClaim == \A r \in Row : Justified(r) <=> Claim(r.status)
  BY StatusElements DEF Justified, Claim

\* The rows and the copies at hand make no unfounded claims.
LEMMA RowClaims ==
  ASSUME IInv
  PROVE  Claim(row.status) /\ \A w \in Writers : hand[w].row \in Row /\ Claim(hand[w].row.status)
  BY JustifiedIsClaim DEF IInv, Types, NotAheadOfContract, Hand

\* A step that leaves the contract alone, and writes a row with a status that
\* may be claimed, keeps the invariant; handlers may start and end.
LEMMA LocalStep ==
  ASSUME IInv, UNCHANGED <<chain, log>>,
         taken' \subseteq Heights, rel' \in [Heights -> Nat],
         row' \in Row, Claim(row'.status),
         hand' \in [Writers -> Hand],
         \A w \in Writers : hand'[w].row \in {hand[w].row, row, NoRow}
  PROVE  IInv'
<1>1. Types' /\ LogEnds' /\ LogBacked' BY DEF IInv, Types, LogEnds, LogBacked
<1>2. Justified(row)'
  BY StatusElements DEF Justified, Claim
<1>3. ASSUME NEW w \in Writers PROVE Justified(hand[w].row)'
  <2>1. Claim(hand'[w].row.status)
    BY RowClaims, NoneTyped DEF Claim
  <2>q. QED BY <2>1, StatusElements DEF Justified, Claim
<1>q. QED BY <1>1, <1>2, <1>3 DEF IInv, NotAheadOfContract

-----------------------------------------------------------------------------
(* Handlers.                                                               *)

\* The number of an event job is that of an event.
LEMMA EventNumber ==
  ASSUME NEW x \in Ids \cup {UiCall, Idle}, x[1] = "event"
  PROVE  x[2] \in Heights
  BY DEF Ids, Pre, UiCall, Idle

\* What the event of a handler lets it claim.
LEMMA EventClaims ==
  ASSUME IInv, NEW w \in Writers, NEW k \in Kinds, Handles(w, k)
  PROVE  /\ hand[w].id[2] \in Heights
         /\ k = "created" => Claim("registered")
         /\ k = "popedup" => Claim("popped_up")
         /\ k = "deleted" => Claim("removed")
<1>1. hand[w].id \in Ids \cup {UiCall, Idle}
  BY DEF IInv, Types, Hand
<1>2. hand[w].id[2] \in Heights
  BY <1>1, EventNumber DEF Handles, IsEvent
<1>3. log[hand[w].id[2]].kind = k
  BY DEF Handles, IsEvent
<1>q. QED BY <1>2, <1>3 DEF IInv, LogBacked, Claim

\* A handler ends: its copy of the row is gone.
LEMMA Released ==
  ASSUME IInv, NEW w \in Writers, Release(w)
  PROVE  /\ hand' \in [Writers -> Hand]
         /\ \A v \in Writers : hand'[v].row \in {hand[v].row, row, NoRow}
  BY NoneTyped DEF IInv, Types, Release

\* A handler that ends with a row that may be written.
LEMMA HandlerStep ==
  ASSUME IInv, NEW w \in Writers, Release(w),
         UNCHANGED <<chain, log, taken, rel>>,
         row' \in Row, Claim(row'.status)
  PROVE  IInv'
<1>1. taken' \subseteq Heights /\ rel' \in [Heights -> Nat]
  BY DEF IInv, Types
<1>q. QED BY <1>1, Released, LocalStep

\* A handler that is refused, or fails, leaves the row as it is.
LEMMA RefusedStep ==
  ASSUME IInv, NEW w \in Writers, Retry(w), UNCHANGED <<chain, log, taken, rel, row>>
  PROVE  IInv'
<1>1. row' \in Row /\ Claim(row'.status)
  BY RowClaims DEF IInv, Types
<1>q. QED BY <1>1, HandlerStep DEF Retry

\* A copy of the row with its status, or its supply, changed.
LEMMA Changed ==
  ASSUME NEW r \in Row
  PROVE  /\ \A s \in Status, b \in Nat :
              LET c == [r EXCEPT !.status = s, !.block = b] IN c \in Row /\ c.status = s
         /\ \A s \in Status :
              LET c == [r EXCEPT !.status = s] IN c \in Row /\ c.status = s
         /\ \A n \in Nat :
              LET c == [r EXCEPT !.cur = n] IN c \in Row /\ c.status = r.status
  BY DEF Row

\* A handler that saves a status it may claim.
LEMMA SaveStep ==
  ASSUME IInv, NEW w \in Writers, NEW s \in Status, NEW b \in Nat,
         Save(w, s, b), Claim(s), Finish(w), UNCHANGED <<chain, log, taken, rel>>
  PROVE  IInv'
<1>1. row' \in Row /\ row'.status = s
  BY RowClaims DEF Save, Write, Row
<1>q. QED BY <1>1, HandlerStep DEF Finish

\* A handler that changes the supply only.
LEMMA SupplyStep ==
  ASSUME IInv, NEW w \in Writers, NEW n \in Nat,
         row' = [hand[w].row EXCEPT !.cur = n],
         Finish(w), UNCHANGED <<chain, log, taken, rel>>
  PROVE  IInv'
<1>1. row' \in Row /\ row'.status = hand[w].row.status
  BY RowClaims, Changed
<1>2. Claim(row'.status)
  BY <1>1, RowClaims
<1>q. QED BY <1>1, <1>2, HandlerStep DEF Finish

\* The handlers of the agent that send transactions.
LEMMA AgentSends ==
  ASSUME IInv, NEW w \in Writers,
         \/ AgentPreOfferingMsgBCPublish(w) \/ AgentPreOfferingDelete(w)
         \/ AgentPreOfferingPopUp(w)
  PROVE  IInv'
<1>0. hand[w].row \in Row /\ hand[w].row.block \in Nat
  BY RowClaims DEF Row
<1>1. CASE AgentPreOfferingMsgBCPublish(w)
  <2>1. row' \in Row /\ row'.status = "registering"
    BY <1>0, <1>1, Changed, StatusElements DEF AgentPreOfferingMsgBCPublish
  <2>2. Claim(row'.status)
    BY <2>1 DEF Claim
  <2>q. QED BY <1>1, <2>1, <2>2, HandlerStep DEF AgentPreOfferingMsgBCPublish, Finish, monitor
<1>2. CASE AgentPreOfferingDelete(w)
  <2>1. CASE hand[w].row.status \in Offered /\ checkInPeriod
    <3>1. Claim("removing")
      BY <2>1 DEF checkInPeriod, Claim
    <3>q. QED BY <1>0, <1>2, <2>1, <3>1, SaveStep, StatusElements DEF AgentPreOfferingDelete, monitor
  <2>2. CASE ~(hand[w].row.status \in Offered /\ checkInPeriod)
    BY <1>2, <2>2, RefusedStep DEF AgentPreOfferingDelete, Refused, monitor
  <2>q. QED BY <2>1, <2>2
<1>3. CASE AgentPreOfferingPopUp(w)
  <2> DEFINE P == /\ hand[w].row.status \in Offered
                  /\ agentOfferingPopUpFindRelatedJobs(hand[w].id) = {}
                  /\ checkInPeriod
  <2>1. CASE P
    <3>1. Claim("popping_up")
      BY <2>1 DEF checkInPeriod, Claim
    <3>q. QED BY <1>0, <1>3, <2>1, <3>1, SaveStep, StatusElements DEF AgentPreOfferingPopUp, monitor
  <2>2. CASE ~P
    BY <1>3, <2>2, RefusedStep DEF AgentPreOfferingPopUp, Refused, monitor
  <2>q. QED BY <2>1, <2>2
<1>q. QED BY <1>1, <1>2, <1>3

\* The handlers of the agent's events.
LEMMA AgentHears ==
  ASSUME IInv, NEW w \in Writers,
         \/ AgentAfterOfferingMsgBCPublish(w) \/ AgentAfterOfferingPopUp(w)
         \/ AgentAfterOfferingDelete(w) \/ AgentAfterChannelCreate(w) \/ AgentAfterClose(w)
  PROVE  IInv'
<1>0. hand[w].row \in Row /\ hand[w].row.block \in Nat /\ hand[w].row.cur \in Nat
  BY RowClaims DEF Row
<1>k. {"created", "popedup", "deleted", "opened", "closed"} = Kinds /\ Heights \subseteq Nat
  BY OfferingsAssumption DEF Kinds, Heights
<1>1. CASE AgentAfterOfferingMsgBCPublish(w)
  <2>1. Claim("registered") /\ hand[w].id[2] \in Nat
    BY <1>1, <1>k, EventClaims DEF AgentAfterOfferingMsgBCPublish
  <2>q. QED BY <1>1, <2>1, SaveStep, StatusElements DEF AgentAfterOfferingMsgBCPublish, contract, monitor
<1>2. CASE AgentAfterOfferingPopUp(w)
  <2>1. Claim("popped_up") /\ hand[w].id[2] \in Nat
    BY <1>2, <1>k, EventClaims DEF AgentAfterOfferingPopUp
  <2>q. QED BY <1>2, <2>1, SaveStep, StatusElements DEF AgentAfterOfferingPopUp, contract, monitor
<1>3. CASE AgentAfterOfferingDelete(w)
  <2>1. Claim("removed")
    BY <1>3, <1>k, EventClaims DEF AgentAfterOfferingDelete
  <2>q. QED BY <1>0, <1>3, <2>1, SaveStep, StatusElements DEF AgentAfterOfferingDelete, contract, monitor
<1>4. CASE AgentAfterChannelCreate(w)
  <2> DEFINE P == hand[w].row.cur > 0 /\ hand[w].id[2] \notin known
  <2>1. CASE P
    <3>1. hand[w].row.cur - 1 \in Nat
      BY <1>0, <2>1
    <3>2. row' = [hand[w].row EXCEPT !.cur = hand[w].row.cur - 1]
      BY <1>4, <2>1 DEF AgentAfterChannelCreate, Write
    <3>q. QED BY <1>4, <2>1, <3>1, <3>2, SupplyStep DEF AgentAfterChannelCreate, monitor
  <2>2. CASE ~P
    BY <1>4, <2>2, RefusedStep DEF AgentAfterChannelCreate, Refused, monitor
  <2>q. QED BY <2>1, <2>2
<1>5. CASE AgentAfterClose(w)
  <2>1. CASE hand[w].row.cur < Supply
    <3>1. row' = [hand[w].row EXCEPT !.cur = hand[w].row.cur + 1]
      BY <1>5, <2>1 DEF AgentAfterClose
    <3>q. QED BY <1>0, <1>5, <2>1, <3>1, SupplyStep DEF AgentAfterClose, monitor
  <2>2. CASE ~(hand[w].row.cur < Supply)
    BY <1>5, <2>2, RefusedStep DEF AgentAfterClose, Refused, monitor
  <2>q. QED BY <2>1, <2>2
<1>q. QED BY <1>1, <1>2, <1>3, <1>4, <1>5

\* A row put in the catalogue is one of an offering active in the contract.
LEMMA Retrieved ==
  ASSUME IInv, NEW w \in Writers, hand[w].id[2] \in Heights, clientRetrieveAndSaveOffering(w)
  PROVE  row' \in Row /\ Claim(row'.status)
<1> DEFINE n == hand[w].id[2]
<1>0. n \in Nat /\ log[n].left \in Nat /\ rel[n] \in Nat
  BY OfferingsAssumption DEF IInv, Types, Event, Heights
<1>1. CASE fillOfferingFromMsg
  <2>1. row' = [status |-> "registered", block |-> n, cur |-> log[n].left, id |-> rel[n]]
    BY <1>1 DEF clientRetrieveAndSaveOffering
  <2>2. row' \in Row /\ row'.status = "registered"
    BY <1>0, <2>1, StatusElements DEF Row
  <2>q. QED BY <1>1, <2>2 DEF fillOfferingFromMsg, Claim
<1>2. CASE ~fillOfferingFromMsg
  BY <1>2, RowClaims DEF clientRetrieveAndSaveOffering, IInv, Types
<1>q. QED BY <1>1, <1>2

\* The handlers of the client.
LEMMA ClientHears ==
  ASSUME IInv, NEW w \in Writers, ClientHandler(w)
  PROVE  IInv'
<1>0. hand[w].row \in Row /\ hand[w].row.block \in Nat /\ hand[w].row.cur \in Nat
  BY RowClaims DEF Row
<1>k. {"created", "popedup", "deleted", "opened", "closed"} = Kinds /\ Heights \subseteq Nat
  BY OfferingsAssumption DEF Kinds, Heights
<1>r. row \in Row /\ Claim(row.status)
  BY RowClaims DEF IInv, Types
<1>1. CASE ClientAfterOfferingMsgBCPublish(w)
  <2>1. hand[w].id[2] \in Heights
    BY <1>1, <1>k, EventClaims DEF ClientAfterOfferingMsgBCPublish
  <2>2. row' \in Row /\ Claim(row'.status)
    BY <1>1, <2>1, Retrieved DEF ClientAfterOfferingMsgBCPublish
  <2>q. QED BY <1>1, <2>2, HandlerStep DEF ClientAfterOfferingMsgBCPublish, contract, monitor, Finish
<1>2. CASE ClientAfterOfferingPopUp(w)
  <2>1. hand[w].id[2] \in Heights /\ hand[w].id[2] \in Nat /\ Claim("popped_up")
    BY <1>2, <1>k, EventClaims DEF ClientAfterOfferingPopUp
  <2>2. CASE hand[w].row.status = "none"
    <3>1. row' \in Row /\ Claim(row'.status)
      BY <1>2, <2>1, <2>2, Retrieved DEF ClientAfterOfferingPopUp
    <3>q. QED BY <1>2, <3>1, HandlerStep DEF ClientAfterOfferingPopUp, contract, monitor, Finish
  <2>3. CASE Save(w, "popped_up", hand[w].id[2])
    BY <1>2, <2>1, <2>3, SaveStep, StatusElements DEF ClientAfterOfferingPopUp, contract, monitor
  <2>4. CASE UNCHANGED row
    BY <1>2, <1>r, <2>4, HandlerStep DEF ClientAfterOfferingPopUp, contract, monitor, Finish
  <2>q. QED BY <1>2, <2>2, <2>3, <2>4 DEF ClientAfterOfferingPopUp
<1>3. CASE ClientAfterOfferingDelete(w)
  <2>1. Claim("removed")
    BY <1>3, <1>k, EventClaims DEF ClientAfterOfferingDelete
  <2>q. QED BY <1>0, <1>3, <2>1, SaveStep, StatusElements DEF ClientAfterOfferingDelete, contract, monitor
<1>4. ASSUME NEW p \in BOOLEAN, NEW c, p => c \in Nat, UpdateCurrentSupply(w, p, c)
      PROVE  IInv'
  <2>1. CASE UNCHANGED row
    BY <1>4, <1>r, <2>1, HandlerStep DEF UpdateCurrentSupply, contract, monitor, Finish
  <2>2. CASE ~UNCHANGED row
    <3> DEFINE n == IF p THEN c ELSE chain.left
    <3>1. n \in Nat
      BY <1>4 DEF IInv, Types
    <3>2. row' = [hand[w].row EXCEPT !.cur = n]
      BY <1>4, <2>2 DEF UpdateCurrentSupply, Write
    <3>q. QED BY <1>4, <3>1, <3>2, SupplyStep DEF UpdateCurrentSupply, contract, monitor
  <2>q. QED BY <2>1, <2>2
<1>5. CASE DecrementCurrentSupply(w)
  <2> DEFINE p == hand[w].row.cur > 0
             c == hand[w].row.cur - 1
  <2>1. p \in BOOLEAN /\ (p => c \in Nat)
    BY <1>0
  <2>2. UpdateCurrentSupply(w, p, c)
    BY <1>5 DEF DecrementCurrentSupply
  <2> HIDE DEF p, c
  <2>q. QED BY <1>4, <2>1, <2>2
<1>6. CASE IncrementCurrentSupply(w)
  <2> DEFINE p == hand[w].row.cur < Supply
             c == hand[w].row.cur + 1
  <2>1. p \in BOOLEAN /\ (p => c \in Nat)
    BY <1>0, OfferingsAssumption
  <2>2. UpdateCurrentSupply(w, p, c)
    BY <1>6 DEF IncrementCurrentSupply
  <2> HIDE DEF p, c
  <2>q. QED BY <1>4, <2>1, <2>2
<1>q. QED BY <1>1, <1>2, <1>3, <1>5, <1>6 DEF ClientHandler

-----------------------------------------------------------------------------
(* The other steps of the program.                                         *)

\* A handler or a UI call that begins takes the row as it is.
LEMMA Begun ==
  ASSUME IInv, NEW w \in Writers, NEW x \in Ids \cup {UiCall},
         hand' = [hand EXCEPT ![w] = [id |-> x, row |-> row]],
         UNCHANGED <<chain, log, taken, rel, row>>
  PROVE  IInv'
<1>1. /\ hand' \in [Writers -> Hand]
      /\ \A v \in Writers : hand'[v].row \in {hand[v].row, row, NoRow}
  BY DEF IInv, Types, Hand
<1>2. row' \in Row /\ Claim(row'.status) /\ taken' \subseteq Heights /\ rel' \in [Heights -> Nat]
  BY RowClaims DEF IInv, Types
<1>q. QED BY <1>1, <1>2, LocalStep

\* The work of the queue and the end of a UI call.
LEMMA WorkStep ==
  ASSUME IInv, Work
  PROVE  IInv'
<1> PICK w \in Writers : \/ \E x \in Ids : Start(w, x)
                         \/ AgentHandler(w) \/ ClientHandler(w) \/ UiWrite(w)
  BY DEF Work
<1>1. CASE \E x \in Ids : Start(w, x)
  BY <1>1, Begun DEF Start, contract, monitor
<1>2. CASE AgentHandler(w)
  BY <1>2, AgentSends, AgentHears DEF AgentHandler
<1>3. CASE UiWrite(w)
  <2>1. row' \in Row /\ Claim(row'.status)
    BY <1>3, RowClaims DEF UiWrite, Write
  <2>q. QED BY <1>3, <2>1, HandlerStep DEF UiWrite, Release, contract, monitor
<1>q. QED BY <1>1, <1>2, <1>3, ClientHears

\* The user and the looper.
LEMMA UserStep ==
  ASSUME IInv, User
  PROVE  IInv'
<1>0. /\ taken \subseteq Heights /\ rel \in [Heights -> Nat] /\ hand \in [Writers -> Hand]
      /\ row \in Row /\ Claim(row.status)
  BY RowClaims DEF IInv, Types
<1>1. CASE CreateOffering
  <2>1. row' \in Row /\ row'.status = "empty"
    BY <1>1, OfferingsAssumption, StatusElements DEF CreateOffering, Row
  <2>2. Claim(row'.status)
    BY <2>1 DEF Claim
  <2>q. QED BY <1>0, <1>1, <2>1, <2>2, LocalStep DEF CreateOffering, contract, monitor
<1>2. CASE \E x \in Pre : ChangeOfferingStatus(x) \/ AutoOfferingPopUp(x)
  <2>1. UNCHANGED <<chain, log, taken, rel, row, hand>>
    BY <1>2 DEF ChangeOfferingStatus, AutoOfferingPopUp, contract, monitor
  <2>q. QED BY <1>0, <2>1, LocalStep
<1>3. CASE \E w \in Writers : UiRead(w)
  BY <1>3, Begun DEF UiRead, contract, monitor
<1>q. QED BY <1>1, <1>2, <1>3 DEF User

\* Failed handlers and crashes.
LEMMA FaultStep ==
  ASSUME IInv, Faults
  PROVE  IInv'
<1>1. CASE \E w \in Writers : HandlerFails(w)
  BY <1>1, RefusedStep DEF HandlerFails, monitor
<1>2. CASE Crash
  <2>1. /\ hand' \in [Writers -> Hand]
        /\ \A v \in Writers : hand'[v].row \in {hand[v].row, row, NoRow}
    BY <1>2, NoneTyped DEF Crash
  <2>2. row' \in Row /\ Claim(row'.status) /\ taken' \subseteq Heights /\ rel' \in [Heights -> Nat]
    BY <1>2, RowClaims DEF Crash, IInv, Types, contract, monitor
  <2>q. QED BY <1>2, <2>1, <2>2, LocalStep DEF Crash, contract, monitor
<1>q. QED BY <1>1, <1>2 DEF Faults

\* The ids the monitor may give to a job are numbers.
LEMMA RelatedIdsTyped ==
  ASSUME IInv, NEW n \in Heights
  PROVE  RelatedIds(n) \subseteq Nat
<1>1. CreateJobs \subseteq Nat
  BY DEF CreateJobs, IInv, Types
<1>2. n \in Nat /\ row.id \in Nat
  BY OfferingsAssumption DEF IInv, Types, Heights, Row
<1>q. QED BY <1>1, <1>2 DEF RelatedIds

\* The blockchain monitor.
LEMMA MonitorStep ==
  ASSUME IInv, Monitor
  PROVE  IInv'
<1>0. /\ taken \subseteq Heights /\ rel \in [Heights -> Nat] /\ hand \in [Writers -> Hand]
      /\ row \in Row /\ Claim(row.status)
  BY RowClaims DEF IInv, Types
<1>1. CASE StartMonitor
  BY <1>0, <1>1, LocalStep DEF StartMonitor, contract
<1>2. ASSUME NEW n \in Heights, TakeEvent(n)
      PROVE  IInv'
  <2>1. log[n].of \in Nat
    BY DEF IInv, Types, Event
  <2>2. rel' \in [Heights -> Nat]
    BY <1>0, <1>2, <2>1, RelatedIdsTyped DEF TakeEvent, AgentJob, ClientJob
  <2>q. QED BY <1>0, <1>2, <2>2, LocalStep DEF TakeEvent, contract
<1>q. QED BY <1>1, <1>2 DEF Monitor

-----------------------------------------------------------------------------
(* The contract.                                                           *)

\* The contract's record, whatever its height.
Chain == [st : {"none", "active", "removed"}, left : Nat, ripe : BOOLEAN, height : Nat]

\* The contract goes on: it never forgets the offering or its removal, it says
\* what it did, and where it said something it says nothing else.
LEMMA ContractStep ==
  ASSUME IInv, NEW kind \in Kinds, NEW left \in Nat, NEW of \in Nat,
         Emit(kind, left, of),
         chain' \in Chain,
         chain'.height = chain.height + 1,
         chain.st # "none" => chain'.st # "none",
         chain.st = "removed" => chain'.st = "removed",
         kind \in {"created", "popedup"} => chain'.st # "none",
         kind = "deleted" => chain'.st = "removed",
         UNCHANGED <<taken, rel, row, hand>>
  PROVE  IInv'
<1> DEFINE h == chain.height + 1
<1>0. chain.height \in Nat /\ h \in Heights /\ MaxEvents \in Nat
  BY OfferingsAssumption DEF IInv, Types, Heights, Emit
<1>1. log' = [log EXCEPT ![h] = [kind |-> kind, left |-> left, of |-> of]]
  BY DEF Emit
<1>2. log \in [Heights -> Event]
  BY DEF IInv, Types
<1>3. [kind |-> kind, left |-> left, of |-> of] \in Event
  BY DEF Event
<1>4. log' \in [Heights -> Event]
  BY <1>0, <1>1, <1>2, <1>3
<1>5. log'[h].kind = kind /\ \A n \in Heights : n # h => log'[n] = log[n]
  BY <1>0, <1>1, <1>2
<1>6. log[h].kind = "none"
  BY <1>0 DEF IInv, LogEnds
<1>7. chain' \in [st : {"none", "active", "removed"}, left : Nat, ripe : BOOLEAN,
                  height : 0 .. MaxEvents]
  BY <1>0 DEF Heights, Chain
<1>8. Types'
  BY <1>4, <1>7 DEF IInv, Types
<1>9. LogEnds'
  BY <1>0, <1>5 DEF IInv, LogEnds, Heights
<1>10. LogBacked'
  BY <1>5 DEF IInv, LogBacked
<1>11. (\E n \in Heights : log[n].kind = "popedup") => \E n \in Heights : log'[n].kind = "popedup"
  BY <1>5, <1>6
<1>12. \A r \in Row : Justified(r) => Justified(r)'
  BY <1>11 DEF Justified
<1>13. row \in Row /\ \A w \in Writers : hand[w].row \in Row
  BY RowClaims DEF IInv, Types
<1>14. NotAheadOfContract'
  BY <1>12, <1>13 DEF IInv, NotAheadOfContract
<1>q. QED BY <1>8, <1>9, <1>10, <1>14 DEF IInv

\* Its numbers are natural.
LEMMA ChainNumbers == IInv => chain.left \in Nat /\ chain.height \in Nat
  BY OfferingsAssumption DEF IInv, Types

\* The contract's record with some of its fields changed.
LEMMA ChainChanged ==
  ASSUME IInv
  PROVE  \A n, h \in Nat :
           /\ [chain EXCEPT !.st = "active", !.left = n, !.height = h] \in Chain
           /\ [chain EXCEPT !.ripe = FALSE, !.height = h] \in Chain
           /\ [chain EXCEPT !.st = "removed", !.height = h] \in Chain
           /\ [chain EXCEPT !.left = n, !.height = h] \in Chain
<1>1. chain \in Chain
  BY OfferingsAssumption DEF IInv, Types, Chain
<1>q. QED BY <1>1 DEF Chain

\* What a transaction does keeps the invariant.
LEMMA EffectStep ==
  ASSUME IInv, NEW k, Effect(k), UNCHANGED <<taken, rel, row, hand>>
  PROVE  IInv'
<1>0. /\ chain \in [st : {"none", "active", "removed"}, left : Nat, ripe : BOOLEAN,
                     height : 0 .. MaxEvents]
      /\ Supply \in Nat /\ 0 \in Nat /\ MaxEvents \in Nat
      /\ {"created", "popedup", "deleted"} \subseteq Kinds
  BY OfferingsAssumption DEF IInv, Types, Kinds
<1>1. CASE /\ k = "register" /\ chain.st = "none"
           /\ Emit("created", Supply, 0)
           /\ chain' = [chain EXCEPT !.st = "active", !.left = Supply, !.height = @ + 1]
  <2>1. /\ chain'.height = chain.height + 1 /\ chain'.st = "active"
    BY <1>0, <1>1
  <2>h. PICK h \in Nat : h = chain.height + 1 BY ChainNumbers
  <2>2. chain' = [chain EXCEPT !.st = "active", !.left = Supply, !.height = h]
    BY <1>1, <2>h
  <2>3. chain' \in Chain
    BY <1>0, <2>2, ChainChanged
  <2>q. QED BY <1>0, <1>1, <2>1, <2>3, ContractStep
<1>2. CASE /\ k = "popup" /\ chain.st = "active" /\ chain.ripe
           /\ Emit("popedup", chain.left, 0)
           /\ chain' = [chain EXCEPT !.ripe = FALSE, !.height = @ + 1]
  <2>1. /\ chain'.height = chain.height + 1 /\ chain'.st = chain.st /\ chain.left \in Nat
    BY <1>0, <1>2
  <2>h. PICK h \in Nat : h = chain.height + 1 BY ChainNumbers
  <2>2. chain' = [chain EXCEPT !.ripe = FALSE, !.height = h]
    BY <1>2, <2>h
  <2>3. chain' \in Chain
    BY <1>0, <2>2, ChainChanged
  <2>q. QED BY <1>0, <1>2, <2>1, <2>3, ContractStep
<1>3. CASE /\ k = "remove" /\ chain.st = "active" /\ chain.ripe
           /\ Emit("deleted", chain.left, 0)
           /\ chain' = [chain EXCEPT !.st = "removed", !.height = @ + 1]
  <2>1. /\ chain'.height = chain.height + 1 /\ chain'.st = "removed" /\ chain.left \in Nat
    BY <1>0, <1>3
  <2>h. PICK h \in Nat : h = chain.height + 1 BY ChainNumbers
  <2>2. chain' = [chain EXCEPT !.st = "removed", !.height = h]
    BY <1>3, <2>h
  <2>3. chain' \in Chain
    BY <1>0, <2>2, ChainChanged
  <2>q. QED BY <1>0, <1>3, <2>1, <2>3, ContractStep
<1>q. QED BY <1>1, <1>2, <1>3 DEF Effect

\* A step in which the program is left alone and the contract stays as it is, or
\* only its period ends.
LEMMA QuietStep ==
  ASSUME IInv, UNCHANGED <<log, taken, rel, row, hand>>,
         chain' = chain \/ chain' = [chain EXCEPT !.ripe = TRUE]
  PROVE  IInv'
<1>1. /\ chain' \in [st : {"none", "active", "removed"}, left : Nat, ripe : BOOLEAN,
                      height : 0 .. MaxEvents]
      /\ chain'.st = chain.st /\ chain'.height = chain.height
  BY DEF IInv, Types
<1>2. Types' /\ LogEnds' /\ LogBacked'
  BY <1>1 DEF IInv, Types, LogEnds, LogBacked
<1>3. NotAheadOfContract'
  BY <1>1 DEF IInv, NotAheadOfContract, Justified
<1>q. QED BY <1>2, <1>3 DEF IInv

\* Mining, and what the others do.
LEMMA ChainStep ==
  ASSUME IInv, Mining \/ Others
  PROVE  IInv'
<1>0. /\ chain \in [st : {"none", "active", "removed"}, left : Nat, ripe : BOOLEAN,
                     height : 0 .. MaxEvents]
      /\ chain.left \in Nat /\ chain.height \in Nat /\ Heights \subseteq Nat
      /\ {"opened", "closed"} \subseteq Kinds
  BY OfferingsAssumption DEF IInv, Types, Kinds, Heights
<1>1. ASSUME NEW k \in Actions, Mine(k) PROVE IInv'
  <2>1. CASE Effect(k) BY <1>1, <2>1, EffectStep DEF Mine, monitor
  <2>2. CASE UNCHANGED <<chain, log>> BY <1>1, <2>2, QuietStep DEF Mine, monitor
  <2>q. QED BY <1>1, <2>1, <2>2 DEF Mine
<1>2. CASE PeriodOver
  BY <1>2, QuietStep DEF PeriodOver, monitor
<1>3. ASSUME NEW k \in Actions, AgentActs(k) PROVE IInv'
  BY <1>3, EffectStep DEF AgentActs, monitor
<1>4. CASE OpenChannel
  <2>1. /\ chain'.height = chain.height + 1 /\ chain'.st = chain.st
        /\ chain.left - 1 \in Nat /\ chain.height + 1 \in Nat
    BY <1>0, <1>4, ChainNumbers DEF OpenChannel
  <2>h. PICK h \in Nat : h = chain.height + 1 BY ChainNumbers
  <2>n. PICK m \in Nat : m = chain.left - 1 BY <1>4, ChainNumbers DEF OpenChannel
  <2>2. chain' = [chain EXCEPT !.left = m, !.height = h]
    BY <1>4, <2>h, <2>n DEF OpenChannel
  <2>3. chain' \in Chain
    BY <1>0, <2>2, ChainChanged
  <2>q. QED BY <1>0, <1>4, <2>1, <2>3, ContractStep DEF OpenChannel, monitor
<1>5. ASSUME NEW n \in Heights, CloseChannel(n) PROVE IInv'
  <2>1. /\ chain'.height = chain.height + 1 /\ chain'.st = chain.st
        /\ chain.left + 1 \in Nat /\ n \in Nat
    BY <1>0, <1>5, ChainNumbers DEF CloseChannel
  <2>h. PICK h \in Nat : h = chain.height + 1 BY ChainNumbers
  <2>n. PICK m \in Nat : m = chain.left + 1 BY ChainNumbers
  <2>2. chain' = [chain EXCEPT !.left = m, !.height = h]
    BY <1>5, <2>h, <2>n DEF CloseChannel
  <2>3. chain' \in Chain
    BY <1>0, <2>2, ChainChanged
  <2>q. QED BY <1>0, <1>5, <2>1, <2>3, ContractStep DEF CloseChannel, monitor
<1>q. QED BY <1>1, <1>2, <1>3, <1>4, <1>5 DEF Mining, Others

-----------------------------------------------------------------------------
\* The invariant is inductive.
LEMMA NextInv == IInv /\ [Next]_vars => IInv'
<1> SUFFICES ASSUME IInv, [Next]_vars PROVE IInv' OBVIOUS
<1>1. CASE Next
  BY <1>1, WorkStep, UserStep, FaultStep, MonitorStep, ChainStep DEF Next
<1>2. CASE UNCHANGED vars
  BY <1>2, QuietStep DEF vars, contract, monitor
<1>q. QED BY <1>1, <1>2

\* No row of the offering, nor any copy of it about to be written back, is ahead
\* of the contract: the agent's and the client's handlers, run in any order and
\* again after failures, never mark as registered, popped up or removed what the
\* contract has not registered, popped up or removed.
THEOREM NotAhead == Spec => []NotAheadOfContract
<1>1. IInv => NotAheadOfContract BY DEF IInv
<1>q. QED BY <1>1, InitInv, NextInv, PTL DEF Spec

\* The invariant itself.
THEOREM InvCorrect == Spec => []IInv
  BY InitInv, NextInv, PTL DEF Spec
-----------------------------------------------------------------------------
(* The supply in the contract.  What is left and the channels that are     *)
(* open make up the supply: no event has more left than that.              *)

OpenNow ==
  {n \in Heights : /\ log[n].kind = "opened"
                   /\ \A m \in Heights : ~(log[m].kind = "closed" /\ log[m].of = n)}

LogFull == \A n \in Heights : n <= chain.height => log[n].kind # "none"

ContractInv ==
  /\ chain.st = "none" => chain.left = 0 /\ \A n \in Heights : log[n].kind = "none"
  /\ chain.st # "none" => chain.left + Cardinality(OpenNow) = Supply
  /\ chain.st = "removed" => \E n \in Heights : log[n].kind = "deleted"
  /\ \A m, n \in Heights : log[m].kind = "deleted" /\ log[n].kind = "deleted" => m = n
  /\ \A n \in Heights : log[n].left <= Supply
  /\ \A m \in Heights : log[m].kind = "closed" => log[m].of \in Heights /\ log[log[m].of].kind = "opened"
  /\ LogFull

\* Open channels are finitely many.
LEMMA OpenFinite == IsFiniteSet(Heights) /\ IsFiniteSet(OpenNow) /\ Cardinality(OpenNow) \in Nat
<1>1. IsFiniteSet(Heights)
  BY FS_Interval, OfferingsAssumption DEF Heights
<1>2. OpenNow \in SUBSET Heights
  BY DEF OpenNow
<1>3. IsFiniteSet(OpenNow)
  BY <1>1, <1>2, FS_Subset
<1>q. QED BY <1>1, <1>3, FS_CardinalityType

\* No more is left than the supply.
LEMMA LeftBound == IInv /\ ContractInv => chain.left <= Supply
<1> SUFFICES ASSUME IInv, ContractInv PROVE chain.left <= Supply OBVIOUS
<1>1. chain.left \in Nat /\ Supply \in Nat /\ Cardinality(OpenNow) \in Nat
  BY ChainNumbers, OpenFinite, OfferingsAssumption
<1>2. chain.st = "none" => chain.left = 0
  BY DEF ContractInv
<1>3. chain.st # "none" => chain.left + Cardinality(OpenNow) = Supply
  BY DEF ContractInv
<1>q. QED BY <1>1, <1>2, <1>3

\* The log after an event.
LEMMA Logged ==
  ASSUME IInv, NEW kind \in Kinds, NEW left \in Nat, NEW of \in Nat, Emit(kind, left, of)
  PROVE  /\ chain.height \in Nat /\ chain.height + 1 \in Heights
         /\ log[chain.height + 1].kind = "none"
         /\ log'[chain.height + 1] = [kind |-> kind, left |-> left, of |-> of]
         /\ \A n \in Heights : n # chain.height + 1 => log'[n] = log[n]
<1> DEFINE h == chain.height + 1
<1>0. chain.height \in Nat /\ h \in Heights /\ MaxEvents \in Nat
  BY OfferingsAssumption DEF IInv, Types, Heights, Emit
<1>1. log' = [log EXCEPT ![h] = [kind |-> kind, left |-> left, of |-> of]]
  BY DEF Emit
<1>2. log \in [Heights -> Event]
  BY DEF IInv, Types
<1>5. log'[h] = [kind |-> kind, left |-> left, of |-> of] /\ \A n \in Heights : n # h => log'[n] = log[n]
  BY <1>0, <1>1, <1>2
<1>6. log[h].kind = "none"
  BY <1>0 DEF IInv, LogEnds
<1>q. QED BY <1>0, <1>5, <1>6

\* The parts of the invariant about the log alone, after an event.
LEMMA LogStep ==
  ASSUME IInv, ContractInv, NEW kind \in Kinds, NEW left \in Nat, NEW of \in Nat, Emit(kind, left, of),
         left <= Supply, kind = "deleted" => chain.st = "active",
         kind = "closed" => of \in Heights /\ log[of].kind = "opened",
         chain'.height = chain.height + 1
  PROVE  /\ \A m, n \in Heights : log'[m].kind = "deleted" /\ log'[n].kind = "deleted" => m = n
         /\ \A n \in Heights : log'[n].left <= Supply
         /\ \A m \in Heights : log'[m].kind = "closed" => log'[m].of \in Heights /\ log'[log'[m].of].kind = "opened"
         /\ LogFull'
         /\ kind = "deleted" => \E n \in Heights : log'[n].kind = "deleted"
         /\ (\E n \in Heights : log[n].kind = "deleted") => \E n \in Heights : log'[n].kind = "deleted"
<1> DEFINE h == chain.height + 1
<1>1. /\ chain.height \in Nat /\ h \in Heights /\ log[h].kind = "none"
      /\ log'[h] = [kind |-> kind, left |-> left, of |-> of]
      /\ \A n \in Heights : n # h => log'[n] = log[n]
  BY Logged
<1>2. log'[h].kind = kind /\ log'[h].left = left /\ log'[h].of = of
  BY <1>1
<1>3. chain.st = "active" => \A n \in Heights : log[n].kind # "deleted"
  BY DEF IInv, LogBacked
<1>4. \A m, n \in Heights : log'[m].kind = "deleted" /\ log'[n].kind = "deleted" => m = n
  BY <1>1, <1>2, <1>3 DEF ContractInv
<1>5. \A n \in Heights : log'[n].left <= Supply
  BY <1>1, <1>2 DEF ContractInv
<1>6. ASSUME NEW m \in Heights, log'[m].kind = "closed"
      PROVE  log'[m].of \in Heights /\ log'[log'[m].of].kind = "opened"
  <2>1. log'[m].of \in Heights /\ log[log'[m].of].kind = "opened"
    <3>1. CASE m = h
      BY <1>2, <1>6, <3>1
    <3>2. CASE m # h
      BY <1>1, <1>6, <3>2 DEF ContractInv
    <3>q. QED BY <3>1, <3>2
  <2>2. log'[m].of # h
    BY <1>1, <2>1
  <2>q. QED BY <1>1, <2>1, <2>2
<1>7. LogFull'
  <2> SUFFICES ASSUME NEW n \in Heights, n <= chain.height + 1 PROVE log'[n].kind # "none"
    BY DEF LogFull
  <2>1. CASE n = h
    BY <1>2, <2>1 DEF Kinds
  <2>2. CASE n # h
    <3>1. n <= chain.height
      BY <1>1, <2>2 DEF Heights
    <3>q. QED BY <1>1, <2>2, <3>1 DEF ContractInv, LogFull
  <2>q. QED BY <2>1, <2>2
<1>8. kind = "deleted" => \E n \in Heights : log'[n].kind = "deleted"
  BY <1>1, <1>2
<1>9. (\E n \in Heights : log[n].kind = "deleted") => \E n \in Heights : log'[n].kind = "deleted"
  BY <1>1
<1>q. QED BY <1>4, <1>5, <1>6, <1>7, <1>8, <1>9

\* The channels that are open, after an event.
LEMMA OpenStep ==
  ASSUME IInv, ContractInv, NEW kind \in Kinds, NEW left \in Nat, NEW of \in Nat, Emit(kind, left, of)
  PROVE  /\ kind \in {"created", "popedup", "deleted"} => OpenNow' = OpenNow
         /\ kind = "opened" => Cardinality(OpenNow') = Cardinality(OpenNow) + 1
         /\ kind = "closed" /\ of \in OpenNow => Cardinality(OpenNow') = Cardinality(OpenNow) - 1
<1> DEFINE h == chain.height + 1
<1>1. /\ h \in Heights /\ log[h].kind = "none"
      /\ log'[h] = [kind |-> kind, left |-> left, of |-> of]
      /\ \A n \in Heights : n # h => log'[n] = log[n]
  BY Logged
<1>2. log'[h].kind = kind /\ log'[h].of = of
  BY <1>1
<1>3. \A m \in Heights : log[m].kind = "closed" => log[m].of # h
  BY <1>1 DEF ContractInv
<1>4. h \notin OpenNow
  BY <1>1 DEF OpenNow
<1> HIDE DEF h
<1>5. ASSUME kind \in {"created", "popedup", "deleted"} PROVE OpenNow' = OpenNow
  <2>1. \A n \in Heights : (log'[n].kind = "opened" <=> log[n].kind = "opened")
    BY <1>1, <1>2, <1>5
  <2>2. \A m, n \in Heights : (log'[m].kind = "closed" /\ log'[m].of = n) <=> (log[m].kind = "closed" /\ log[m].of = n)
    BY <1>1, <1>2, <1>5
  <2>q. QED BY <2>1, <2>2 DEF OpenNow
<1>6. ASSUME kind = "opened" PROVE Cardinality(OpenNow') = Cardinality(OpenNow) + 1
  <2>1. \A n \in Heights : log'[n].kind = "opened" <=> log[n].kind = "opened" \/ n = h
    BY <1>1, <1>2, <1>6
  <2>2. \A m, n \in Heights : (log'[m].kind = "closed" /\ log'[m].of = n) <=> (log[m].kind = "closed" /\ log[m].of = n)
    BY <1>1, <1>2, <1>6
  <2>3. OpenNow' = OpenNow \cup {h}
    BY <1>1, <1>3, <2>1, <2>2 DEF OpenNow
  <2>q. QED BY <1>4, <2>3, OpenFinite, FS_AddElement
<1>7. ASSUME kind = "closed", of \in OpenNow PROVE Cardinality(OpenNow') = Cardinality(OpenNow) - 1
  <2>1. \A n \in Heights : log'[n].kind = "opened" <=> log[n].kind = "opened"
    BY <1>1, <1>2, <1>7
  <2>2. \A m, n \in Heights : (log'[m].kind = "closed" /\ log'[m].of = n) <=> (log[m].kind = "closed" /\ log[m].of = n) \/ (m = h /\ n = of)
    BY <1>1, <1>2, <1>7
  <2>3. OpenNow' = OpenNow \ {of}
    BY <1>1, <2>1, <2>2 DEF OpenNow
  <2>q. QED BY <1>7, <2>3, OpenFinite, FS_RemoveElement
<1>q. QED BY <1>5, <1>6, <1>7

\* There is no offering in the contract to begin with.
LEMMA ContractInit == Init => ContractInv
  BY NoneTyped, OfferingsAssumption DEF Init, ContractInv, LogFull, NoEvent, Heights

\* Nothing happens in the contract, or its period ends.
LEMMA ContractKept ==
  ASSUME IInv, ContractInv, log' = log, chain' = chain \/ chain' = [chain EXCEPT !.ripe = TRUE]
  PROVE  ContractInv'
<1>1. chain'.st = chain.st /\ chain'.height = chain.height /\ chain'.left = chain.left
  BY DEF IInv, Types
<1>2. OpenNow' = OpenNow
  BY DEF OpenNow
<1>q. QED BY <1>1, <1>2 DEF ContractInv, LogFull

\* A transaction of the agent.
LEMMA ContractEffect ==
  ASSUME IInv, ContractInv, NEW k, Effect(k)
  PROVE  ContractInv'
<1>0. /\ chain \in [st : {"none", "active", "removed"}, left : Nat, ripe : BOOLEAN,
                     height : 0 .. MaxEvents]
      /\ Supply \in Nat /\ 0 \in Nat /\ chain.left \in Nat /\ chain.left <= Supply
      /\ {"created", "popedup", "deleted"} \subseteq Kinds
  BY OfferingsAssumption, LeftBound DEF IInv, Types, Kinds
<1>h. PICK h \in Nat : h = chain.height + 1 BY ChainNumbers
<1>1. CASE /\ k = "register" /\ chain.st = "none"
           /\ Emit("created", Supply, 0)
           /\ chain' = [chain EXCEPT !.st = "active", !.left = Supply, !.height = @ + 1]
  <2>1. chain'.height = chain.height + 1 /\ chain'.st = "active" /\ chain'.left = Supply
    BY <1>0, <1>1
  <2>2. OpenNow = {} /\ OpenNow' = OpenNow
    BY <1>0, <1>1, OpenStep DEF ContractInv, OpenNow
  <2>3. chain'.left + Cardinality(OpenNow') = Supply
    BY <1>0, <2>1, <2>2, FS_EmptySet
  <2>q. QED BY <1>0, <1>1, <2>1, <2>3, LogStep DEF ContractInv
<1>2. CASE /\ k = "popup" /\ chain.st = "active" /\ chain.ripe
           /\ Emit("popedup", chain.left, 0)
           /\ chain' = [chain EXCEPT !.ripe = FALSE, !.height = @ + 1]
  <2>1. chain'.height = chain.height + 1 /\ chain'.st = "active" /\ chain'.left = chain.left
    BY <1>0, <1>2
  <2>2. OpenNow' = OpenNow
    BY <1>0, <1>2, OpenStep
  <2>3. chain'.left + Cardinality(OpenNow') = Supply
    BY <1>2, <2>1, <2>2 DEF ContractInv
  <2>q. QED BY <1>0, <1>2, <2>1, <2>3, LogStep DEF ContractInv
<1>3. CASE /\ k = "remove" /\ chain.st = "active" /\ chain.ripe
           /\ Emit("deleted", chain.left, 0)
           /\ chain' = [chain EXCEPT !.st = "removed", !.height = @ + 1]
  <2>1. chain'.height = chain.height + 1 /\ chain'.st = "removed" /\ chain'.left = chain.left
    BY <1>0, <1>3
  <2>2. OpenNow' = OpenNow
    BY <1>0, <1>3, OpenStep
  <2>3. chain'.left + Cardinality(OpenNow') = Supply
    BY <1>3, <2>1, <2>2 DEF ContractInv
  <2>q. QED BY <1>0, <1>3, <2>1, <2>3, LogStep DEF ContractInv
<1>q. QED BY <1>1, <1>2, <1>3 DEF Effect

\* A channel is opened, or closed.
LEMMA ContractChannels ==
  ASSUME IInv, ContractInv, OpenChannel \/ \E n \in Heights : CloseChannel(n)
  PROVE  ContractInv'
<1>0. /\ chain \in [st : {"none", "active", "removed"}, left : Nat, ripe : BOOLEAN,
                     height : 0 .. MaxEvents]
      /\ Supply \in Nat /\ chain.left \in Nat /\ chain.left <= Supply /\ chain.height + 1 \in Nat
      /\ {"opened", "closed"} \subseteq Kinds /\ Heights \subseteq Nat /\ Cardinality(OpenNow) \in Nat
  BY OfferingsAssumption, LeftBound, OpenFinite DEF IInv, Types, Kinds, Heights
<1>1. CASE OpenChannel
  <2>1. /\ chain.left - 1 \in Nat /\ chain.left - 1 <= Supply
        /\ Emit("opened", chain.left - 1, chain.height + 1) /\ chain.st = "active"
    BY <1>0, <1>1 DEF OpenChannel
  <2>2. chain'.height = chain.height + 1 /\ chain'.st = "active" /\ chain'.left = chain.left - 1
    BY <1>0, <1>1 DEF OpenChannel
  <2>3. Cardinality(OpenNow') = Cardinality(OpenNow) + 1
    BY <1>0, <2>1, OpenStep
  <2>4. chain'.left + Cardinality(OpenNow') = Supply
    BY <1>0, <2>1, <2>2, <2>3 DEF ContractInv
  <2>5. /\ \A m, n \in Heights : log'[m].kind = "deleted" /\ log'[n].kind = "deleted" => m = n
        /\ \A n \in Heights : log'[n].left <= Supply
        /\ \A m \in Heights : log'[m].kind = "closed" => log'[m].of \in Heights /\ log'[log'[m].of].kind = "opened"
        /\ LogFull'
    BY <1>0, <2>1, <2>2, LogStep
  <2>q. QED BY <2>2, <2>4, <2>5 DEF ContractInv
<1>2. ASSUME NEW n \in Heights, CloseChannel(n) PROVE ContractInv'
  <2>1. n \in OpenNow /\ Emit("closed", chain.left + 1, n) /\ log[n].kind = "opened"
    BY <1>2 DEF CloseChannel, OpenNow
  <2>2. chain'.height = chain.height + 1 /\ chain'.st = chain.st /\ chain'.left = chain.left + 1
    BY <1>0, <1>2 DEF CloseChannel
  <2>n. chain.left + 1 \in Nat /\ n \in Nat
    BY <1>0
  <2>3. Cardinality(OpenNow') = Cardinality(OpenNow) - 1
    BY <1>0, <2>1, <2>n, OpenStep
  <2>4. chain.st # "none" /\ Cardinality(OpenNow) # 0
    BY <2>1, OpenFinite, FS_EmptySet DEF ContractInv
  <2>5. chain.left + Cardinality(OpenNow) = Supply
    BY <2>4 DEF ContractInv
  <2>6. chain'.left + Cardinality(OpenNow') = Supply /\ chain.left + 1 <= Supply
    BY <1>0, <2>2, <2>3, <2>4, <2>5
  <2>7. /\ \A m, i \in Heights : log'[m].kind = "deleted" /\ log'[i].kind = "deleted" => m = i
        /\ \A i \in Heights : log'[i].left <= Supply
        /\ \A m \in Heights : log'[m].kind = "closed" => log'[m].of \in Heights /\ log'[log'[m].of].kind = "opened"
        /\ LogFull'
        /\ (\E i \in Heights : log[i].kind = "deleted") => \E i \in Heights : log'[i].kind = "deleted"
    BY <1>0, <2>1, <2>2, <2>6, <2>n, LogStep
  <2>q. QED BY <2>2, <2>4, <2>6, <2>7 DEF ContractInv
<1>q. QED BY <1>1, <1>2

\* What is left in the contract and the channels that are open make up the
\* supply, whatever was opened and closed in whatever order.
THEOREM ContractCorrect == Spec => []ContractInv
<1>1. IInv /\ ContractInv /\ [Next]_vars => ContractInv'
  <2> SUFFICES ASSUME IInv, ContractInv, [Next]_vars PROVE ContractInv' OBVIOUS
  <2>1. CASE Mining
    <3>1. ASSUME NEW k \in Actions, Mine(k) PROVE ContractInv'
      BY <3>1, ContractEffect, ContractKept DEF Mine
    <3>2. CASE PeriodOver
      BY <3>2, ContractKept DEF PeriodOver
    <3>q. QED BY <2>1, <3>1, <3>2 DEF Mining
  <2>2. CASE Others
    BY <2>2, ContractEffect, ContractChannels DEF Others, AgentActs
  <2>3. CASE Work \/ Monitor \/ User \/ Faults \/ UNCHANGED vars
    <3>1. UNCHANGED <<chain, log>>
      BY <2>3 DEF Work, Monitor, User, Faults, vars, contract, Start, AgentHandler, ClientHandler, UiWrite,
         AgentPreOfferingMsgBCPublish, AgentPreOfferingDelete, AgentPreOfferingPopUp, AgentAfterOfferingMsgBCPublish,
         AgentAfterOfferingPopUp, AgentAfterOfferingDelete, AgentAfterChannelCreate, AgentAfterClose,
         ClientAfterOfferingMsgBCPublish, ClientAfterOfferingPopUp, ClientAfterOfferingDelete, DecrementCurrentSupply,
         IncrementCurrentSupply, UpdateCurrentSupply, StartMonitor, TakeEvent, CreateOffering, ChangeOfferingStatus,
         AutoOfferingPopUp, UiRead, Crash, HandlerFails
    <3>q. QED BY <3>1, ContractKept
  <2>q. QED BY <2>1, <2>2, <2>3 DEF Next
<1>q. QED BY <1>1, ContractInit, InvCorrect, PTL DEF Spec

-----------------------------------------------------------------------------
(* Jobs and their handlers.  A running handler has an active job, no two   *)
(* work on the same object, and an event not taken has no job: therefore   *)
(* the object of a job that runs does not change under its handler.        *)

Counts == {"publish", "popups", "removes", "channels", "edits", "faults"}

RestTyped ==
  /\ role \in Roles /\ txs \subseteq Actions /\ since \in Nat
  /\ job \in [Ids -> 0 .. TryLimit]
  /\ known \subseteq Heights /\ harm \in BOOLEAN
  /\ count \in [Counts -> Nat]

Within == row.cur <= Supply /\ \A w \in Writers : hand[w].row.cur <= Supply

Running == \A w \in Writers : hand[w].id \in Ids => job[hand[w].id] > 0

Exclusive ==
  \A v, w \in Writers :
    v # w /\ hand[v].id \in Ids /\ hand[w].id \in Ids => RelatedId(hand[v].id) # RelatedId(hand[w].id)

Untaken == \A n \in Heights : n \notin taken => rel[n] = 0 /\ job[<<"event", n>>] = 0

TakenLogged == \A n \in taken : log[n].kind # "none"

Jobs == Running /\ Exclusive /\ Untaken /\ TakenLogged

JobInv == RestTyped /\ Within /\ Jobs

\* Every event has an id; the ids of jobs are neither idle nor a UI call.
LEMMA IdFacts ==
  /\ \A n \in Heights : <<"event", n>> \in Ids
  /\ Pre \subseteq Ids /\ Idle \notin Ids /\ UiCall \notin Ids
  /\ \A x \in Ids : x[1] = "event" => x = <<"event", x[2]>> /\ x[2] \in Heights
  /\ \A x \in Pre : x[1] \in Actions
  /\ \A x \in Ids : x[1] # "event" => x \in Pre
  BY DEF Ids, Pre, Idle, UiCall, Actions

\* A handler of a job that is not one of the two others has a job.
LEMMA HasJob ==
  ASSUME IInv, NEW w \in Writers, hand[w].id[1] \in {"register", "remove", "popup", "event"}
  PROVE  hand[w].id \in Ids
<1>1. hand[w].id \in Ids \cup {UiCall, Idle}
  BY DEF IInv, Types, Hand
<1>q. QED BY <1>1 DEF UiCall, Idle

\* A bounded thing is counted.
LEMMA CountStep ==
  ASSUME count \in [Counts -> Nat], NEW k \in Counts, NEW max, Bounded(k, max)
  PROVE  count' \in [Counts -> Nat]
<1>1. PICK v \in Nat : v = count[k] + 1
  OBVIOUS
<1>2. count' = [count EXCEPT ![k] = v]
  BY <1>1 DEF Bounded
<1>q. QED BY <1>2

\* A request is counted as well.
LEMMA RequestCounted ==
  ASSUME count \in [Counts -> Nat], NEW k, Requested(k)
  PROVE  count' \in [Counts -> Nat]
<1>1. "publish" \in Counts /\ "popups" \in Counts /\ "removes" \in Counts
  BY DEF Counts
<1>q. QED BY <1>1, CountStep DEF Requested

\* A handler ends, and its own job is the only one that changes.
LEMMA Ended ==
  ASSUME IInv, job \in [Ids -> 0 .. TryLimit], Jobs, NEW w \in Writers, hand[w].id \in Ids, Release(w),
         UNCHANGED <<log, taken, rel>>,
         job' = job \/ \E v \in 0 .. TryLimit : job' = [job EXCEPT ![hand[w].id] = v]
  PROVE  job' \in [Ids -> 0 .. TryLimit] /\ Jobs'
<1>1. hand \in [Writers -> Hand] /\ hand' = [hand EXCEPT ![w] = NoHand]
  BY DEF IInv, Types, Release
<1>2. hand'[w].id \notin Ids /\ \A v \in Writers : v # w => hand'[v] = hand[v]
  BY <1>1, IdFacts DEF NoHand
<1>3. /\ job' \in [Ids -> 0 .. TryLimit]
      /\ \A x \in Ids : x # hand[w].id => job'[x] = job[x]
  OBVIOUS
<1>4. job[hand[w].id] > 0
  BY DEF Jobs, Running
<1>5. ASSUME NEW v \in Writers, v # w, hand[v].id \in Ids PROVE hand[v].id # hand[w].id
  BY <1>5 DEF Jobs, Exclusive
<1>6. Running'
  BY <1>2, <1>3, <1>5 DEF Jobs, Running
<1>7. Exclusive'
  BY <1>2 DEF Jobs, Exclusive, RelatedId
<1>8. Untaken'
  <2> SUFFICES ASSUME NEW n \in Heights, n \notin taken PROVE rel[n] = 0 /\ job'[<<"event", n>>] = 0
    BY DEF Untaken
  <2>1. rel[n] = 0 /\ job[<<"event", n>>] = 0 /\ <<"event", n>> \in Ids
    BY IdFacts DEF Jobs, Untaken
  <2>2. <<"event", n>> # hand[w].id
    BY <1>4, <2>1
  <2>q. QED BY <1>3, <2>1, <2>2
<1>9. TakenLogged'
  BY DEF Jobs, TakenLogged
<1>q. QED BY <1>3, <1>6, <1>7, <1>8, <1>9 DEF Jobs

\* How a handler ends: done, or to be run again.
LEMMA Ends ==
  ASSUME IInv, job \in [Ids -> 0 .. TryLimit], Jobs, NEW w \in Writers, hand[w].id \in Ids,
         Finish(w) \/ Retry(w)
  PROVE  /\ Release(w)
         /\ job' = job \/ \E v \in 0 .. TryLimit : job' = [job EXCEPT ![hand[w].id] = v]
<1>1. CASE Finish(w)
  <2>1. 0 \in 0 .. TryLimit
    BY OfferingsAssumption
  <2>q. QED BY <1>1, <2>1 DEF Finish
<1>2. CASE Retry(w)
  <2>1. job[hand[w].id] \in 0 .. TryLimit /\ job[hand[w].id] > 0
    BY DEF Jobs, Running
  <2>2. PICK v \in 0 .. TryLimit : v = job[hand[w].id] - 1
    BY <2>1, OfferingsAssumption
  <2>q. QED BY <1>2, <2>2 DEF Retry
<1>q. QED BY <1>1, <1>2

\* What all handlers have in common.
LEMMA HandlerEnds ==
  ASSUME IInv, RestTyped, Jobs, NEW w \in Writers, AgentHandler(w) \/ ClientHandler(w) \/ HandlerFails(w)
  PROVE  /\ hand[w].id \in Ids /\ (Finish(w) \/ Retry(w))
         /\ UNCHANGED <<role, chain, log, since, taken, rel>>
<1>1. hand[w].id \in Ids
  <2>1. \/ hand[w].id[1] \in {"register", "remove", "popup", "event"}
        \/ hand[w].id \in Ids
    BY DEF AgentHandler, ClientHandler, HandlerFails,
         AgentPreOfferingMsgBCPublish, AgentPreOfferingDelete, AgentPreOfferingPopUp, AgentAfterOfferingMsgBCPublish,
         AgentAfterOfferingPopUp, AgentAfterOfferingDelete, AgentAfterChannelCreate, AgentAfterClose,
         ClientAfterOfferingMsgBCPublish, ClientAfterOfferingPopUp, ClientAfterOfferingDelete, DecrementCurrentSupply,
         IncrementCurrentSupply, Handles, IsEvent
  <2>q. QED BY <2>1, HasJob
<1>2. (Finish(w) \/ Retry(w)) /\ UNCHANGED <<role, chain, log, since, taken, rel>>
  BY DEF AgentHandler, ClientHandler, HandlerFails, Refused, contract, monitor,
         AgentPreOfferingMsgBCPublish, AgentPreOfferingDelete, AgentPreOfferingPopUp, AgentAfterOfferingMsgBCPublish,
         AgentAfterOfferingPopUp, AgentAfterOfferingDelete, AgentAfterChannelCreate, AgentAfterClose,
         ClientAfterOfferingMsgBCPublish, ClientAfterOfferingPopUp, ClientAfterOfferingDelete, DecrementCurrentSupply,
         IncrementCurrentSupply, UpdateCurrentSupply
<1>q. QED BY <1>1, <1>2

\* What a handler does with the row: it leaves it, saves a copy with the same
\* supply, or changes the supply within its bounds.
LEMMA HandlerRow ==
  ASSUME IInv, ContractInv, RestTyped, Within, NEW w \in Writers, AgentHandler(w) \/ ClientHandler(w) \/ HandlerFails(w)
  PROVE  row'.cur <= Supply
<1>0. /\ hand[w].row \in Row /\ hand[w].row.cur \in Nat /\ hand[w].row.cur <= Supply
      /\ row.cur <= Supply /\ Supply \in Nat /\ chain.left <= Supply
  BY RowClaims, OfferingsAssumption, LeftBound DEF Row, Within
<1>1. ASSUME NEW s, NEW b, Save(w, s, b) PROVE row'.cur <= Supply
  <2>1. row' = [hand[w].row EXCEPT !.status = s, !.block = b]
    BY <1>1 DEF Save, Write
  <2>2. row'.cur = hand[w].row.cur
    BY <1>0, <2>1 DEF Row
  <2>q. QED BY <1>0, <2>2
<1>2. CASE AgentPreOfferingMsgBCPublish(w)
  <2>1. row' = [hand[w].row EXCEPT !.status = "registering"]
    BY <1>2 DEF AgentPreOfferingMsgBCPublish
  <2>q. QED BY <1>0, <2>1 DEF Row
<1>3. CASE \/ AgentPreOfferingDelete(w) \/ AgentPreOfferingPopUp(w) \/ AgentAfterOfferingMsgBCPublish(w)
           \/ AgentAfterOfferingPopUp(w) \/ AgentAfterOfferingDelete(w) \/ ClientAfterOfferingDelete(w)
  BY <1>0, <1>1, <1>3 DEF AgentPreOfferingDelete, AgentPreOfferingPopUp, AgentAfterOfferingMsgBCPublish,
     AgentAfterOfferingPopUp, AgentAfterOfferingDelete, ClientAfterOfferingDelete, Refused
<1>4. ASSUME NEW c, c <= Supply, row' = [hand[w].row EXCEPT !.cur = c] PROVE row'.cur <= Supply
  BY <1>0, <1>4 DEF Row
<1>5. CASE AgentAfterChannelCreate(w)
  <2>1. CASE hand[w].row.cur > 0 /\ hand[w].id[2] \notin known
    <3>1. row' = [hand[w].row EXCEPT !.cur = hand[w].row.cur - 1] /\ hand[w].row.cur - 1 <= Supply
      BY <1>0, <1>5, <2>1 DEF AgentAfterChannelCreate, Write
    <3>q. QED BY <1>4, <3>1
  <2>q. QED BY <1>0, <1>5, <2>1 DEF AgentAfterChannelCreate, Refused
<1>6. CASE AgentAfterClose(w)
  <2>1. CASE hand[w].row.cur < Supply
    <3>1. row' = [hand[w].row EXCEPT !.cur = hand[w].row.cur + 1] /\ hand[w].row.cur + 1 <= Supply
      BY <1>0, <1>6, <2>1 DEF AgentAfterClose
    <3>q. QED BY <1>4, <3>1
  <2>q. QED BY <1>0, <1>6, <2>1 DEF AgentAfterClose, Refused
<1>7. ASSUME hand[w].id[2] \in Heights, clientRetrieveAndSaveOffering(w) PROVE row'.cur <= Supply
  <2>1. log[hand[w].id[2]].left <= Supply
    BY <1>7 DEF ContractInv
  <2>q. QED BY <1>0, <1>7, <2>1 DEF clientRetrieveAndSaveOffering
<1>8. CASE ClientAfterOfferingMsgBCPublish(w)
  <2>1. hand[w].id[2] \in Heights
    BY <1>8, EventClaims DEF ClientAfterOfferingMsgBCPublish, Kinds
  <2>q. QED BY <1>7, <1>8, <2>1 DEF ClientAfterOfferingMsgBCPublish
<1>9. CASE ClientAfterOfferingPopUp(w)
  <2>1. hand[w].id[2] \in Heights
    BY <1>9, EventClaims DEF ClientAfterOfferingPopUp, Kinds
  <2>q. QED BY <1>0, <1>1, <1>7, <1>9, <2>1 DEF ClientAfterOfferingPopUp
<1>10. ASSUME NEW p \in BOOLEAN, NEW c, p => c <= Supply, UpdateCurrentSupply(w, p, c) PROVE row'.cur <= Supply
  <2>1. CASE UNCHANGED row
    BY <1>0, <2>1
  <2>2. CASE ~UNCHANGED row
    <3> DEFINE n == IF p THEN c ELSE chain.left
    <3>1. n <= Supply
      BY <1>0, <1>10
    <3>2. row' = [hand[w].row EXCEPT !.cur = n]
      BY <1>10, <2>2 DEF UpdateCurrentSupply, Write
    <3>q. QED BY <1>4, <3>1, <3>2
  <2>q. QED BY <2>1, <2>2
<1>11. CASE DecrementCurrentSupply(w)
  <2> DEFINE p == hand[w].row.cur > 0
             c == hand[w].row.cur - 1
  <2>1. p \in BOOLEAN /\ (p => c <= Supply) /\ UpdateCurrentSupply(w, p, c)
    BY <1>0, <1>11 DEF DecrementCurrentSupply
  <2> HIDE DEF p, c
  <2>q. QED BY <1>10, <2>1
<1>12. CASE IncrementCurrentSupply(w)
  <2> DEFINE p == hand[w].row.cur < Supply
             c == hand[w].row.cur + 1
  <2>1. p \in BOOLEAN /\ (p => c <= Supply) /\ UpdateCurrentSupply(w, p, c)
    BY <1>0, <1>12 DEF IncrementCurrentSupply
  <2> HIDE DEF p, c
  <2>q. QED BY <1>10, <2>1
<1>13. CASE HandlerFails(w)
  BY <1>0, <1>13 DEF HandlerFails
<1>q. QED BY <1>2, <1>3, <1>5, <1>6, <1>8, <1>9, <1>11, <1>12, <1>13 DEF AgentHandler, ClientHandler

\* The variables that the handlers share with nobody else keep their types.
LEMMA HandlerTypes ==
  ASSUME IInv, RestTyped, NEW w \in Writers, AgentHandler(w) \/ ClientHandler(w) \/ HandlerFails(w)
  PROVE  /\ txs' \subseteq Actions /\ known' \subseteq Heights
         /\ harm' \in BOOLEAN /\ count' \in [Counts -> Nat]
<1>0. txs \subseteq Actions /\ known \subseteq Heights /\ harm \in BOOLEAN /\ count \in [Counts -> Nat]
  BY DEF RestTyped
<1>1. "faults" \in Counts /\ {"register", "popup", "remove"} = Actions
  BY DEF Counts, Actions
<1>2. txs' \subseteq Actions
  BY <1>0, <1>1 DEF AgentHandler, ClientHandler, HandlerFails, Refused, contract, Send,
         AgentPreOfferingMsgBCPublish, AgentPreOfferingDelete, AgentPreOfferingPopUp, AgentAfterOfferingMsgBCPublish,
         AgentAfterOfferingPopUp, AgentAfterOfferingDelete, AgentAfterChannelCreate, AgentAfterClose,
         ClientAfterOfferingMsgBCPublish, ClientAfterOfferingPopUp, ClientAfterOfferingDelete, DecrementCurrentSupply,
         IncrementCurrentSupply, UpdateCurrentSupply
<1>3. known' \subseteq Heights
  <2>1. CASE AgentAfterChannelCreate(w)
    <3>1. hand[w].id[2] \in Heights
      BY <2>1, EventClaims DEF AgentAfterChannelCreate, Kinds
    <3>q. QED BY <1>0, <2>1, <3>1 DEF AgentAfterChannelCreate, Refused
  <2>q. QED BY <1>0, <2>1 DEF AgentHandler, ClientHandler, HandlerFails, Refused,
         AgentPreOfferingMsgBCPublish, AgentPreOfferingDelete, AgentPreOfferingPopUp, AgentAfterOfferingMsgBCPublish,
         AgentAfterOfferingPopUp, AgentAfterOfferingDelete, AgentAfterClose,
         ClientAfterOfferingMsgBCPublish, ClientAfterOfferingPopUp, ClientAfterOfferingDelete, DecrementCurrentSupply,
         IncrementCurrentSupply, UpdateCurrentSupply
<1>4. harm' \in BOOLEAN
  BY <1>0 DEF AgentHandler, ClientHandler, HandlerFails, Refused, Save, Write, clientRetrieveAndSaveOffering,
         AgentPreOfferingMsgBCPublish, AgentPreOfferingDelete, AgentPreOfferingPopUp, AgentAfterOfferingMsgBCPublish,
         AgentAfterOfferingPopUp, AgentAfterOfferingDelete, AgentAfterChannelCreate, AgentAfterClose,
         ClientAfterOfferingMsgBCPublish, ClientAfterOfferingPopUp, ClientAfterOfferingDelete, DecrementCurrentSupply,
         IncrementCurrentSupply, UpdateCurrentSupply
<1>5. Bounded("faults", MaxFaults) \/ UNCHANGED count
  BY DEF AgentHandler, ClientHandler, HandlerFails, Refused, Finish,
         AgentPreOfferingMsgBCPublish, AgentPreOfferingDelete, AgentPreOfferingPopUp, AgentAfterOfferingMsgBCPublish,
         AgentAfterOfferingPopUp, AgentAfterOfferingDelete, AgentAfterChannelCreate, AgentAfterClose,
         ClientAfterOfferingMsgBCPublish, ClientAfterOfferingPopUp, ClientAfterOfferingDelete, DecrementCurrentSupply,
         IncrementCurrentSupply, UpdateCurrentSupply
<1>6. count' \in [Counts -> Nat]
  BY <1>0, <1>1, <1>5, CountStep
<1>q. QED BY <1>2, <1>3, <1>4, <1>6

\* A handler that ends leaves the supplies at hand within their bounds.
LEMMA ReleasedWithin ==
  ASSUME IInv, Within, NEW w \in Writers, Release(w), row'.cur <= Supply
  PROVE  Within'
<1>1. hand \in [Writers -> Hand] /\ hand' = [hand EXCEPT ![w] = NoHand] /\ NoHand.row.cur = 0 /\ Supply \in Nat
  BY OfferingsAssumption DEF IInv, Types, Release, NoHand, NoRow
<1>2. \A v \in Writers : hand'[v].row.cur <= Supply
  BY <1>1 DEF Within
<1>q. QED BY <1>2 DEF Within

\* A handler keeps the invariant.
LEMMA HandlerJobs ==
  ASSUME IInv, ContractInv, JobInv, NEW w \in Writers, AgentHandler(w) \/ ClientHandler(w) \/ HandlerFails(w)
  PROVE  JobInv'
<1>1. hand[w].id \in Ids /\ (Finish(w) \/ Retry(w)) /\ UNCHANGED <<role, chain, log, since, taken, rel>>
  BY HandlerEnds DEF JobInv
<1>2. Release(w) /\ (job' = job \/ \E v \in 0 .. TryLimit : job' = [job EXCEPT ![hand[w].id] = v])
  BY <1>1, Ends DEF JobInv, RestTyped
<1>3. job' \in [Ids -> 0 .. TryLimit] /\ Jobs'
  BY <1>1, <1>2, Ended DEF JobInv, RestTyped
<1>4. row'.cur <= Supply
  BY HandlerRow DEF JobInv
<1>5. Within'
  BY <1>2, <1>4, ReleasedWithin DEF JobInv
<1>6. RestTyped'
  BY <1>1, <1>3, HandlerTypes DEF JobInv, RestTyped
<1>q. QED BY <1>3, <1>5, <1>6 DEF JobInv

\* Neither jobs nor handlers change, and no event is forgotten.
LEMMA JobsKept ==
  ASSUME IInv, Jobs, UNCHANGED <<taken, rel, job, hand>>,
         \A n \in Heights : log[n].kind # "none" => log'[n].kind # "none"
  PROVE  Jobs'
<1>1. taken \subseteq Heights
  BY DEF IInv, Types
<1>q. QED BY <1>1 DEF Jobs, Running, Exclusive, Untaken, TakenLogged, RelatedId

\* Nothing disappears from the log.
LEMMA LogGrows ==
  ASSUME IInv, ContractInv, Mining \/ Others
  PROVE  \A n \in Heights : log[n].kind # "none" => log'[n] = log[n]
<1>0. /\ Supply \in Nat /\ 0 \in Nat /\ chain.left \in Nat /\ chain.height + 1 \in Nat
      /\ chain.left + 1 \in Nat /\ (chain.left > 0 => chain.left - 1 \in Nat)
      /\ Kinds = {"created", "popedup", "deleted", "opened", "closed"} /\ Heights \subseteq Nat
  BY OfferingsAssumption, ChainNumbers DEF Kinds, Heights
<1>1. UNCHANGED log \/ \E kind \in Kinds, left \in Nat, of \in Nat : Emit(kind, left, of)
  <2>1. ASSUME NEW k, Effect(k) PROVE \E kind \in Kinds, left \in Nat, of \in Nat : Emit(kind, left, of)
    BY <1>0, <2>1 DEF Effect
  <2>2. CASE Mining
    BY <2>1, <2>2 DEF Mining, Mine, PeriodOver
  <2>3. CASE Others
    BY <1>0, <2>1, <2>3 DEF Others, AgentActs, OpenChannel, CloseChannel
  <2>q. QED BY <2>2, <2>3
<1>2. CASE UNCHANGED log
  BY <1>2
<1>3. ASSUME NEW kind \in Kinds, NEW left \in Nat, NEW of \in Nat, Emit(kind, left, of)
      PROVE  \A n \in Heights : log[n].kind # "none" => log'[n] = log[n]
  <2>1. log[chain.height + 1].kind = "none" /\ \A n \in Heights : n # chain.height + 1 => log'[n] = log[n]
    BY <1>3, Logged
  <2>q. QED BY <2>1
<1>q. QED BY <1>1, <1>2, <1>3

\* The contract and the others.
LEMMA ChainJobs ==
  ASSUME IInv, ContractInv, JobInv, Mining \/ Others
  PROVE  JobInv'
<1>0. UNCHANGED <<role, since, taken, rel, row, job, known, hand, harm>>
  BY DEF Mining, Mine, PeriodOver, Others, AgentActs, OpenChannel, CloseChannel, monitor
<1>1. txs' \subseteq Actions
  BY DEF Mining, Mine, PeriodOver, Others, AgentActs, OpenChannel, CloseChannel, JobInv, RestTyped
<1>2. count' \in [Counts -> Nat]
  <2>1. count \in [Counts -> Nat] /\ "channels" \in Counts
    BY DEF JobInv, RestTyped, Counts
  <2>q. QED BY <2>1, CountStep, RequestCounted DEF Mining, Mine, PeriodOver, Others, AgentActs, OpenChannel, CloseChannel
<1>3. Jobs'
  BY <1>0, LogGrows, JobsKept DEF JobInv
<1>q. QED BY <1>0, <1>1, <1>2, <1>3 DEF JobInv, RestTyped, Within

\* A job is added, of an offering's status.
LEMMA JobAdded ==
  ASSUME IInv, RestTyped, Jobs, NEW x \in Pre, job' = [job EXCEPT ![x] = TryLimit], UNCHANGED <<log, taken, rel, hand>>
  PROVE  job' \in [Ids -> 0 .. TryLimit] /\ Jobs'
<1>1. TryLimit \in 0 .. TryLimit /\ TryLimit > 0 /\ x \in Ids /\ job \in [Ids -> 0 .. TryLimit]
  BY OfferingsAssumption, IdFacts DEF RestTyped
<1>2. \A n \in Heights : <<"event", n>> # x /\ <<"event", n>> \in Ids
  BY IdFacts DEF Actions
<1>3. Running'
  BY <1>1 DEF Jobs, Running
<1>4. Untaken'
  BY <1>1, <1>2 DEF Jobs, Untaken
<1>q. QED BY <1>1, <1>3, <1>4 DEF Jobs, Exclusive, TakenLogged, RelatedId

\* A handler or a UI call begins.
LEMMA HandTaken ==
  ASSUME IInv, Within, Running, Exclusive, NEW w \in Writers, NEW x \in Ids \cup {UiCall},
         hand' = [hand EXCEPT ![w] = [id |-> x, row |-> row]],
         x \in Ids => /\ job[x] > 0
                      /\ \A v \in Writers : hand[v].id \in Ids => RelatedId(hand[v].id) # RelatedId(x),
         UNCHANGED <<job, rel, row>>
  PROVE  Within' /\ Running' /\ Exclusive'
<1>1. /\ hand'[w].id = x /\ hand'[w].row = row
      /\ \A v \in Writers : v # w => hand'[v] = hand[v]
  BY DEF IInv, Types
<1>2. Within'
  BY <1>1 DEF Within
<1>3. Running'
  BY <1>1 DEF Running
<1>4. Exclusive'
  BY <1>1 DEF Exclusive, RelatedId
<1>q. QED BY <1>2, <1>3, <1>4

\* The user, the looper, and the queue that starts a job.
LEMMA UserJobs ==
  ASSUME IInv, ContractInv, JobInv, User \/ \E w \in Writers, x \in Ids : Start(w, x)
  PROVE  JobInv'
<1>0. count \in [Counts -> Nat] /\ "popups" \in Counts /\ "edits" \in Counts /\ Supply \in Nat
  BY OfferingsAssumption DEF JobInv, RestTyped, Counts
<1>1. CASE CreateOffering
  <2>1. Jobs'
    BY <1>1, JobsKept DEF CreateOffering, JobInv, contract, monitor
  <2>2. row'.cur = Supply
    BY <1>1 DEF CreateOffering
  <2>3. Within'
    BY <1>0, <1>1, <2>2 DEF CreateOffering, JobInv, Within
  <2>q. QED BY <1>1, <2>1, <2>3 DEF CreateOffering, JobInv, RestTyped, contract, monitor
<1>2. ASSUME NEW x \in Pre, ChangeOfferingStatus(x) \/ AutoOfferingPopUp(x) PROVE JobInv'
  <2>1. job' = [job EXCEPT ![x] = TryLimit] /\ UNCHANGED <<role, chain, log, txs, since, taken, rel, row, known, hand, harm>>
    BY <1>2 DEF ChangeOfferingStatus, AutoOfferingPopUp, contract, monitor
  <2>2. job' \in [Ids -> 0 .. TryLimit] /\ Jobs'
    BY <2>1, JobAdded DEF JobInv
  <2>3. count' \in [Counts -> Nat]
    BY <1>0, <1>2, CountStep, RequestCounted DEF ChangeOfferingStatus, AutoOfferingPopUp
  <2>q. QED BY <2>1, <2>2, <2>3 DEF JobInv, RestTyped, Within
<1>3. ASSUME NEW w \in Writers, UiRead(w) PROVE JobInv'
  <2>1. Within' /\ Running' /\ Exclusive'
    BY <1>3, HandTaken, IdFacts DEF UiRead, JobInv, Jobs, contract, monitor
  <2>2. count' \in [Counts -> Nat]
    BY <1>0, <1>3, CountStep DEF UiRead
  <2>q. QED BY <1>3, <2>1, <2>2 DEF UiRead, JobInv, Jobs, RestTyped, Untaken, TakenLogged, contract, monitor
<1>4. ASSUME NEW w \in Writers, NEW x \in Ids, Start(w, x) PROVE JobInv'
  <2>1. Within' /\ Running' /\ Exclusive'
    BY <1>4, HandTaken DEF Start, JobInv, Jobs, contract, monitor
  <2>q. QED BY <1>4, <2>1 DEF Start, JobInv, Jobs, RestTyped, Untaken, TakenLogged, contract, monitor
<1>q. QED BY <1>1, <1>2, <1>3, <1>4 DEF User

\* A UI call ends, or the program dies: there is no handler more than before.
LEMMA HandsFreed ==
  ASSUME IInv, ContractInv, JobInv, Crash \/ \E w \in Writers : UiWrite(w)
  PROVE  JobInv'
<1>0. hand \in [Writers -> Hand] /\ NoHand.id \notin Ids /\ NoHand.row.cur = 0 /\ Supply \in Nat
  BY IdFacts, OfferingsAssumption DEF IInv, Types, NoHand, NoRow
<1>1. CASE Crash
  <2>1. \A v \in Writers : hand'[v] = NoHand
    BY <1>1 DEF Crash
  <2>2. Within' /\ Running' /\ Exclusive'
    BY <1>0, <1>1, <2>1 DEF Crash, JobInv, Within, Running, Exclusive
  <2>3. count' \in [Counts -> Nat]
    BY <1>1, CountStep DEF Crash, JobInv, RestTyped, Counts
  <2>q. QED BY <1>1, <2>2, <2>3 DEF Crash, JobInv, Jobs, RestTyped, Untaken, TakenLogged, contract, monitor
<1>2. ASSUME NEW w \in Writers, UiWrite(w) PROVE JobInv'
  <2>1. \A v \in Writers : hand'[v] = NoHand \/ hand'[v] = hand[v]
    BY <1>0, <1>2 DEF UiWrite
  <2>2. row'.cur <= Supply /\ harm' \in BOOLEAN
    BY <1>2 DEF UiWrite, Write, JobInv, Within
  <2>3. Within'
    BY <1>0, <2>1, <2>2 DEF JobInv, Within
  <2>4. Running' /\ Exclusive'
    BY <1>0, <1>2, <2>1 DEF UiWrite, JobInv, Jobs, Running, Exclusive, RelatedId, monitor
  <2>q. QED BY <1>2, <2>2, <2>3, <2>4 DEF UiWrite, JobInv, Jobs, RestTyped, Untaken, TakenLogged, contract, monitor
<1>q. QED BY <1>1, <1>2

\* What becomes of an event: no job, or one for some object.
LEMMA Taken ==
  ASSUME IInv, NEW n \in Heights, TakeEvent(n)
  PROVE  /\ n \notin taken /\ taken' = taken \cup {n} /\ log[n].kind # "none"
         /\ \/ UNCHANGED <<rel, job>>
            \/ \E i \in Nat : /\ rel' = [rel EXCEPT ![n] = i]
                              /\ job' = [job EXCEPT ![<<"event", n>>] = TryLimit]
<1>1. log[n].of \in Nat
  BY DEF IInv, Types, Event
<1>q. QED BY <1>1, RelatedIdsTyped DEF TakeEvent, AgentJob, ClientJob

\* The monitor: an event that is taken had no job, nor a handler.
LEMMA MonitorJobs ==
  ASSUME IInv, ContractInv, JobInv, Monitor
  PROVE  JobInv'
<1>1. CASE StartMonitor
  <2>1. since' \in Nat
    BY <1>1, ChainNumbers DEF StartMonitor
  <2>2. Jobs'
    BY <1>1, JobsKept DEF StartMonitor, JobInv, contract
  <2>q. QED BY <1>1, <2>1, <2>2 DEF StartMonitor, JobInv, RestTyped, Within, contract
<1>2. ASSUME NEW n \in Heights, TakeEvent(n) PROVE JobInv'
  <2> DEFINE e == <<"event", n>>
  <2>0. UNCHANGED <<role, chain, log, txs, since, row, known, hand, harm, count>>
    BY <1>2 DEF TakeEvent, contract
  <2>1. n \notin taken /\ taken' = taken \cup {n} /\ log[n].kind # "none"
    BY <1>2, Taken
  <2>2. e \in Ids /\ job[e] = 0 /\ TryLimit \in 0 .. TryLimit /\ rel \in [Heights -> Nat] /\ job \in [Ids -> 0 .. TryLimit]
    BY <2>1, IdFacts, OfferingsAssumption DEF IInv, Types, JobInv, Jobs, Untaken, RestTyped
  <2>3. /\ job' \in [Ids -> 0 .. TryLimit]
        /\ \A x \in Ids : x # e => job'[x] = job[x]
        /\ \A m \in Heights : m # n => rel'[m] = rel[m]
    BY <1>2, <2>2, Taken
  <2>4. ASSUME NEW w \in Writers, hand[w].id \in Ids PROVE hand[w].id # e /\ RelatedId(hand[w].id)' = RelatedId(hand[w].id)
    <3>1. hand[w].id # e
      BY <2>2, <2>4 DEF JobInv, Jobs, Running
    <3>2. hand[w].id[1] = "event" => hand[w].id[2] \in Heights /\ hand[w].id[2] # n
      BY <2>4, <3>1, IdFacts
    <3>q. QED BY <2>0, <2>3, <3>1, <3>2 DEF RelatedId
  <2>5. Running'
    BY <2>0, <2>3, <2>4 DEF JobInv, Jobs, Running
  <2>6. Exclusive'
    BY <2>0, <2>4 DEF JobInv, Jobs, Exclusive
  <2>7. Untaken'
    <3> SUFFICES ASSUME NEW m \in Heights, m \notin taken' PROVE rel'[m] = 0 /\ job'[<<"event", m>>] = 0
      BY DEF Untaken
    <3>1. m # n /\ m \notin taken /\ <<"event", m>> \in Ids /\ <<"event", m>> # e
      BY <2>1, IdFacts
    <3>q. QED BY <2>3, <3>1 DEF JobInv, Jobs, Untaken
  <2>8. TakenLogged'
    BY <2>0, <2>1 DEF JobInv, Jobs, TakenLogged
  <2>q. QED BY <2>0, <2>3, <2>5, <2>6, <2>7, <2>8 DEF JobInv, Jobs, RestTyped, Within
<1>q. QED BY <1>1, <1>2 DEF Monitor

\* At the beginning there is no job, no handler, no row.
LEMMA JobInit == Init => JobInv
<1> SUFFICES ASSUME Init PROVE JobInv OBVIOUS
<1>1. RestTyped
  <2>1. count \in [Counts -> Nat]
    <3>1. count = [publish |-> 0, popups |-> 0, removes |-> 0, channels |-> 0, edits |-> 0, faults |-> 0]
      BY DEF Init
    <3>2. count = [k \in Counts |-> 0]
      BY <3>1 DEF Counts
    <3>q. QED BY <3>2
  <2>2. job \in [Ids -> 0 .. TryLimit]
    BY OfferingsAssumption DEF Init
  <2>q. QED BY <2>1, <2>2 DEF Init, RestTyped
<1>2. Within
  BY OfferingsAssumption DEF Init, Within, NoRow, NoHand
<1>3. Running /\ Exclusive
  BY IdFacts DEF Init, Running, Exclusive, NoHand
<1>4. Untaken /\ TakenLogged
  BY IdFacts DEF Init, Untaken, TakenLogged
<1>q. QED BY <1>1, <1>2, <1>3, <1>4 DEF JobInv, Jobs

\* A job whose handler runs is active, and no other works on its object; the
\* events that were not taken have no job.
THEOREM JobsCorrect == Spec => []JobInv
<1>1. IInv /\ ContractInv /\ JobInv /\ [Next]_vars => JobInv'
  <2> SUFFICES ASSUME IInv, ContractInv, JobInv, [Next]_vars PROVE JobInv' OBVIOUS
  <2>1. CASE Mining \/ Others
    BY <2>1, ChainJobs
  <2>2. CASE Monitor
    BY <2>2, MonitorJobs
  <2>3. CASE User
    BY <2>3, UserJobs
  <2>4. CASE Faults
    BY <2>4, HandsFreed, HandlerJobs DEF Faults
  <2>5. CASE Work
    BY <2>5, UserJobs, HandlerJobs, HandsFreed DEF Work
  <2>6. CASE UNCHANGED vars
    BY <2>6 DEF vars, contract, monitor, JobInv, RestTyped, Within, Jobs, Running, Exclusive, Untaken, TakenLogged, RelatedId
  <2>q. QED BY <2>1, <2>2, <2>3, <2>4, <2>5, <2>6 DEF Next
<1>q. QED BY <1>1, JobInit, InvCorrect, ContractCorrect, PTL DEF Spec

\* Every variable keeps its type, and the supply of the row stays within what
\* the database accepts, whoever writes it back and whenever.
THEOREM TypeCorrect == Spec => []TypeOK
<1>1. IInv /\ JobInv => TypeOK
  BY DEF IInv, Types, JobInv, RestTyped, Within, TypeOK, Counts
<1>q. QED BY <1>1, InvCorrect, JobsCorrect, PTL

-----------------------------------------------------------------------------
(* The agent's supply.  Before there is a row nothing else is there; from  *)
(* then on no handler holds a copy from before.  A closing that has a job  *)
(* has a channel, and is counted when its job is done.                     *)

Unmade ==
  /\ chain.st = "none" /\ txs = {} /\ known = {}
  /\ \A x \in Ids : job[x] = 0
  /\ \A w \in Writers : hand[w].id = Idle

CopiesMade == \A w \in Writers : hand[w].id # Idle => hand[w].row.status # "none"

ClosingsKnown ==
  \A n \in taken : log[n].kind = "closed" /\ job[<<"event", n>>] > 0 => rel[n] # 0

SupplyCounted == row.cur + Cardinality(known) = Supply + Cardinality(Counted("closed"))

AgentInv ==
  /\ row.status = "none" => Unmade
  /\ CopiesMade
  /\ ClosingsKnown
  /\ row.status # "none" /\ ~harm => SupplyCounted

SupplyInv == role = "agent" => AgentInv

\* The sets that are counted are finite.
LEMMA CountedFinite ==
  ASSUME IInv, RestTyped
  PROVE  /\ IsFiniteSet(known) /\ Cardinality(known) \in Nat
         /\ IsFiniteSet(Counted("closed")) /\ Cardinality(Counted("closed")) \in Nat
<1>1. known \in SUBSET Heights /\ Counted("closed") \in SUBSET Heights
  BY DEF RestTyped, Counted, IInv, Types
<1>2. IsFiniteSet(known) /\ IsFiniteSet(Counted("closed"))
  BY <1>1, OpenFinite, FS_Subset
<1>q. QED BY <1>2, FS_CardinalityType

\* Of the closings taken, none gets a job nor loses it.
LEMMA CountedKept ==
  ASSUME UNCHANGED <<taken, rel>>, \A n \in taken : log'[n] = log[n],
         \A n \in taken : log[n].kind = "closed" => job'[<<"event", n>>] = job[<<"event", n>>]
  PROVE  /\ Counted("closed")' = Counted("closed")
         /\ ClosingsKnown => ClosingsKnown'
<1>1. Counted("closed")' = Counted("closed")
  BY DEF Counted
<1>q. QED BY <1>1 DEF ClosingsKnown

\* Another job than that of a closing ends, or is to be run again.
LEMMA OtherJobEnds ==
  ASSUME IInv, JobInv, NEW w \in Writers, hand[w].id \in Ids, ~Handles(w, "closed"),
         Finish(w) \/ Retry(w), UNCHANGED <<log, taken, rel>>
  PROVE  /\ Counted("closed")' = Counted("closed")
         /\ ClosingsKnown => ClosingsKnown'
<1>0. taken \subseteq Heights /\ job \in [Ids -> 0 .. TryLimit]
  BY DEF IInv, Types, JobInv, RestTyped
<1>1. \A x \in Ids : x # hand[w].id => job'[x] = job[x]
  BY <1>0, Ends DEF JobInv
<1>2. ASSUME NEW n \in taken, log[n].kind = "closed" PROVE job'[<<"event", n>>] = job[<<"event", n>>]
  <2>1. <<"event", n>> \in Ids
    BY <1>0, IdFacts
  <2>2. <<"event", n>> # hand[w].id
    <3> SUFFICES ASSUME <<"event", n>> = hand[w].id PROVE FALSE OBVIOUS
    <3>1. hand[w].id[1] = "event" /\ hand[w].id[2] = n
      OBVIOUS
    <3>q. QED BY <1>2, <3>1 DEF Handles, IsEvent
  <2>q. QED BY <1>1, <2>1, <2>2
<1>q. QED BY <1>2, CountedKept

\* A handler ends: the copies left are those of before.
LEMMA ReleasedMade ==
  ASSUME IInv, CopiesMade, NEW w \in Writers, Release(w)
  PROVE  CopiesMade'
<1>1. hand \in [Writers -> Hand] /\ hand' = [hand EXCEPT ![w] = NoHand]
  BY DEF IInv, Types, Release
<1>q. QED BY <1>1 DEF CopiesMade, NoHand

\* A handler of the agent that leaves the row alone.
LEMMA AgentRefused ==
  ASSUME IInv, JobInv, AgentInv, row.status # "none", NEW w \in Writers, hand[w].id \in Ids,
         Retry(w), UNCHANGED <<log, taken, rel, row, known, harm>>
  PROVE  AgentInv'
<1>1. CopiesMade'
  BY ReleasedMade DEF Retry, AgentInv
<1>2. Counted("closed")' = Counted("closed") /\ ClosingsKnown'
  <2>1. CASE Handles(w, "closed")
    <3>1. job' = job
      BY <2>1 DEF Retry, Handles, IsEvent
    <3>q. QED BY <3>1, CountedKept DEF AgentInv
  <2>2. CASE ~Handles(w, "closed")
    BY <2>2, OtherJobEnds DEF AgentInv
  <2>q. QED BY <2>1, <2>2
<1>q. QED BY <1>1, <1>2 DEF AgentInv, SupplyCounted

\* A handler of the agent that leaves the supply alone and writes the rest.
LEMMA AgentSaves ==
  ASSUME IInv, JobInv, AgentInv, row.status # "none", NEW w \in Writers, hand[w].id \in Ids, ~Handles(w, "closed"),
         Finish(w), UNCHANGED <<log, taken, rel, known>>,
         row'.status # "none", row'.cur = hand[w].row.cur, ~harm' => (~harm /\ hand[w].row = row)
  PROVE  AgentInv'
<1>1. CopiesMade'
  BY ReleasedMade DEF Finish, AgentInv
<1>2. Counted("closed")' = Counted("closed") /\ ClosingsKnown'
  BY OtherJobEnds DEF AgentInv
<1>3. ~harm' => SupplyCounted'
  BY <1>2 DEF AgentInv, SupplyCounted
<1>q. QED BY <1>1, <1>2, <1>3 DEF AgentInv

\* What Save writes.
LEMMA Saved ==
  ASSUME IInv, JobInv, NEW w \in Writers, NEW s, NEW b, Save(w, s, b)
  PROVE  /\ row'.status = s /\ row'.cur = hand[w].row.cur
         /\ ~harm' => (~harm /\ hand[w].row = row)
<1>1. row' = [hand[w].row EXCEPT !.status = s, !.block = b] /\ harm' = (harm \/ hand[w].row # row)
  BY DEF Save, Write
<1>2. row'.status = s /\ row'.cur = hand[w].row.cur
  BY <1>1, RowClaims DEF Row
<1>q. QED BY <1>1, <1>2

\* A channel the agent did not know: one is taken from the supply.
LEMMA ChannelCounted ==
  ASSUME IInv, JobInv, AgentInv, row.status # "none", NEW w \in Writers, hand[w].id \in Ids,
         AgentAfterChannelCreate(w), hand[w].row.cur > 0, hand[w].id[2] \notin known
  PROVE  AgentInv'
<1> DEFINE n == hand[w].id[2]
<1>0. /\ hand[w].row \in Row /\ hand[w].row.cur \in Nat /\ hand[w].row.status # "none"
      /\ Supply \in Nat /\ ~Handles(w, "closed")
  <2>1. hand[w].id # Idle
    BY IdFacts
  <2>2. ~Handles(w, "closed")
    BY DEF AgentAfterChannelCreate, Handles, IsEvent
  <2>q. QED BY <2>1, <2>2, RowClaims, OfferingsAssumption DEF Row, AgentInv, CopiesMade
<1>1. /\ row' = [hand[w].row EXCEPT !.cur = hand[w].row.cur - 1] /\ harm' = (harm \/ hand[w].row # row)
      /\ known' = known \cup {n} /\ Finish(w) /\ UNCHANGED <<log, taken, rel>>
  BY DEF AgentAfterChannelCreate, Write, monitor
<1>2. row'.status # "none" /\ row'.cur = hand[w].row.cur - 1
  BY <1>0, <1>1 DEF Row
<1>3. CopiesMade'
  BY <1>1, ReleasedMade DEF Finish, AgentInv
<1>4. Counted("closed")' = Counted("closed") /\ ClosingsKnown'
  BY <1>0, <1>1, OtherJobEnds DEF AgentInv
<1>5. Cardinality(known') = Cardinality(known) + 1 /\ Cardinality(known) \in Nat /\ Cardinality(Counted("closed")) \in Nat
  BY <1>1, CountedFinite, FS_AddElement DEF JobInv
<1>6. ~harm' => SupplyCounted'
  <2> SUFFICES ASSUME ~harm' PROVE SupplyCounted' OBVIOUS
  <2>1. ~harm /\ hand[w].row = row
    BY <1>1
  <2>2. row.cur + Cardinality(known) = Supply + Cardinality(Counted("closed"))
    BY <2>1 DEF AgentInv, SupplyCounted
  <2>q. QED BY <1>0, <1>2, <1>4, <1>5, <2>1, <2>2 DEF SupplyCounted
<1>q. QED BY <1>2, <1>3, <1>4, <1>6 DEF AgentInv

\* A closing: one is given back, and the job is done or the agent's numbers are
\* not to be trusted any more.
LEMMA ClosingCounted ==
  ASSUME IInv, JobInv, AgentInv, row.status # "none", NEW w \in Writers, hand[w].id \in Ids,
         AgentAfterClose(w), hand[w].row.cur < Supply
  PROVE  AgentInv'
<1> DEFINE n == hand[w].id[2]
<1>0. /\ hand[w].row \in Row /\ hand[w].row.cur \in Nat /\ hand[w].row.status # "none" /\ Supply \in Nat
      /\ taken \subseteq Heights /\ job \in [Ids -> 0 .. TryLimit]
  <2>1. hand[w].id # Idle
    BY IdFacts
  <2>q. QED BY <2>1, RowClaims, OfferingsAssumption DEF Row, AgentInv, CopiesMade, IInv, Types, JobInv, RestTyped
<1>1. /\ row' = [hand[w].row EXCEPT !.cur = hand[w].row.cur + 1]
      /\ harm' = (harm \/ hand[w].row # row \/ job'[hand[w].id] # 0)
      /\ Finish(w) /\ UNCHANGED <<log, taken, rel, known>>
  BY DEF AgentAfterClose, monitor
<1>2. row'.status # "none" /\ row'.cur = hand[w].row.cur + 1
  BY <1>0, <1>1 DEF Row
<1>3. CopiesMade'
  BY <1>1, ReleasedMade DEF Finish, AgentInv
<1>4. hand[w].id = <<"event", n>> /\ n \in Heights /\ log[n].kind = "closed"
  BY IdFacts DEF AgentAfterClose, Handles, IsEvent
<1>5. job[hand[w].id] > 0 /\ n \in taken
  <2>1. job[hand[w].id] > 0
    BY DEF JobInv, Jobs, Running
  <2>2. n \notin taken => job[<<"event", n>>] = 0
    BY <1>4 DEF JobInv, Jobs, Untaken
  <2> HIDE DEF n
  <2>3. job[<<"event", n>>] > 0
    BY <1>4, <2>1
  <2>q. QED BY <2>1, <2>2, <2>3
<1>6. /\ \A x \in Ids : x # hand[w].id => job'[x] = job[x]
      /\ job'[hand[w].id] = job[hand[w].id] \/ job'[hand[w].id] = 0
  BY <1>0, <1>1 DEF Finish
<1>7. \A m \in taken : <<"event", m>> \in Ids /\ (m # n => <<"event", m>> # hand[w].id)
  BY <1>0, <1>4, IdFacts
<1>8. ClosingsKnown'
  <2> SUFFICES ASSUME NEW m \in taken, log[m].kind = "closed", job'[<<"event", m>>] > 0 PROVE rel[m] # 0
    BY <1>1 DEF ClosingsKnown
  <2>1. job[<<"event", m>>] > 0
    BY <1>4, <1>6, <1>7
  <2>q. QED BY <2>1 DEF AgentInv, ClosingsKnown
<1>9. ~harm' => SupplyCounted'
  <2> SUFFICES ASSUME ~harm' PROVE SupplyCounted' OBVIOUS
  <2>1. ~harm /\ hand[w].row = row /\ job'[hand[w].id] = 0
    BY <1>1
  <2>2. row.cur + Cardinality(known) = Supply + Cardinality(Counted("closed"))
    BY <2>1 DEF AgentInv, SupplyCounted
  <2>3. rel[n] # 0
    BY <1>4, <1>5 DEF AgentInv, ClosingsKnown
  <2>4. n \notin Counted("closed")
    BY <1>4, <1>5 DEF Counted
  <2>5. Counted("closed")' = Counted("closed") \cup {n}
    BY <1>1, <1>4, <1>5, <1>6, <1>7, <2>1, <2>3 DEF Counted
  <2>6. /\ Cardinality(Counted("closed")') = Cardinality(Counted("closed")) + 1
        /\ Cardinality(known) \in Nat /\ Cardinality(Counted("closed")) \in Nat
    BY <2>4, <2>5, CountedFinite, FS_AddElement DEF JobInv
  <2>q. QED BY <1>0, <1>1, <1>2, <2>1, <2>2, <2>6 DEF SupplyCounted
<1>q. QED BY <1>2, <1>3, <1>8, <1>9 DEF AgentInv

\* A handler of the agent.
LEMMA AgentHandles ==
  ASSUME IInv, JobInv, AgentInv, role = "agent", NEW w \in Writers,
         AgentHandler(w) \/ ClientHandler(w) \/ HandlerFails(w)
  PROVE  AgentInv'
<1>0. hand[w].id \in Ids /\ UNCHANGED <<role, chain, log, since, taken, rel>>
  BY HandlerEnds DEF JobInv
<1>1. hand[w].id # Idle
  BY <1>0, IdFacts
<1>2. row.status # "none" /\ hand[w].row.status # "none"
  BY <1>1 DEF AgentInv, Unmade, CopiesMade
<1>3. ~ClientHandler(w)
  BY DEF ClientHandler, ClientAfterOfferingMsgBCPublish, ClientAfterOfferingPopUp, ClientAfterOfferingDelete,
     DecrementCurrentSupply, IncrementCurrentSupply
<1>4. CASE HandlerFails(w)
  BY <1>0, <1>2, <1>4, AgentRefused DEF HandlerFails
<1>5. CASE Refused(w) /\ UNCHANGED row
  BY <1>0, <1>2, <1>5, AgentRefused DEF Refused
<1>6. ASSUME NEW s, NEW b, s # "none", Save(w, s, b), Finish(w), UNCHANGED known, ~Handles(w, "closed") PROVE AgentInv'
  <2>1. row'.status # "none" /\ row'.cur = hand[w].row.cur /\ (~harm' => (~harm /\ hand[w].row = row))
    BY <1>6, Saved
  <2>q. QED BY <1>0, <1>2, <1>6, <2>1, AgentSaves
<1>7. CASE AgentPreOfferingMsgBCPublish(w)
  <2>1. /\ row' = [hand[w].row EXCEPT !.status = "registering"]
        /\ harm' = (harm \/ hand[w].row # row \/ row.status # "empty")
        /\ Finish(w) /\ UNCHANGED known /\ ~Handles(w, "closed")
    BY <1>7 DEF AgentPreOfferingMsgBCPublish, Handles, IsEvent
  <2>2. row'.status = "registering" /\ row'.cur = hand[w].row.cur
    BY <2>1, RowClaims DEF Row
  <2>3. row'.status # "none" /\ (~harm' => (~harm /\ hand[w].row = row))
    BY <2>1, <2>2
  <2>q. QED BY <1>0, <1>2, <2>1, <2>2, <2>3, AgentSaves
<1>8. CASE AgentPreOfferingDelete(w)
  <2>1. ~Handles(w, "closed")
    BY <1>8 DEF AgentPreOfferingDelete, Handles, IsEvent
  <2>q. QED BY <1>5, <1>6, <1>8, <2>1 DEF AgentPreOfferingDelete, Refused
<1>9. CASE AgentPreOfferingPopUp(w)
  <2>1. ~Handles(w, "closed")
    BY <1>9 DEF AgentPreOfferingPopUp, Handles, IsEvent
  <2>q. QED BY <1>5, <1>6, <1>9, <2>1 DEF AgentPreOfferingPopUp, Refused
<1>10. CASE AgentAfterOfferingMsgBCPublish(w) \/ AgentAfterOfferingPopUp(w) \/ AgentAfterOfferingDelete(w)
  <2>1. ~Handles(w, "closed") /\ Finish(w) /\ UNCHANGED known
    BY <1>10 DEF AgentAfterOfferingMsgBCPublish, AgentAfterOfferingPopUp, AgentAfterOfferingDelete, Handles, IsEvent
  <2>q. QED BY <1>6, <1>10, <2>1 DEF AgentAfterOfferingMsgBCPublish, AgentAfterOfferingPopUp, AgentAfterOfferingDelete
<1>11. CASE AgentAfterChannelCreate(w)
  <2>1. CASE hand[w].row.cur > 0 /\ hand[w].id[2] \notin known
    BY <1>0, <1>2, <1>11, <2>1, ChannelCounted
  <2>q. QED BY <1>5, <1>11, <2>1 DEF AgentAfterChannelCreate, Refused
<1>12. CASE AgentAfterClose(w)
  <2>1. CASE hand[w].row.cur < Supply
    BY <1>0, <1>2, <1>12, <2>1, ClosingCounted
  <2>q. QED BY <1>5, <1>12, <2>1 DEF AgentAfterClose, Refused
<1>q. QED BY <1>3, <1>4, <1>7, <1>8, <1>9, <1>10, <1>11, <1>12 DEF AgentHandler

\* Of an offering that is there, nobody touches the row, the channels or the
\* jobs of closings.
LEMMA AgentKept ==
  ASSUME IInv, JobInv, AgentInv, row.status # "none", UNCHANGED <<taken, rel, row, known, harm>>,
         \A n \in taken : log'[n] = log[n],
         \A n \in taken : log[n].kind = "closed" => job'[<<"event", n>>] = job[<<"event", n>>],
         \A w \in Writers : hand'[w] = hand[w] \/ hand'[w].id = Idle \/ hand'[w].row = row
  PROVE  AgentInv'
<1>1. Counted("closed")' = Counted("closed") /\ ClosingsKnown'
  BY CountedKept DEF AgentInv
<1>2. CopiesMade'
  BY DEF AgentInv, CopiesMade
<1>q. QED BY <1>1, <1>2 DEF AgentInv, SupplyCounted

\* The contract, and the others: without a row there is no offering yet.
LEMMA AgentChain ==
  ASSUME IInv, ContractInv, JobInv, AgentInv, role = "agent", Mining \/ Others
  PROVE  AgentInv'
<1>0. UNCHANGED <<since, taken, rel, row, job, known, hand, harm>>
  BY DEF Mining, Mine, PeriodOver, Others, AgentActs, OpenChannel, CloseChannel, monitor
<1>1. row.status # "none"
  <2> SUFFICES ASSUME row.status = "none" PROVE FALSE OBVIOUS
  <2>1. chain.st = "none" /\ txs = {} /\ \A n \in Heights : log[n].kind = "none"
    BY DEF AgentInv, Unmade, ContractInv
  <2>q. QED BY <2>1 DEF Mining, Mine, PeriodOver, Others, AgentActs, OpenChannel, CloseChannel
<1>2. \A n \in taken : log'[n] = log[n]
  BY LogGrows DEF JobInv, Jobs, TakenLogged, IInv, Types
<1>q. QED BY <1>0, <1>1, <1>2, AgentKept

\* An event is taken: of a closing that is dropped nothing is counted, of
\* another not yet.
LEMMA AgentTakes ==
  ASSUME IInv, ContractInv, JobInv, AgentInv, role = "agent", NEW n \in Heights, TakeEvent(n)
  PROVE  AgentInv'
<1> DEFINE e == <<"event", n>>
<1>0. UNCHANGED <<log, row, known, hand, harm>> /\ n \notin taken /\ taken' = taken \cup {n} /\ log[n].kind # "none"
  BY DEF TakeEvent, contract
<1>1. row.status # "none"
  BY <1>0 DEF AgentInv, Unmade, ContractInv
<1>2. /\ e \in Ids /\ job[e] = 0 /\ rel[n] = 0 /\ TryLimit > 0
      /\ rel \in [Heights -> Nat] /\ job \in [Ids -> 0 .. TryLimit] /\ taken \subseteq Heights
  BY <1>0, IdFacts, OfferingsAssumption DEF IInv, Types, JobInv, Jobs, Untaken, RestTyped
<1>3. \/ UNCHANGED <<rel, job>>
      \/ /\ rel' = [rel EXCEPT ![n] = log[n].of] /\ job' = [job EXCEPT ![e] = TryLimit]
         /\ log[n].kind = "closed" => log[n].of \in known
  BY DEF TakeEvent, AgentJob
<1>4. \A m \in taken : m # n /\ <<"event", m>> \in Ids /\ <<"event", m>> # e
  BY <1>0, <1>2, IdFacts
<1>5. \A m \in taken : rel'[m] = rel[m] /\ job'[<<"event", m>>] = job[<<"event", m>>]
  BY <1>2, <1>3, <1>4
<1>6. log[n].kind = "closed" => (rel'[n] = 0 /\ job'[e] = 0) \/ (rel'[n] # 0 /\ job'[e] > 0)
  <2>1. 0 \notin known
    BY DEF JobInv, RestTyped, Heights
  <2>q. QED BY <1>2, <1>3, <2>1
<1> HIDE DEF e
<1>7. Counted("closed")' = Counted("closed")
  BY <1>0, <1>5, <1>6 DEF Counted, e
<1>8. ClosingsKnown'
  BY <1>0, <1>5, <1>6 DEF AgentInv, ClosingsKnown, e
<1>9. CopiesMade'
  BY <1>0 DEF AgentInv, CopiesMade
<1>q. QED BY <1>0, <1>1, <1>7, <1>8, <1>9 DEF AgentInv, SupplyCounted

\* The row is made when there is nothing else yet.
LEMMA AgentCreates ==
  ASSUME IInv, ContractInv, JobInv, AgentInv, CreateOffering
  PROVE  AgentInv'
<1>0. row'.status = "empty" /\ row'.cur = Supply /\ UNCHANGED <<chain, log, taken, rel, job, known, hand, harm>>
  BY DEF CreateOffering, contract, monitor
<1>1. Unmade /\ \A n \in Heights : log[n].kind = "none"
  BY DEF CreateOffering, AgentInv, Unmade, ContractInv
<1>2. known = {} /\ taken = {}
  BY <1>1 DEF Unmade, JobInv, Jobs, TakenLogged, IInv, Types
<1>3. Counted("closed")' = {} /\ known' = {} /\ Supply \in Nat /\ Cardinality({}) = 0
  BY <1>0, <1>2, OfferingsAssumption, FS_EmptySet DEF Counted
<1>4. SupplyCounted'
  <2>1. Cardinality(known') = 0 /\ Cardinality(Counted("closed")') = 0
    BY <1>3
  <2>q. QED BY <1>0, <1>3, <2>1 DEF SupplyCounted
<1>5. CopiesMade' /\ ClosingsKnown'
  BY <1>0, <1>1, <1>2 DEF CopiesMade, ClosingsKnown, Unmade
<1>q. QED BY <1>0, <1>4, <1>5 DEF AgentInv

\* The other steps of the agent's program.
LEMMA AgentElse ==
  ASSUME IInv, ContractInv, JobInv, AgentInv, role = "agent",
         User \/ Crash \/ StartMonitor \/ \E w \in Writers : UiWrite(w) \/ \E x \in Ids : Start(w, x)
  PROVE  AgentInv'
<1>0. hand \in [Writers -> Hand] /\ taken \subseteq Heights
  BY DEF IInv, Types
<1>1. CASE CreateOffering
  BY <1>1, AgentCreates
<1>2. ASSUME NEW x \in Pre, ChangeOfferingStatus(x) \/ AutoOfferingPopUp(x) PROVE AgentInv'
  <2>1. row.status # "none"
    BY <1>2 DEF ChangeOfferingStatus, AutoOfferingPopUp, Offered
  <2>2. UNCHANGED <<log, taken, rel, row, known, hand, harm>> /\ job' = [job EXCEPT ![x] = TryLimit]
    BY <1>2 DEF ChangeOfferingStatus, AutoOfferingPopUp, contract, monitor
  <2>3. \A n \in taken : job'[<<"event", n>>] = job[<<"event", n>>]
    <3>1. \A n \in taken : <<"event", n>> # x
      BY IdFacts DEF Actions
    <3>q. QED BY <2>2, <3>1 DEF JobInv, RestTyped
  <2>q. QED BY <2>1, <2>2, <2>3, AgentKept
<1>3. ASSUME NEW w \in Writers, UiRead(w) PROVE AgentInv'
  <2>1. row.status # "none" /\ UNCHANGED <<log, taken, rel, row, job, known, harm>> /\ hand' = [hand EXCEPT ![w] = [id |-> UiCall, row |-> row]]
    BY <1>3 DEF UiRead, contract, monitor
  <2>2. \A v \in Writers : hand'[v] = hand[v] \/ hand'[v].row = row
    BY <1>0, <2>1
  <2>q. QED BY <2>1, <2>2, AgentKept
<1>4. ASSUME NEW w \in Writers, NEW x \in Ids, Start(w, x) PROVE AgentInv'
  <2>1. UNCHANGED <<log, taken, rel, row, job, known, harm>> /\ hand' = [hand EXCEPT ![w] = [id |-> x, row |-> row]]
    BY <1>4 DEF Start, contract, monitor
  <2>2. row.status # "none"
    BY <1>4 DEF Start, AgentInv, Unmade
  <2>3. \A v \in Writers : hand'[v] = hand[v] \/ hand'[v].row = row
    BY <1>0, <2>1
  <2>q. QED BY <2>1, <2>2, <2>3, AgentKept
<1>5. ASSUME NEW w \in Writers, UiWrite(w) PROVE AgentInv'
  <2>1. hand[w].id # Idle
    BY <1>5 DEF UiWrite, UiCall, Idle
  <2>2. hand[w].row.status # "none"
    BY <2>1 DEF AgentInv, CopiesMade
  <2>3. row.status # "none"
    BY <2>1 DEF AgentInv, Unmade
  <2>4. row' = hand[w].row /\ harm' = (harm \/ hand[w].row # row) /\ Release(w) /\ UNCHANGED <<log, taken, rel, job, known>>
    BY <1>5 DEF UiWrite, Write, Release, contract, monitor
  <2>5. CopiesMade'
    BY <2>4, ReleasedMade DEF AgentInv
  <2>6. Counted("closed")' = Counted("closed") /\ ClosingsKnown'
    BY <2>4, CountedKept DEF AgentInv
  <2>7. ~harm' => SupplyCounted'
    BY <2>3, <2>4, <2>6 DEF AgentInv, SupplyCounted
  <2>q. QED BY <2>2, <2>4, <2>5, <2>6, <2>7 DEF AgentInv
<1>6. CASE Crash
  <2>1. UNCHANGED <<log, taken, rel, row, job, known, harm>> /\ \A v \in Writers : hand'[v].id = Idle
    BY <1>6 DEF Crash, contract, monitor, NoHand
  <2>2. row.status # "none"
    BY <1>6 DEF Crash, AgentInv, Unmade
  <2>q. QED BY <2>1, <2>2, AgentKept
<1>7. CASE StartMonitor
  <2>1. UNCHANGED <<chain, log, txs, taken, rel, row, job, known, hand, harm>>
    BY <1>7 DEF StartMonitor, contract
  <2>q. QED BY <2>1 DEF AgentInv, Unmade, CopiesMade, ClosingsKnown, SupplyCounted, Counted
<1>q. QED BY <1>1, <1>2, <1>3, <1>4, <1>5, <1>6, <1>7 DEF User

\* The role never changes.
LEMMA RoleKept == ASSUME IInv, JobInv, [Next]_vars PROVE role' = role
<1>1. CASE Work \/ Faults
  <2>1. ASSUME NEW w \in Writers, AgentHandler(w) \/ ClientHandler(w) \/ HandlerFails(w) PROVE role' = role
    BY <2>1, HandlerEnds DEF JobInv
  <2>q. QED BY <1>1, <2>1 DEF Work, Faults, Start, UiWrite, Crash
<1>q. QED BY <1>1 DEF Next, Mining, Monitor, User, Others, vars, Mine, PeriodOver, StartMonitor, TakeEvent,
    CreateOffering, ChangeOfferingStatus, AutoOfferingPopUp, UiRead, AgentActs, OpenChannel, CloseChannel

\* Before there is a row of the agent there is nothing; from then on the row
\* counts every channel the agent knows and every closing it handled.
THEOREM SupplyInvCorrect == Spec => []SupplyInv
<1>1. Init => SupplyInv
  <2> SUFFICES ASSUME Init PROVE AgentInv
    BY DEF SupplyInv
  <2>1. Unmade /\ CopiesMade /\ ClosingsKnown /\ row.status = "none"
    BY DEF Init, Unmade, CopiesMade, ClosingsKnown, NoRow, NoHand
  <2>q. QED BY <2>1 DEF AgentInv
<1>2. IInv /\ ContractInv /\ JobInv /\ SupplyInv /\ [Next]_vars => SupplyInv'
  <2> SUFFICES ASSUME IInv, ContractInv, JobInv, SupplyInv, [Next]_vars, role' = "agent" PROVE AgentInv'
    BY DEF SupplyInv
  <2>0. role = "agent" /\ AgentInv
    BY RoleKept DEF SupplyInv
  <2>1. CASE Mining \/ Others
    BY <2>0, <2>1, AgentChain
  <2>2. CASE Monitor
    BY <2>0, <2>2, AgentTakes, AgentElse DEF Monitor
  <2>3. CASE User
    BY <2>0, <2>3, AgentElse
  <2>4. CASE Faults
    BY <2>0, <2>4, AgentElse, AgentHandles DEF Faults
  <2>5. CASE Work
    BY <2>0, <2>5, AgentElse, AgentHandles DEF Work
  <2>6. CASE UNCHANGED vars
    BY <2>0, <2>6 DEF vars, contract, monitor, AgentInv, Unmade, CopiesMade, ClosingsKnown, SupplyCounted, Counted
  <2>q. QED BY <2>1, <2>2, <2>3, <2>4, <2>5, <2>6 DEF Next
<1>q. QED BY <1>1, <1>2, InvCorrect, ContractCorrect, JobsCorrect, PTL DEF Spec

\* The agent's current supply is exact: of each channel it knows one is taken
\* (AgentAfterChannelCreate), of each closing it handled one is given back
\* (AgentAfterClose), whatever fails and is run again, unless a newer row was
\* overwritten, a closing counted twice or the offering published again.
THEOREM SupplyCorrect == Spec => []SupplyExact
<1>1. SupplyInv => SupplyExact
  BY DEF SupplyInv, AgentInv, SupplyCounted, SupplyExact
<1>q. QED BY <1>1, SupplyInvCorrect, PTL

-----------------------------------------------------------------------------
(* The client's catalogue.  The forward search takes the events from its   *)
(* beginning on without a gap.  A removal before its beginning finds no    *)
(* row, for none is made of a removed offering; a later one, once taken,   *)
(* has a job for as long as the row is there.                              *)

NotBegun == since = 0 => row.status = "none" /\ taken = {}

NoGap == since # 0 => \E p \in Nat : \A n \in Heights : n >= since => (n \in taken <=> n < p)

Removal(d) ==
  /\ d < since => row.status = "none" /\ d \notin taken
  /\ ~harm /\ d \in taken /\ row.status \notin {"none", "removed"} => job[<<"event", d>>] > 0

CopiesHeld ==
  \A w \in Writers :
    /\ hand[w].row.status # "none" => row.status # "none"
    /\ hand[w].id = UiCall => hand[w].row.status # "none"

ClientInv ==
  /\ NotBegun /\ NoGap
  /\ since <= chain.height + 1
  /\ \A d \in Heights : log[d].kind = "deleted" => Removal(d)
  /\ CopiesHeld
  /\ \A x \in Pre : job[x] = 0

CatalogueInv == role = "client" => ClientInv

\* The handlers a client runs are of events taken.
LEMMA ClientRuns ==
  ASSUME IInv, JobInv, ClientInv, NEW w \in Writers, hand[w].id \in Ids
  PROVE  /\ hand[w].id[1] = "event" /\ hand[w].id = <<"event", hand[w].id[2]>>
         /\ hand[w].id[2] \in taken /\ since # 0
<1> DEFINE n == hand[w].id[2]
<1>1. job[hand[w].id] > 0
  BY DEF JobInv, Jobs, Running
<1>2. hand[w].id[1] = "event"
  BY <1>1, IdFacts DEF ClientInv
<1>3. hand[w].id = <<"event", n>> /\ n \in Heights
  BY <1>2, IdFacts
<1>4. n \notin taken => job[<<"event", n>>] = 0
  BY <1>3 DEF JobInv, Jobs, Untaken
<1> HIDE DEF n
<1>5. job[<<"event", n>>] > 0
  BY <1>1, <1>3
<1>6. n \in taken
  BY <1>4, <1>5
<1>7. since # 0
  BY <1>6 DEF ClientInv, NotBegun
<1>q. QED BY <1>2, <1>3, <1>6, <1>7 DEF n

\* What a handler of the client does with the row: nothing; the offering, active
\* in the contract, is put in the catalogue; a copy of the row is written, which
\* does not bring a removed offering back; or the offering is removed.
Outcome(w) ==
  \/ row' = row /\ harm' = harm /\ (Handles(w, "deleted") => job' = job)
  \/ row.status = "none" /\ chain.st = "active" /\ row'.status # "none" /\ ~Handles(w, "deleted")
  \/ /\ hand[w].row.status # "none" /\ row'.status # "none" /\ ~Handles(w, "deleted")
     /\ hand[w].row.status = "removed" => row'.status = "removed"
     /\ ~harm' => ~harm /\ hand[w].row = row
  \/ Handles(w, "deleted") /\ row'.status = "removed"

\* There are no other outcomes.
LEMMA Outcomes ==
  ASSUME IInv, JobInv, ClientInv, role = "client", NEW w \in Writers,
         AgentHandler(w) \/ ClientHandler(w) \/ HandlerFails(w)
  PROVE  Outcome(w)
<1>0. hand[w].id \in Ids
  BY HandlerEnds DEF JobInv
<1>1. hand[w].id[1] = "event"
  BY <1>0, ClientRuns
<1>2. ~AgentHandler(w)
  BY <1>1 DEF AgentHandler, AgentPreOfferingMsgBCPublish, AgentPreOfferingDelete, AgentPreOfferingPopUp,
     AgentAfterOfferingMsgBCPublish, AgentAfterOfferingPopUp, AgentAfterOfferingDelete, AgentAfterChannelCreate, AgentAfterClose
<1>3. CASE HandlerFails(w)
  BY <1>1, <1>3 DEF HandlerFails, Retry, Outcome
<1>4. ASSUME clientRetrieveAndSaveOffering(w), ~Handles(w, "deleted") PROVE Outcome(w)
  <2>1. CASE fillOfferingFromMsg
    <3>1. row'.status = "registered" /\ row.status = "none" /\ chain.st = "active"
      BY <1>4, <2>1 DEF clientRetrieveAndSaveOffering, fillOfferingFromMsg
    <3>q. QED BY <1>4, <3>1 DEF Outcome
  <2>2. CASE ~fillOfferingFromMsg
    BY <1>4, <2>2 DEF clientRetrieveAndSaveOffering, Outcome
  <2>q. QED BY <2>1, <2>2
<1>5. CASE ClientAfterOfferingMsgBCPublish(w)
  <2>1. ~Handles(w, "deleted")
    BY <1>5 DEF ClientAfterOfferingMsgBCPublish, Handles, IsEvent
  <2>q. QED BY <1>4, <1>5, <2>1 DEF ClientAfterOfferingMsgBCPublish
<1>6. CASE ClientAfterOfferingPopUp(w)
  <2>1. ~Handles(w, "deleted")
    BY <1>6 DEF ClientAfterOfferingPopUp, Handles, IsEvent
  <2>2. CASE clientRetrieveAndSaveOffering(w)
    BY <1>4, <2>1, <2>2
  <2>3. CASE hand[w].row.status \notin {"none", "removed"} /\ Save(w, "popped_up", hand[w].id[2])
    <3>1. row'.status = "popped_up" /\ (~harm' => (~harm /\ hand[w].row = row))
      BY <2>3, Saved
    <3>q. QED BY <2>1, <2>3, <3>1 DEF Outcome
  <2>4. CASE UNCHANGED <<row, harm>>
    BY <2>1, <2>4 DEF Outcome
  <2>q. QED BY <1>6, <2>2, <2>3, <2>4 DEF ClientAfterOfferingPopUp
<1>7. CASE ClientAfterOfferingDelete(w)
  <2>1. row'.status = "removed"
    BY <1>7, Saved DEF ClientAfterOfferingDelete
  <2>q. QED BY <1>7, <2>1 DEF ClientAfterOfferingDelete, Outcome
<1>8. ASSUME NEW p, NEW c, UpdateCurrentSupply(w, p, c), ~Handles(w, "deleted") PROVE Outcome(w)
  <2>1. CASE hand[w].row.status = "none" \/ hand[w].row.id # rel[hand[w].id[2]]
    BY <1>8, <2>1 DEF UpdateCurrentSupply, Outcome
  <2>2. CASE ~(hand[w].row.status = "none" \/ hand[w].row.id # rel[hand[w].id[2]])
    <3> DEFINE n == IF p THEN c ELSE chain.left
    <3>1. row' = [hand[w].row EXCEPT !.cur = n] /\ harm' = (harm \/ hand[w].row # row)
      BY <1>8, <2>2 DEF UpdateCurrentSupply, Write
    <3>2. row'.status = hand[w].row.status
      BY <3>1, RowClaims DEF Row
    <3>q. QED BY <1>8, <2>2, <3>1, <3>2 DEF Outcome
  <2>q. QED BY <2>1, <2>2
<1>9. CASE DecrementCurrentSupply(w) \/ IncrementCurrentSupply(w)
  <2>1. ~Handles(w, "deleted")
    BY <1>9 DEF DecrementCurrentSupply, IncrementCurrentSupply, Handles, IsEvent
  <2>q. QED BY <1>8, <1>9, <2>1 DEF DecrementCurrentSupply, IncrementCurrentSupply
<1>q. QED BY <1>2, <1>3, <1>5, <1>6, <1>7, <1>9 DEF ClientHandler

\* The copies that are left, when the row stays or is written.
LEMMA HeldKept ==
  ASSUME IInv, CopiesHeld, row'.status = "none" => row.status = "none",
         \A v \in Writers : hand'[v] = hand[v] \/ hand'[v] = NoHand
  PROVE  CopiesHeld'
<1>1. NoHand.row.status = "none" /\ NoHand.id # UiCall
  BY DEF NoHand, NoRow, UiCall, Idle
<1>q. QED BY <1>1 DEF CopiesHeld

\* A handler of the client.
LEMMA ClientHandles ==
  ASSUME IInv, ContractInv, JobInv, ClientInv, role = "client", NEW w \in Writers,
         AgentHandler(w) \/ ClientHandler(w) \/ HandlerFails(w)
  PROVE  ClientInv'
<1> DEFINE n == hand[w].id[2]
<1>0. hand[w].id \in Ids /\ (Finish(w) \/ Retry(w)) /\ UNCHANGED <<role, chain, log, since, taken, rel>>
  BY HandlerEnds DEF JobInv
<1>1. hand[w].id[1] = "event" /\ hand[w].id = <<"event", n>> /\ n \in taken /\ since # 0
  BY <1>0, ClientRuns
<1>2. Outcome(w)
  BY Outcomes
<1>3. job \in [Ids -> 0 .. TryLimit] /\ taken \subseteq Heights /\ hand \in [Writers -> Hand]
  BY DEF IInv, Types, JobInv, RestTyped
<1>4. Release(w) /\ \A x \in Ids : x # hand[w].id => job'[x] = job[x]
  BY <1>0, <1>3, Ends DEF JobInv
<1>5. \A v \in Writers : hand'[v] = hand[v] \/ hand'[v] = NoHand
  BY <1>3, <1>4 DEF Release
<1>6. (row'.status = "none" => row.status = "none")
  BY <1>2 DEF Outcome
<1>7. CopiesHeld'
  BY <1>5, <1>6, HeldKept DEF ClientInv
<1>8. \A x \in Pre : job'[x] = 0
  <2>1. \A x \in Pre : x \in Ids /\ x # hand[w].id
    BY <1>1, IdFacts DEF Actions
  <2>q. QED BY <1>4, <2>1 DEF ClientInv
<1>9. ASSUME NEW d \in Heights, log[d].kind = "deleted" PROVE Removal(d)'
  <2>1. Removal(d) /\ chain.st = "removed"
    BY <1>9 DEF ClientInv, IInv, LogBacked
  <2>2. hand[w].row.status # "none" => row.status # "none"
    BY DEF ClientInv, CopiesHeld
  <2>3. d < since => row'.status = "none"
    <3> SUFFICES ASSUME d < since PROVE row'.status = "none" OBVIOUS
    <3>1. row.status = "none" /\ d \notin taken
      BY <2>1 DEF Removal
    <3>2. ~Handles(w, "deleted")
      <4> SUFFICES ASSUME log[n].kind = "deleted" PROVE FALSE
        BY DEF Handles, IsEvent
      <4>1. n \in Heights /\ Removal(n) /\ ~(n < since)
        BY <1>1, <1>3 DEF ClientInv, Removal
      <4>2. n # d
        BY <1>1, <3>1
      <4>3. n = d
        BY <1>9, <4>1 DEF ContractInv
      <4>q. QED BY <4>2, <4>3
    <3>q. QED BY <1>2, <2>1, <2>2, <3>1, <3>2 DEF Outcome
  <2>4. ASSUME ~harm', d \in taken, row'.status \notin {"none", "removed"} PROVE job'[<<"event", d>>] > 0
    <3>1. /\ ~Handles(w, "deleted") \/ job' = job
          /\ ~harm /\ row.status \notin {"none", "removed"}
      BY <1>2, <2>1, <2>4 DEF Outcome
    <3>2. job[<<"event", d>>] > 0
      BY <2>1, <2>4, <3>1 DEF Removal
    <3>3. CASE job' = job
      BY <3>2, <3>3
    <3>4. CASE ~Handles(w, "deleted")
      <4>1. n # d
        BY <1>1, <1>9, <3>4 DEF Handles, IsEvent
      <4>2. <<"event", d>> # hand[w].id /\ <<"event", d>> \in Ids
        BY <1>1, <4>1, IdFacts
      <4>q. QED BY <1>4, <3>2, <4>2
    <3>q. QED BY <3>1, <3>3, <3>4
  <2>q. QED BY <1>0, <2>1, <2>3, <2>4 DEF Removal
<1>q. QED BY <1>0, <1>1, <1>7, <1>8, <1>9 DEF ClientInv, NotBegun, NoGap

\* The contract's height never falls, and an event it adds is beyond it.
LEMMA HeightGrows ==
  ASSUME IInv, Mining \/ Others
  PROVE  /\ chain'.height \in Nat /\ chain.height <= chain'.height
         /\ \A d \in Heights : log'[d] = log[d] \/ d = chain.height + 1
<1>0. /\ chain \in [st : {"none", "active", "removed"}, left : Nat, ripe : BOOLEAN,
                     height : 0 .. MaxEvents]
      /\ chain.height \in Nat /\ log \in [Heights -> Event]
  BY ChainNumbers DEF IInv, Types
<1>1. \/ chain'.height = chain.height /\ UNCHANGED log
      \/ /\ chain'.height = chain.height + 1
         /\ \E r : log' = [log EXCEPT ![chain.height + 1] = r]
  <2>1. ASSUME NEW k, Effect(k) PROVE chain'.height = chain.height + 1 /\ \E r : log' = [log EXCEPT ![chain.height + 1] = r]
    BY <1>0, <2>1 DEF Effect, Emit
  <2>2. ASSUME NEW k \in Actions, Mine(k) PROVE Effect(k) \/ UNCHANGED <<chain, log>>
    BY <2>2 DEF Mine
  <2>3. CASE PeriodOver
    BY <1>0, <2>3 DEF PeriodOver
  <2>4. CASE OpenChannel
    BY <1>0, <2>4 DEF OpenChannel, Emit
  <2>5. ASSUME NEW n \in Heights, CloseChannel(n) PROVE chain'.height = chain.height + 1 /\ \E r : log' = [log EXCEPT ![chain.height + 1] = r]
    BY <1>0, <2>5 DEF CloseChannel, Emit
  <2>q. QED BY <2>1, <2>2, <2>3, <2>4, <2>5 DEF Mining, Others, AgentActs
<1>q. QED BY <1>0, <1>1

\* The contract and the agent: a removal is a new event, which was not taken and
\* is not before the beginning of the search.
LEMMA ClientChain ==
  ASSUME IInv, ContractInv, JobInv, ClientInv, Mining \/ Others
  PROVE  ClientInv'
<1>0. UNCHANGED <<since, taken, row, job, hand, harm>>
  BY DEF Mining, Mine, PeriodOver, Others, AgentActs, OpenChannel, CloseChannel, monitor
<1>1. /\ chain'.height \in Nat /\ chain.height \in Nat /\ chain.height <= chain'.height /\ since \in Nat
      /\ \A d \in Heights : log'[d] = log[d] \/ d = chain.height + 1
  BY HeightGrows, ChainNumbers DEF JobInv, RestTyped
<1>2. since' <= chain'.height + 1
  BY <1>0, <1>1 DEF ClientInv
<1>3. ASSUME NEW d \in Heights, log'[d].kind = "deleted" PROVE Removal(d)'
  <2>1. CASE log[d].kind = "deleted"
    BY <1>0, <2>1 DEF ClientInv, Removal
  <2>2. CASE log[d].kind # "deleted"
    <3>1. d = chain.height + 1
      BY <1>1, <1>3, <2>2
    <3>2. d \notin taken
      BY <1>1, <3>1 DEF IInv, LogEnds, JobInv, Jobs, TakenLogged
    <3>3. ~(d < since)
      BY <1>1, <3>1 DEF ClientInv
    <3>q. QED BY <1>0, <3>2, <3>3 DEF Removal
  <2>q. QED BY <2>1, <2>2
<1>q. QED BY <1>0, <1>2, <1>3 DEF ClientInv, NotBegun, NoGap, CopiesHeld

\* The first round chooses where to begin.
LEMMA ClientBegins ==
  ASSUME IInv, JobInv, ClientInv, StartMonitor
  PROVE  ClientInv'
<1>0. UNCHANGED <<chain, log, taken, row, job, hand, harm>> /\ since = 0 /\ since' \in 1 .. (chain.height + 1)
  BY DEF StartMonitor, contract
<1>1. row.status = "none" /\ taken = {} /\ chain.height \in Nat
  BY <1>0, ChainNumbers DEF ClientInv, NotBegun
<1>2. since' \in Nat /\ since' # 0 /\ since' <= chain.height + 1
  BY <1>0, <1>1
<1>3. NoGap'
  <2>1. \A n \in Heights : n >= since' => (n \in taken' <=> n < since')
    BY <1>0, <1>1, <1>2 DEF Heights
  <2>q. QED BY <1>2, <2>1 DEF NoGap
<1>4. \A d \in Heights : Removal(d)'
  BY <1>0, <1>1 DEF Removal
<1>q. QED BY <1>0, <1>2, <1>3, <1>4 DEF ClientInv, NotBegun, CopiesHeld

\* An event is taken: the next of the forward search, or an older one that is no
\* removal.
LEMMA ClientTakes ==
  ASSUME IInv, JobInv, ClientInv, role = "client", NEW n \in Heights, TakeEvent(n)
  PROVE  ClientInv'
<1> DEFINE e == <<"event", n>>
<1>0. /\ UNCHANGED <<chain, log, since, row, hand, harm>> /\ since # 0 /\ IsNext(n)
      /\ n \notin taken /\ taken' = taken \cup {n} /\ ClientJob(n)
  BY DEF TakeEvent, contract
<1>1. /\ e \in Ids /\ TryLimit > 0 /\ job \in [Ids -> 0 .. TryLimit] /\ since \in Nat
      /\ n \in Nat /\ Heights \subseteq Nat /\ taken \subseteq Heights
  BY IdFacts, OfferingsAssumption DEF JobInv, RestTyped, Heights, IInv, Types
<1>2. NoGap'
  <2>1. PICK p \in Nat : \A m \in Heights : m >= since => (m \in taken <=> m < p)
    BY <1>0 DEF ClientInv, NoGap
  <2>2. CASE n < since
    <3>1. \A m \in Heights : m >= since => (m \in taken' <=> m < p)
      BY <1>0, <1>1, <2>1, <2>2
    <3>q. QED BY <1>0, <3>1 DEF NoGap
  <2>3. CASE n >= since
    <3>1. n >= p
      BY <1>0, <1>1, <2>1, <2>3
    <3>2. \A m \in since .. (n - 1) : m \in taken
      BY <1>0, <1>1, <2>3 DEF IsNext
    <3>3. ASSUME NEW m \in Heights, m >= since PROVE m \in taken' <=> m < n + 1
      <4>1. CASE m < n
        <5>1. m \in since .. (n - 1)
          BY <1>1, <3>3, <4>1
        <5>q. QED BY <1>0, <1>1, <3>2, <4>1, <5>1
      <4>2. CASE m = n
        BY <1>0, <1>1, <4>2
      <4>3. CASE m > n
        BY <1>0, <1>1, <2>1, <3>1, <3>3, <4>3
      <4>q. QED BY <1>1, <4>1, <4>2, <4>3
    <3>4. n + 1 \in Nat
      BY <1>1
    <3>q. QED BY <1>0, <3>3, <3>4 DEF NoGap
  <2>q. QED BY <1>1, <2>2, <2>3
<1>3. \A x \in Ids : x # e => job'[x] = job[x]
  BY <1>0, <1>1 DEF ClientJob
<1>4. ASSUME NEW d \in Heights, log[d].kind = "deleted" PROVE Removal(d)'
  <2>0. Removal(d)
    BY <1>4 DEF ClientInv
  <2>1. CASE d = n
    <3>1. ~(n < since)
      BY <1>0, <1>1, <1>4, <2>1 DEF IsNext
    <3>2. row.status # "none" => job'[e] > 0
      <4> SUFFICES ASSUME row.status # "none" PROVE job'[e] > 0 OBVIOUS
      <4>1. RelatedIds(n) = {row.id}
        BY <1>4, <2>1 DEF RelatedIds
      <4>2. job' = [job EXCEPT ![e] = TryLimit]
        BY <1>0, <4>1 DEF ClientJob
      <4>q. QED BY <1>1, <4>2
    <3>q. QED BY <1>0, <2>1, <3>1, <3>2 DEF Removal
  <2>2. CASE d # n
    <3>1. <<"event", d>> # e /\ <<"event", d>> \in Ids
      BY <2>2, IdFacts
    <3>2. job'[<<"event", d>>] = job[<<"event", d>>]
      BY <1>3, <3>1
    <3>q. QED BY <1>0, <2>0, <2>2, <3>2 DEF Removal
  <2>q. QED BY <2>1, <2>2
<1>5. \A x \in Pre : job'[x] = 0
  <2>1. \A x \in Pre : x \in Ids /\ x # e
    BY IdFacts DEF Actions
  <2>q. QED BY <1>3, <2>1 DEF ClientInv
<1>q. QED BY <1>0, <1>2, <1>4, <1>5 DEF ClientInv, NotBegun, CopiesHeld

\* The other steps of the client's program.
LEMMA ClientElse ==
  ASSUME IInv, JobInv, ClientInv, role = "client",
         User \/ Crash \/ \E w \in Writers : UiWrite(w) \/ \E x \in Ids : Start(w, x)
  PROVE  ClientInv'
<1>0. hand \in [Writers -> Hand]
  BY DEF IInv, Types
<1>1. ASSUME NEW w \in Writers, NEW x \in Ids \cup {UiCall}, hand' = [hand EXCEPT ![w] = [id |-> x, row |-> row]],
             x = UiCall => row.status # "none", UNCHANGED <<chain, log, since, taken, row, job, harm>>
      PROVE  ClientInv'
  <2>1. \A v \in Writers : hand'[v] = hand[v] \/ (hand'[v].row = row /\ hand'[v].id = x)
    BY <1>0, <1>1
  <2>2. CopiesHeld'
    BY <1>1, <2>1 DEF ClientInv, CopiesHeld
  <2>q. QED BY <1>1, <2>2 DEF ClientInv, NotBegun, NoGap, Removal
<1>2. CASE User
  <2>1. ASSUME NEW w \in Writers, UiRead(w) PROVE ClientInv'
    BY <1>1, <2>1 DEF UiRead, contract, monitor
  <2>q. QED BY <1>2, <2>1 DEF User, CreateOffering, ChangeOfferingStatus, AutoOfferingPopUp
<1>3. ASSUME NEW w \in Writers, NEW x \in Ids, Start(w, x) PROVE ClientInv'
  BY <1>1, <1>3, IdFacts DEF Start, contract, monitor
<1>4. CASE Crash
  <2>1. UNCHANGED <<chain, log, since, taken, row, job, harm>> /\ \A v \in Writers : hand'[v] = NoHand
    BY <1>4 DEF Crash, contract, monitor
  <2>2. CopiesHeld'
    BY <2>1, HeldKept DEF ClientInv
  <2>q. QED BY <2>1, <2>2 DEF ClientInv, NotBegun, NoGap, Removal
<1>5. ASSUME NEW w \in Writers, UiWrite(w) PROVE ClientInv'
  <2>1. row' = hand[w].row /\ harm' = (harm \/ hand[w].row # row) /\ UNCHANGED <<chain, log, since, taken, job>>
    BY <1>5 DEF UiWrite, Write, contract, monitor
  <2>2. \A v \in Writers : hand'[v] = hand[v] \/ hand'[v] = NoHand
    BY <1>0, <1>5 DEF UiWrite
  <2>3. hand[w].row.status # "none" /\ row.status # "none"
    BY <1>5 DEF UiWrite, ClientInv, CopiesHeld
  <2>4. CopiesHeld'
    BY <2>1, <2>2, <2>3, HeldKept DEF ClientInv
  <2>5. since # 0
    BY <2>3 DEF ClientInv, NotBegun
  <2>6. ASSUME NEW d \in Heights, log[d].kind = "deleted" PROVE Removal(d)'
    BY <2>1, <2>3, <2>6 DEF ClientInv, Removal
  <2>q. QED BY <2>1, <2>4, <2>5, <2>6 DEF ClientInv, NotBegun, NoGap
<1>q. QED BY <1>2, <1>3, <1>4, <1>5

\* The client's searches have no gap behind them, and a removal that is taken
\* has a job as long as the offering is in the catalogue.
THEOREM CatalogueInvCorrect == Spec => []CatalogueInv
<1>1. Init => CatalogueInv
  <2> SUFFICES ASSUME Init, role = "client" PROVE ClientInv
    BY DEF CatalogueInv
  <2>1. NotBegun /\ NoGap /\ CopiesHeld
    BY DEF Init, NotBegun, NoGap, CopiesHeld, NoHand, NoRow, UiCall, Idle
  <2>2. since <= chain.height + 1
    BY DEF Init
  <2>3. \A d \in Heights : log[d].kind # "deleted"
    BY DEF Init, NoEvent
  <2>4. \A x \in Pre : job[x] = 0
    BY IdFacts DEF Init
  <2>q. QED BY <2>1, <2>2, <2>3, <2>4 DEF ClientInv
<1>2. IInv /\ ContractInv /\ JobInv /\ CatalogueInv /\ [Next]_vars => CatalogueInv'
  <2> SUFFICES ASSUME IInv, ContractInv, JobInv, CatalogueInv, [Next]_vars, role' = "client" PROVE ClientInv'
    BY DEF CatalogueInv
  <2>0. role = "client" /\ ClientInv
    BY RoleKept DEF CatalogueInv
  <2>1. CASE Mining \/ Others
    BY <2>0, <2>1, ClientChain
  <2>2. CASE Monitor
    BY <2>0, <2>2, ClientTakes, ClientBegins DEF Monitor
  <2>3. CASE User
    BY <2>0, <2>3, ClientElse
  <2>4. CASE Faults
    BY <2>0, <2>4, ClientElse, ClientHandles DEF Faults
  <2>5. CASE Work
    BY <2>0, <2>5, ClientElse, ClientHandles DEF Work
  <2>6. CASE UNCHANGED vars
    BY <2>0, <2>6 DEF vars, contract, monitor, ClientInv, NotBegun, NoGap, CopiesHeld, Removal
  <2>q. QED BY <2>1, <2>2, <2>3, <2>4, <2>5, <2>6 DEF Next
<1>q. QED BY <1>1, <1>2, InvCorrect, ContractCorrect, JobsCorrect, PTL DEF Spec

\* In whatever order the two searches of the client find the events, and wherever
\* it began, a removed offering does not stay in the catalogue: were it there with
\* nothing left to do, the removal would be the next event of the forward search,
\* or an event before it would be.
THEOREM RemovedCorrect == Spec => []RemovedLeaves
<1>1. IInv /\ ContractInv /\ JobInv /\ CatalogueInv => RemovedLeaves
  <2> SUFFICES ASSUME IInv, ContractInv, JobInv, ClientInv, chain.st = "removed", Settled, ~harm,
                      row.status \notin {"none", "removed"}
               PROVE  FALSE
    BY DEF CatalogueInv, RemovedLeaves
  <2>1. PICK d \in Heights : log[d].kind = "deleted"
    BY DEF ContractInv
  <2>2. Removal(d) /\ <<"event", d>> \in Ids
    BY <2>1, IdFacts DEF ClientInv
  <2>3. since # 0 /\ job[<<"event", d>>] = 0
    BY <2>2 DEF Settled
  <2>4. d \notin taken /\ ~(d < since)
    BY <2>2, <2>3 DEF Removal
  <2>5. /\ d \in Nat /\ since \in Nat /\ chain.height \in Nat /\ d <= chain.height /\ MaxEvents \in Nat
        /\ d <= MaxEvents
    BY <2>1, ChainNumbers, OfferingsAssumption DEF JobInv, RestTyped, Heights, IInv, LogEnds
  <2>6. PICK p \in Nat : \A n \in Heights : n >= since => (n \in taken <=> n < p)
    BY <2>3 DEF ClientInv, NoGap
  <2>7. p <= d
    BY <2>4, <2>5, <2>6
  <2>8. PICK q \in Nat : q >= p /\ q >= since /\ q <= d /\ (q = p \/ q = since)
    <3>1. p >= since \/ since >= p
      BY <2>5
    <3>q. QED BY <2>4, <2>5, <2>7, <3>1
  <2>9. q \in Heights
    BY <2>3, <2>5, <2>8 DEF Heights
  <2>10. q \notin taken
    BY <2>6, <2>8, <2>9
  <2>11. log[q].kind # "none"
    <3>1. q <= chain.height
      BY <2>5, <2>8
    <3>q. QED BY <2>9, <3>1 DEF ContractInv, LogFull
  <2>12. IsNext(q)
    <3>1. ASSUME NEW m \in since .. (q - 1) PROVE m \in taken
      <4>1. m \in Heights /\ m >= since /\ m < p
        BY <2>3, <2>5, <2>8 DEF Heights
      <4>q. QED BY <2>6, <4>1
    <3>q. QED BY <2>8, <3>1 DEF IsNext
  <2>q. QED BY <2>9, <2>10, <2>11, <2>12 DEF Settled
<1>q. QED BY <1>1, InvCorrect, ContractCorrect, JobsCorrect, CatalogueInvCorrect, PTL
=============================================================================

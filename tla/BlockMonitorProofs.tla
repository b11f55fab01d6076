------------------------- MODULE BlockMonitorProofs -------------------------
(***************************************************************************)
(* Proofs about the monitor, for every chain, every choice of settings and *)
(* any number of failed rounds: the inductive invariant of both roles,     *)
(* that the agent implements BlockScan, that neither search takes a block  *)
(* before it is confirmed, and that the forward search leaves none out.    *)
(***************************************************************************)
EXTENDS BlockMonitor, TLAPS

\* safeSub yields a number, never more than its first argument.
LEMMA SafeSub ==
  ASSUME NEW a \in Nat, NEW b \in Nat
  PROVE  safeSub(a, b) \in Nat /\ safeSub(a, b) <= a
  BY DEF safeSub

\* A forward range starts after the last processed block and, unless it is
\* empty, ends at a block the node has reported.
LEMMA ForwardRange ==
  ASSUME NEW latest \in Nat, NEW last \in Nat, NEW c \in Conf, c.limit # Unset
  PROVE  LET r == rangeOfInterest(latest, last, c) IN
         /\ r[1] \in Nat /\ r[2] \in Nat
         /\ r[1] > 0 /\ r[2] <= latest
         /\ last # 0 => r[1] = last + 1
<1> DEFINE end == safeSub(latest, c.confirmations)
           first == (IF last = 0 THEN safeSub(end, c.limit) ELSE last) + 1
<1>1. c.confirmations \in Nat /\ c.limit \in Nat
  BY MonitorAssumption DEF Conf
<1>2. end \in Nat /\ end <= latest
  BY <1>1, SafeSub
<1>0. safeSub(end, c.limit) \in Nat
  BY <1>1, <1>2, SafeSub
<1>3. first \in Nat /\ first > 0 /\ (last # 0 => first = last + 1)
  BY <1>0
<1>4. rangeOfInterest(latest, last, c) =
        IF c.limit # 0 /\ end > first /\ end - first > c.limit
        THEN <<first, first + c.limit>> ELSE <<first, end>>
  BY DEF rangeOfInterest
<1> HIDE DEF end, first
<1>5. QED
  BY <1>1, <1>2, <1>3, <1>4

\* A backward range consists of numbers up to the block the search started at.
LEMMA BackwardRange ==
  ASSUME NEW up \in Nat, NEW last \in Nat, NEW c \in Conf, c.limit # Unset
  PROVE  LET r == offeringsRangeOfInterest(up, last, c) IN
         /\ r[1] \in Nat /\ r[2] \in Nat
         /\ \A h \in Nat : up <= h /\ last <= h => r[1] <= h /\ r[2] <= h
<1> DEFINE start == IF last = 0 THEN safeSub(up, c.confirmations) + 1 ELSE last
           oldest == safeSub(up, c.fresh)
           to == safeSub(start, 1)
           page == safeSub(safeSub(start, c.limit), 1)
           from == IF page < oldest THEN safeSub(oldest, c.confirmations) ELSE page
<1>1. c.confirmations \in Nat /\ c.limit \in Nat /\ c.fresh \in Nat
  BY MonitorAssumption DEF Conf
<1>2. start \in Nat /\ \A h \in Nat : up <= h /\ last <= h => start <= h + 1
  <2>1. safeSub(up, c.confirmations) \in Nat /\ safeSub(up, c.confirmations) <= up
    BY <1>1, SafeSub
  <2>2. QED
    BY <2>1
<1>3. oldest \in Nat
  BY <1>1, SafeSub
<1>4. to \in Nat /\ \A h \in Nat : up <= h /\ last <= h => to <= h
  BY <1>2 DEF safeSub
<1>5. page \in Nat
  BY <1>1, <1>2, SafeSub
<1>6. from \in Nat
  BY <1>1, <1>3, <1>5, SafeSub
<1>7. offeringsRangeOfInterest(up, last, c) =
        IF to <= oldest \/ to <= from THEN <<0, 0>> ELSE <<from, to>>
  BY DEF offeringsRangeOfInterest
<1> HIDE DEF to, from, oldest
<1>8. QED
  BY <1>3, <1>4, <1>6, <1>7
-----------------------------------------------------------------------------
(* The inductive invariant.                                                *)

\* An installed monitor that has not run yet satisfies the invariant.
LEMMA InvInit == Init => IInv
<1> SUFFICES ASSUME Init PROVE IInv
  OBVIOUS
<1> USE MonitorAssumption DEF Init, Blocks, Pcs, Rounds, NoRound
<1>1. inUse \in BOOLEAN
  OBVIOUS
<1>2. head \in MinHeight .. MaxBlock /\ head \in Nat
  OBVIOUS
<1>3. Bounded /\ round \in Rounds
  BY <1>2 DEF Bounded
<1>4. TypeOK
  BY <1>1, <1>2, <1>3 DEF TypeOK
<1>5. AgentInOrder
  BY DEF AgentInOrder
<1>6. QED
  BY <1>4, <1>5 DEF IInv

\* The first half of a round: what ChooseForward does with a range.
LEMMA ChooseStep ==
  ASSUME TypeOK, role = "agent" => AgentInOrder,
         NEW r, r[1] \in Nat, r[2] \in Nat, r[2] <= head,
         r[1] < r[2] => r[1] > 0 /\ (lastProcessed # 0 => r[1] = lastProcessed + 1),
         ChooseForward(r), faults' \in [fails : Nat, swallowed : Nat],
         UNCHANGED <<role, head, conf, inUse, settings, history>>
  PROVE  IInv'
<1> USE DEF settings, history
<1>1. /\ round' = [round EXCEPT !.from = r[1], !.to = r[2]]
      /\ round' \in Rounds
      /\ round'.latest = round.latest /\ round'.from = r[1] /\ round'.to = r[2]
  BY DEF ChooseForward, TypeOK, Rounds
<1>2. pc' \in {"idle", "filter", "start"}
  BY DEF ChooseForward
<1>3. TypeOK'
  <2>1. Bounded'
    BY <1>1 DEF TypeOK, Bounded, Rounds, ChooseForward
  <2>2. QED
    BY <1>1, <1>2, <2>1 DEF TypeOK, Pcs
<1>4. ASSUME role = "agent" PROVE AgentInOrder'
  <2>1. pc' # "start" /\ pc' # "back" /\ (pc' = "filter" => r[1] < r[2])
    BY <1>4 DEF ChooseForward
  <2>2. QED
    BY <1>1, <1>4, <2>1 DEF AgentInOrder
<1>5. QED
  BY <1>3, <1>4 DEF IInv

\* Every step of the monitor, its environment or a failure keeps the invariant.
LEMMA InvStep == IInv /\ [Next]_vars => IInv'
<1> SUFFICES ASSUME IInv, [Next]_vars PROVE IInv'
  OBVIOUS
<1>0. TypeOK /\ (role = "agent" => AgentInOrder)
  BY DEF IInv
<1> USE DEF settings, history
<1>r. role' = role
  BY DEF Next, MonitorNext, vars, NewBlock, UpdateSettings, UpdateAccount, RoundStart,
         Forward, ForwardNoLimit, RecordStart, Backward, CommitRound, RoundFails
<1>1. CASE NewBlock
  <2>0. /\ head \in Nat /\ head' = head + 1 /\ head' \in MinHeight .. MaxBlock
        /\ UNCHANGED <<role, conf, inUse, settings, pc, round, history, faults>>
    BY <1>0, <1>1, MonitorAssumption DEF NewBlock, TypeOK
  <2>4. Bounded'
    BY <1>0, <2>0 DEF TypeOK, Bounded, Rounds
  <2>1. TypeOK'
    BY <1>0, <2>0, <2>4 DEF TypeOK, Blocks
  <2>2. role = "agent" => AgentInOrder'
    BY <1>0, <1>1, MonitorAssumption DEF NewBlock, TypeOK, AgentInOrder, Rounds
  <2>3. QED
    BY <1>r, <2>1, <2>2 DEF IInv
<1>2. CASE UpdateSettings \/ UpdateAccount
  <2>1. inUse' \in BOOLEAN /\ conf' \in Conf
    BY <1>0, <1>2, MonitorAssumption DEF UpdateSettings, UpdateAccount, TypeOK
  <2>2. UNCHANGED <<role, head, settings, pc, round, history, faults>>
    BY <1>2 DEF UpdateSettings, UpdateAccount
  <2>3. QED
    BY <1>0, <2>1, <2>2 DEF IInv, TypeOK, Bounded, AgentInOrder
<1>3. CASE RoundStart
  <2>1. PICK lag \in 0 .. MaxLag : round' = [NoRound EXCEPT !.latest = head - lag]
    BY <1>3 DEF RoundStart
  <2>2. head - lag \in Nat /\ head - lag <= head
    BY <1>0, MonitorAssumption DEF TypeOK
  <2>3. /\ round' \in Rounds /\ round'.latest = head - lag /\ round'.to = 0 /\ round'.up = 0
        /\ round'.backFrom = 0 /\ round'.backTo = 0
    BY <2>1, <2>2 DEF Rounds, NoRound
  <2>7. Bounded'
    BY <1>0, <1>3, <2>2, <2>3, MonitorAssumption DEF RoundStart, TypeOK, Bounded
  <2>4. TypeOK'
    BY <1>0, <1>3, <2>3, <2>7 DEF RoundStart, TypeOK, Pcs
  <2>5. role = "agent" => AgentInOrder'
    BY <1>0, <1>3 DEF RoundStart, AgentInOrder
  <2>6. QED
    BY <1>r, <2>4, <2>5 DEF IInv
<1>4. CASE Forward
  <2> DEFINE r == rangeOfInterest(round.latest, lastProcessed, conf)
  <2>1. /\ round.latest \in Nat /\ round.latest <= head /\ head \in Nat
        /\ lastProcessed \in Nat /\ conf \in Conf /\ conf.limit # Unset
    BY <1>0, <1>4, MonitorAssumption DEF Forward, TypeOK, Bounded, Rounds
  <2>2. /\ r[1] \in Nat /\ r[2] \in Nat /\ r[1] > 0 /\ r[2] <= round.latest
        /\ lastProcessed # 0 => r[1] = lastProcessed + 1
    BY <2>1, ForwardRange
  <2>3. ChooseForward(r) /\ faults' = faults /\ UNCHANGED <<role, head, conf, inUse, settings, history>>
    BY <1>4 DEF Forward
  <2> HIDE DEF r
  <2>4. r[2] <= head
    BY <2>1, <2>2
  <2>5. faults' \in [fails : Nat, swallowed : Nat]
    BY <1>0, <2>3 DEF TypeOK
  <2>6. QED
    BY <1>0, <2>2, <2>3, <2>4, <2>5, ChooseStep
<1>5. CASE ForwardNoLimit
  <2> DEFINE r == <<0, 0>>
  <2>1. faults' \in [fails : Nat, swallowed : Nat]
    BY <1>0, <1>5 DEF ForwardNoLimit, TypeOK
  <2>2. r[1] = 0 /\ r[2] = 0 /\ 0 <= head
    BY <1>0, MonitorAssumption DEF TypeOK
  <2>3. ChooseForward(r) /\ UNCHANGED <<role, head, conf, inUse, settings, history>>
    BY <1>5 DEF ForwardNoLimit
  <2> HIDE DEF r
  <2>4. QED
    BY <1>0, <2>1, <2>2, <2>3, ChooseStep
<1>6. CASE RecordStart
  <2>1. role # "agent"
    BY <1>0, <1>6 DEF RecordStart, AgentInOrder
  <2>2. startBlock' \in Nat
    BY <1>0, <1>6 DEF RecordStart, TypeOK, Rounds
  <2>3. /\ round' = [round EXCEPT !.up = startBlock']
        /\ round' \in Rounds /\ round'.up = startBlock'
        /\ UNCHANGED <<round.latest, round.to, round.backFrom, round.backTo>>
    BY <1>0, <1>6, <2>2 DEF RecordStart, TypeOK, Rounds
  <2>4. Bounded'
    BY <1>0, <1>6, <2>3 DEF RecordStart, TypeOK, Bounded
  <2>5. QED
    BY <1>0, <1>6, <2>1, <2>2, <2>3, <2>4 DEF RecordStart, IInv, TypeOK, Pcs
<1>7. CASE Backward
  <2>1. role # "agent"
    BY <1>0, <1>7 DEF Backward, AgentInOrder
  <2>2. round' \in Rounds /\ Bounded'
    <3>1. CASE conf.limit = Unset
      BY <1>0, <1>7, <3>1 DEF Backward, TypeOK, Bounded
    <3>2. CASE conf.limit # Unset
      <4> DEFINE r == offeringsRangeOfInterest(round.up, lastBack, conf)
      <4>1. /\ round.up \in Nat /\ lastBack \in Nat /\ conf \in Conf /\ head \in Nat
            /\ round.up <= head /\ lastBack <= head
        BY <1>0, MonitorAssumption DEF TypeOK, Bounded, Rounds
      <4>2. r[1] \in Nat /\ r[2] \in Nat /\ r[1] <= head /\ r[2] <= head
        BY <3>2, <4>1, BackwardRange
      <4>3. round' = [round EXCEPT !.backFrom = r[1], !.backTo = r[2]]
        BY <1>7, <3>2 DEF Backward
      <4> HIDE DEF r
      <4>4. /\ round' \in Rounds /\ round'.backFrom = r[1] /\ round'.backTo = r[2]
            /\ UNCHANGED <<round.latest, round.to, round.up>>
        BY <1>0, <4>2, <4>3 DEF TypeOK, Rounds
      <4>5. QED
        BY <1>0, <1>7, <4>2, <4>4 DEF Backward, TypeOK, Bounded
    <3>3. QED
      BY <3>1, <3>2
  <2>3. pc' \in Pcs
    BY <1>7 DEF Backward, Pcs
  <2>4. QED
    BY <1>0, <1>7, <2>1, <2>2, <2>3 DEF Backward, IInv, TypeOK
<1>8. CASE CommitRound
  <2>1. /\ round.to \in Nat /\ round.from \in Nat /\ round.backTo \in Nat /\ round.backFrom \in Nat
        /\ head \in Nat /\ head <= MaxBlock /\ MaxBlock \in Nat
        /\ round.to <= head /\ round.backTo <= head /\ round.backFrom <= head
    BY <1>0, MonitorAssumption DEF TypeOK, Bounded, Rounds
  <2>2. /\ lastProcessed' = round.to
        /\ scanned' = scanned \cup (round.from .. round.to)
        /\ pc' = "idle" /\ UNCHANGED <<role, head, conf, inUse, startBlock, round, faults>>
    BY <1>8 DEF CommitRound, updateLastProcessedBlock
  <2>3. \/ UNCHANGED <<lastBack, searched>>
        \/ /\ lastBack' = round.backFrom
           /\ searched' = searched \cup (round.backFrom .. round.backTo)
    BY <1>8 DEF CommitRound
  <2>4. scanned' \subseteq Blocks /\ searched' \subseteq Blocks
    <3>1. /\ \A b \in round.from .. round.to : b \in 0 .. MaxBlock
          /\ \A b \in round.backFrom .. round.backTo : b \in 0 .. MaxBlock
      BY <2>1
    <3>2. scanned \subseteq 0 .. MaxBlock /\ searched \subseteq 0 .. MaxBlock
      BY <1>0 DEF TypeOK, Blocks
    <3>3. scanned' \subseteq 0 .. MaxBlock
      BY <2>2, <3>1, <3>2
    <3>4. searched' \subseteq 0 .. MaxBlock
      BY <2>3, <3>1, <3>2
    <3>5. QED
      BY <3>3, <3>4 DEF Blocks
  <2>5. lastBack' \in Nat /\ Bounded'
    BY <1>0, <2>1, <2>2, <2>3 DEF TypeOK, Bounded
  <2>6. TypeOK'
    BY <1>0, <2>1, <2>2, <2>4, <2>5 DEF TypeOK, Pcs
  <2>7. ASSUME role = "agent" PROVE AgentInOrder'
    <3>1. /\ 0 < round.from /\ round.from < round.to
          /\ lastProcessed # 0 => round.from = lastProcessed + 1
          /\ \A b \in scanned : b <= lastProcessed
          /\ lastProcessed = 0 <=> scanned = {}
      BY <1>0, <1>8, <2>7 DEF AgentInOrder, CommitRound
    <3>2. round.to \in scanned' /\ lastProcessed' # 0
      BY <2>1, <2>2, <3>1
    <3>3. \A b \in scanned' : b <= round.to
      <4> SUFFICES ASSUME NEW b \in scanned' PROVE b <= round.to
        OBVIOUS
      <4>1. CASE b \in round.from .. round.to
        BY <2>1, <4>1
      <4>2. CASE b \in scanned
        <5>1. b \in Nat /\ lastProcessed \in Nat /\ lastProcessed # 0
          BY <1>0, <3>1, <4>2 DEF TypeOK, Blocks
        <5>2. QED
          BY <2>1, <3>1, <4>2, <5>1
      <4>3. QED
        BY <2>2, <4>1, <4>2
    <3>4. QED
      BY <2>2, <3>2, <3>3 DEF AgentInOrder
  <2>8. QED
    BY <1>r, <2>6, <2>7 DEF IInv
<1>9. CASE RoundFails
  BY <1>0, <1>9 DEF RoundFails, IInv, TypeOK, Bounded, AgentInOrder, Pcs
<1>10. CASE UNCHANGED vars
  BY <1>0, <1>10 DEF vars, IInv, TypeOK, Bounded, AgentInOrder
<1>11. QED
  BY <1>1, <1>2, <1>3, <1>4, <1>5, <1>6, <1>7, <1>8, <1>9, <1>10 DEF Next, MonitorNext

\* The inductive invariant holds in every reachable state.
THEOREM InvCorrect == Spec => []IInv
  BY InvInit, InvStep, PTL DEF Spec

\* For both roles, no setting or range of the monitor leaves the chain.
THEOREM TypeCorrect == Spec => []TypeOK
<1>1. IInv => TypeOK
  BY DEF IInv
<1>2. QED
  BY <1>1, InvCorrect, PTL

-----------------------------------------------------------------------------
(* The agent implements BlockScan.                                         *)

\* A committed round of the agent scans the range that follows, once; every
\* other step leaves the scanned blocks alone.
LEMMA ScanStep == IInv /\ [Next]_vars => [Scan!Next]_AgentScanned
<1> SUFFICES ASSUME IInv, [Next]_vars PROVE Scan!Next \/ AgentScanned' = AgentScanned
  OBVIOUS
<1>r. role' = role
  BY DEF Next, MonitorNext, vars, NewBlock, UpdateSettings, UpdateAccount, RoundStart,
         Forward, ForwardNoLimit, RecordStart, Backward, CommitRound, RoundFails
<1>0. CASE role # "agent"
  BY <1>0, <1>r DEF AgentScanned
<1>1. CASE role = "agent" /\ CommitRound
  <2>1. TypeOK /\ AgentInOrder /\ pc = "filter"
    BY <1>1 DEF IInv, CommitRound
  <2>2. /\ round.from \in Nat /\ round.to \in Nat /\ lastProcessed \in Nat
        /\ 0 < round.from /\ round.from < round.to /\ round.to <= MaxBlock
    BY <2>1, MonitorAssumption DEF TypeOK, Bounded, Rounds, AgentInOrder
  <2>3. round.from \in Blocks /\ round.to \in Blocks
    BY <2>2, MonitorAssumption DEF Blocks
  <2>4. scanned # {} => round.from - 1 = lastProcessed /\ lastProcessed \in scanned
    BY <2>1, <2>2 DEF AgentInOrder
  <2>5. \A b \in scanned : b < round.from
    <3> SUFFICES ASSUME NEW b \in scanned PROVE b < round.from
      OBVIOUS
    <3>1. b \in Nat /\ b <= lastProcessed /\ round.from = lastProcessed + 1
      BY <2>1 DEF TypeOK, Blocks, AgentInOrder
    <3>2. QED
      BY <2>2, <3>1
  <2>6. scanned' = scanned \cup (round.from .. round.to)
    BY <1>1 DEF CommitRound
  <2>7. Scan!Scan(round.from, round.to)
    BY <1>1, <1>r, <2>2, <2>4, <2>5, <2>6 DEF Scan!Scan, AgentScanned
  <2>8. QED
    BY <2>3, <2>7 DEF Scan!Next
<1>2. CASE ~CommitRound
  BY <1>2, <1>r DEF AgentScanned, Next, MonitorNext, vars, history, NewBlock, UpdateSettings, UpdateAccount,
              RoundStart, Forward, ForwardNoLimit, RecordStart, Backward, RoundFails
<1>3. QED
  BY <1>0, <1>1, <1>2

\* The agent takes the events of every block once, in order and without a gap,
\* whatever settings are chosen and however many rounds fail.
THEOREM AgentScans == Spec => ImplementsScan
<1>1. Init => Scan!Init
  BY DEF Init, Scan!Init, AgentScanned
<1>2. IInv /\ [Next]_vars => [Scan!Next]_AgentScanned
  BY ScanStep
<1>3. QED
  BY <1>1, <1>2, InvCorrect, PTL DEF Spec, ImplementsScan, Scan!Spec

-----------------------------------------------------------------------------
(* Only confirmed blocks.                                                  *)

\* A block that has the confirmations of some setting, or none at all.
Confirmed(b) == b = 0 \/ \E c \in Settings[role] : b + c.confirmations <= head

\* The ends of both ranges are confirmed, and so is the block the backward search
\* will go on below.
ConfInv ==
  /\ conf \in Settings[role]
  /\ Confirmed(round.to) /\ Confirmed(round.backTo) /\ Confirmed(lastBack)
  /\ round.backFrom <= round.backTo

\* The role never changes.
LEMMA RoleKept == [Next]_vars => role' = role
  BY DEF Next, MonitorNext, vars, NewBlock, UpdateSettings, UpdateAccount, RoundStart,
         Forward, ForwardNoLimit, RecordStart, Backward, CommitRound, RoundFails

\* A block below a confirmed one is confirmed.
LEMMA ConfirmedBelow ==
  ASSUME TypeOK, NEW a \in Nat, NEW b \in Nat, a <= b, Confirmed(b)
  PROVE  Confirmed(a)
<1>1. head \in Nat
  BY MonitorAssumption DEF TypeOK
<1>2. CASE \E c \in Settings[role] : b + c.confirmations <= head
  <2>1. PICK c \in Settings[role] : b + c.confirmations <= head
    BY <1>2
  <2>2. c.confirmations \in Nat
    BY MonitorAssumption DEF TypeOK, Conf
  <2>q. QED BY <1>1, <2>1, <2>2 DEF Confirmed
<1>q. QED BY <1>2 DEF Confirmed

\* What is confirmed stays so, and so does a block below it.
LEMMA ConfirmedKept ==
  ASSUME TypeOK, role' = role, head' = head \/ head' = head + 1, NEW b \in Nat, Confirmed(b)
  PROVE  Confirmed(b)' /\ \A a \in Nat : a <= b => Confirmed(a)'
<1>1. head \in Nat /\ head' \in Nat /\ head <= head'
  BY MonitorAssumption DEF TypeOK
<1>2. CASE b = 0
  BY <1>2 DEF Confirmed
<1>3. CASE \E c \in Settings[role] : b + c.confirmations <= head
  <2>1. PICK c \in Settings[role] : b + c.confirmations <= head
    BY <1>3
  <2>2. c.confirmations \in Nat
    BY MonitorAssumption DEF TypeOK, Conf
  <2>3. \A a \in Nat : a <= b => a + c.confirmations <= head'
    BY <1>1, <2>1, <2>2
  <2>4. b <= b
    OBVIOUS
  <2>q. QED BY <2>3, <2>4 DEF Confirmed
<1>q. QED BY <1>2, <1>3 DEF Confirmed

\* The forward range ends at a confirmed block; the backward range does, or just
\* below the block searched last, and does not end before it begins.
LEMMA RangesConfirmed ==
  ASSUME NEW latest \in Nat, NEW last \in Nat, NEW c \in Conf, c.limit # Unset
  PROVE  /\ rangeOfInterest(latest, last, c)[2] <= safeSub(latest, c.confirmations)
         /\ LET r == offeringsRangeOfInterest(latest, last, c) IN
            /\ r[1] <= r[2]
            /\ last = 0 => r[2] <= safeSub(latest, c.confirmations)
            /\ r[2] <= safeSub(latest, c.confirmations) \/ r[2] <= last
<1> DEFINE end == safeSub(latest, c.confirmations)
           first == (IF last = 0 THEN safeSub(end, c.limit) ELSE last) + 1
           start == IF last = 0 THEN end + 1 ELSE last
           oldest == safeSub(latest, c.fresh)
           to == safeSub(start, 1)
           page == safeSub(safeSub(start, c.limit), 1)
           from == IF page < oldest THEN safeSub(oldest, c.confirmations) ELSE page
<1>1. c.confirmations \in Nat /\ c.limit \in Nat /\ c.fresh \in Nat
  BY MonitorAssumption DEF Conf
<1>2. end \in Nat
  BY <1>1, SafeSub
<1>3. first \in Nat
  <2>1. safeSub(end, c.limit) \in Nat
    BY <1>1, <1>2, SafeSub
  <2>q. QED BY <2>1
<1>4. start \in Nat /\ oldest \in Nat
  <2>1. oldest \in Nat
    BY <1>1, SafeSub
  <2>2. start \in Nat
    BY <1>2
  <2>q. QED BY <2>1, <2>2
<1>5. to \in Nat /\ (last = 0 => to = end) /\ (last # 0 => to <= last)
  BY <1>2, <1>4 DEF safeSub
<1>6. page \in Nat
  <2>1. safeSub(start, c.limit) \in Nat
    BY <1>1, <1>4, SafeSub
  <2>q. QED BY <2>1, SafeSub
<1>7. from \in Nat
  BY <1>1, <1>4, <1>6, SafeSub
<1>8. rangeOfInterest(latest, last, c) =
        IF c.limit # 0 /\ end > first /\ end - first > c.limit
        THEN <<first, first + c.limit>> ELSE <<first, end>>
  BY DEF rangeOfInterest
<1>9. offeringsRangeOfInterest(latest, last, c) =
        IF to <= oldest \/ to <= from THEN <<0, 0>> ELSE <<from, to>>
  BY DEF offeringsRangeOfInterest
<1> HIDE DEF end, first, start, oldest, to, page, from
<1>10. rangeOfInterest(latest, last, c)[2] <= end
  BY <1>1, <1>2, <1>3, <1>8
<1>11. /\ offeringsRangeOfInterest(latest, last, c)[1] <= offeringsRangeOfInterest(latest, last, c)[2]
       /\ offeringsRangeOfInterest(latest, last, c)[2] \in {0, to}
  BY <1>4, <1>5, <1>7, <1>9
<1>12. /\ last = 0 => offeringsRangeOfInterest(latest, last, c)[2] <= end
       /\ offeringsRangeOfInterest(latest, last, c)[2] <= end \/ offeringsRangeOfInterest(latest, last, c)[2] <= last
  BY <1>2, <1>5, <1>11
<1>q. QED BY <1>10, <1>11, <1>12 DEF end

\* The last block with enough confirmations is confirmed, and so are those below.
LEMMA EndConfirmed ==
  ASSUME TypeOK, conf \in Settings[role], NEW latest \in Nat, latest <= head,
         NEW b \in Nat, b <= safeSub(latest, conf.confirmations)
  PROVE  Confirmed(b)
<1>1. conf.confirmations \in Nat /\ head \in Nat
  BY MonitorAssumption DEF TypeOK, Conf
<1>2. b # 0 => b + conf.confirmations <= head
  BY <1>1 DEF safeSub
<1>q. QED BY <1>2 DEF Confirmed

\* At first nothing has been taken.
LEMMA ConfInit == Init => ConfInv
  BY DEF Init, ConfInv, Confirmed, NoRound

\* Every step keeps the ends of the ranges confirmed.
LEMMA ConfStep == IInv /\ ConfInv /\ [Next]_vars => ConfInv'
<1> SUFFICES ASSUME IInv, ConfInv, [Next]_vars PROVE ConfInv'
  OBVIOUS
<1>0. /\ TypeOK /\ role' = role /\ conf \in Settings[role]
      /\ Confirmed(round.to) /\ Confirmed(round.backTo) /\ Confirmed(lastBack)
      /\ round.backFrom <= round.backTo
  BY RoleKept DEF IInv, ConfInv
<1>t. /\ round \in Rounds /\ round.to \in Nat /\ round.backTo \in Nat /\ round.backFrom \in Nat /\ lastBack \in Nat
      /\ round.latest \in Nat /\ round.up \in Nat /\ head \in Nat /\ conf \in Conf /\ round.latest <= head /\ round.up <= head
  BY <1>0, MonitorAssumption DEF TypeOK, Rounds, Bounded
<1>1. CASE UNCHANGED <<round, lastBack>> /\ (head' = head \/ head' = head + 1) /\ conf' \in Settings[role]
  BY <1>0, <1>1, <1>t, ConfirmedKept DEF ConfInv
<1>2. CASE RoundStart
  <2>1. PICK lag \in 0 .. MaxLag : round' = [NoRound EXCEPT !.latest = head - lag]
    BY <1>2 DEF RoundStart
  <2>2. round'.to = 0 /\ round'.backFrom = 0 /\ round'.backTo = 0
    BY <2>1 DEF NoRound
  <2>3. UNCHANGED <<head, conf, lastBack>>
    BY <1>2 DEF RoundStart, settings
  <2>4. Confirmed(lastBack)'
    BY <1>0, <1>t, <2>3, ConfirmedKept
  <2>q. QED BY <1>0, <2>2, <2>3, <2>4 DEF ConfInv, Confirmed
<1>3. ASSUME NEW r, ChooseForward(r), r[2] \in Nat, Confirmed(r[2]), UNCHANGED <<head, conf, settings>> PROVE ConfInv'
  <2>1. round'.to = r[2] /\ round'.backFrom = round.backFrom /\ round'.backTo = round.backTo
    BY <1>3, <1>t DEF ChooseForward, Rounds
  <2>2. Confirmed(r[2])' /\ Confirmed(round.backTo)' /\ Confirmed(lastBack)'
    <3>1. head' = head /\ lastBack' = lastBack
      BY <1>3 DEF settings
    <3>2. (\E c \in Settings[role] : r[2] + c.confirmations <= head) => \E c \in Settings[role'] : r[2] + c.confirmations <= head'
      BY <1>0, <3>1
    <3>q. QED BY <1>0, <1>3, <2>1, <3>1 DEF Confirmed
  <2>q. QED BY <1>0, <1>3, <2>1, <2>2 DEF ConfInv, settings, Confirmed
<1>4. CASE Forward
  <2> DEFINE r == rangeOfInterest(round.latest, lastProcessed, conf)
  <2>1. lastProcessed \in Nat /\ conf.limit # Unset
    BY <1>0, <1>4 DEF TypeOK, Forward
  <2>2. r[2] \in Nat /\ r[2] <= safeSub(round.latest, conf.confirmations)
    BY <1>t, <2>1, ForwardRange, RangesConfirmed
  <2>3. ChooseForward(r) /\ UNCHANGED <<head, conf, settings>>
    BY <1>4 DEF Forward
  <2> HIDE DEF r
  <2>4. Confirmed(r[2])
    BY <1>0, <1>t, <2>2, EndConfirmed
  <2>q. QED BY <1>3, <2>2, <2>3, <2>4
<1>5. CASE ForwardNoLimit
  <2> DEFINE r == <<0, 0>>
  <2>1. ChooseForward(r) /\ r[2] = 0 /\ UNCHANGED <<head, conf, settings>>
    BY <1>5 DEF ForwardNoLimit
  <2> HIDE DEF r
  <2>q. QED BY <1>3, <2>1 DEF Confirmed
<1>6. CASE RecordStart
  <2>1. /\ round'.to = round.to /\ round'.backFrom = round.backFrom /\ round'.backTo = round.backTo
        /\ UNCHANGED <<head, conf, lastBack>>
    BY <1>6, <1>t DEF RecordStart, Rounds
  <2>q. QED BY <1>0, <2>1 DEF ConfInv, Confirmed
<1>7. CASE Backward
  <2>1. CASE conf.limit = Unset
    BY <1>1, <1>0, <1>7, <2>1 DEF Backward, settings
  <2>2. CASE conf.limit # Unset
    <3> DEFINE r == offeringsRangeOfInterest(round.up, lastBack, conf)
    <3>1. /\ r[1] \in Nat /\ r[2] \in Nat /\ r[1] <= r[2]
          /\ r[2] <= safeSub(round.up, conf.confirmations) \/ r[2] <= lastBack
      BY <1>t, <2>2, BackwardRange, RangesConfirmed
    <3>2. round' = [round EXCEPT !.backFrom = r[1], !.backTo = r[2]] /\ UNCHANGED <<head, conf, lastBack>>
      BY <1>7, <2>2 DEF Backward, settings
    <3> HIDE DEF r
    <3>3. round'.to = round.to /\ round'.backFrom = r[1] /\ round'.backTo = r[2]
      BY <1>t, <3>2 DEF Rounds
    <3>4. Confirmed(r[2])
      <4>1. CASE r[2] <= safeSub(round.up, conf.confirmations)
        BY <1>0, <1>t, <3>1, <4>1, EndConfirmed
      <4>2. CASE r[2] <= lastBack
        BY <1>0, <1>t, <3>1, <4>2, ConfirmedBelow
      <4>q. QED BY <3>1, <4>1, <4>2
    <3>q. QED BY <1>0, <3>1, <3>2, <3>3, <3>4 DEF ConfInv, Confirmed
  <2>q. QED BY <2>1, <2>2
<1>8. CASE CommitRound
  <2>1. UNCHANGED <<head, conf, round>> /\ (lastBack' = lastBack \/ lastBack' = round.backFrom)
    BY <1>8 DEF CommitRound
  <2>2. Confirmed(round.backFrom)'
    BY <1>0, <1>t, <2>1, ConfirmedKept
  <2>3. Confirmed(lastBack)'
    BY <1>0, <2>1, <2>2 DEF Confirmed
  <2>q. QED BY <1>0, <2>1, <2>3 DEF ConfInv, Confirmed
<1>9. CASE NewBlock \/ UpdateSettings \/ UpdateAccount \/ RoundFails \/ UNCHANGED vars
  BY <1>0, <1>1, <1>9 DEF NewBlock, UpdateSettings, UpdateAccount, RoundFails, vars, settings
<1>q. QED BY <1>2, <1>4, <1>5, <1>6, <1>7, <1>8, <1>9 DEF Next, MonitorNext

\* Neither search takes a block before it has the confirmations of some setting
\* the user had: not when settings change while a round is under way, nor when the
\* node lags (rangeOfInterest, offeringsRangeOfInterest).
THEOREM ConfirmedTaken == Spec => ConfirmedOnly
<1> DEFINE A == \A b \in (scanned' \ scanned) \cup (searched' \ searched) :
                  b # 0 => \E c \in Settings[role] : b + c.confirmations <= head
<1>1. IInv /\ ConfInv /\ [Next]_vars => [A]_vars
  <2> SUFFICES ASSUME IInv, ConfInv, Next, NEW b \in (scanned' \ scanned) \cup (searched' \ searched), b # 0
               PROVE  \E c \in Settings[role] : b + c.confirmations <= head
    OBVIOUS
  <2>1. CommitRound
    BY DEF Next, MonitorNext, history, NewBlock, UpdateSettings, UpdateAccount,
           RoundStart, Forward, ForwardNoLimit, RecordStart, Backward, RoundFails
  <2>2. b \in round.from .. round.to \/ b \in round.backFrom .. round.backTo
    BY <2>1 DEF CommitRound
  <2>3. /\ TypeOK /\ round.to \in Nat /\ round.backTo \in Nat /\ round.from \in Nat /\ round.backFrom \in Nat
        /\ UNCHANGED <<role, head>>
    BY <2>1 DEF IInv, TypeOK, Rounds, CommitRound
  <2>4. b \in Nat /\ (b <= round.to \/ b <= round.backTo)
    BY <2>2, <2>3
  <2>5. Confirmed(b)'
    BY <2>3, <2>4, ConfirmedKept DEF ConfInv
  <2>q. QED BY <2>3, <2>5 DEF Confirmed
<1>q. QED BY <1>1, InvCorrect, ConfInit, ConfStep, PTL DEF Spec, ConfirmedOnly

-----------------------------------------------------------------------------
(* Scanning leaves no block out.  What an agent has scanned ends at its    *)
(* last processed block.  A client's last processed block goes back when   *)
(* the node lags or more confirmations are asked for, and the client then  *)
(* scans from there again: it must not go back behind its first page.      *)

\* The client reads its settings, the chain is longer than the confirmations ask
\* for, and a page is no smaller than what the confirmed end may go back.
ClientSteady ==
  "client" \in Roles =>
    /\ MaxSwallowed["client"] = 0
    /\ \A c \in Settings["client"] : c.limit # Unset /\ c.confirmations + MaxLag < MinHeight
    /\ \A c, d \in Settings["client"] : c.confirmations + MaxLag <= d.confirmations + d.limit + 1

AgentSpan == lastProcessed # 0 => \E a \in Nat : scanned = a .. lastProcessed

\* Whatever the settings, the confirmed end stays above b, or next to it.
Low(b) == b = 0 \/ \A c \in Settings["client"] : b + c.confirmations + MaxLag <= head + 1

\* The forward range of the round has been chosen.
Chosen == pc \in {"start", "back", "filter"}

FirstPage == 0 < round.from /\ round.from - 1 <= round.to /\ 0 < round.to /\ Low(round.from - 1)

\* The client has scanned the blocks after b, up to t.
Span(b, t) ==
  /\ scanned = (b + 1) .. t /\ b <= lastProcessed + 1 /\ lastProcessed <= t /\ Low(b)
  /\ pc # "idle" => \A c \in Settings["client"] : b + c.confirmations <= round.latest + 1
  /\ Chosen => round.from = lastProcessed + 1 /\ b <= round.to + 1 /\ 0 < round.to

ClientInOrder ==
  /\ pc # "idle" => \A c \in Settings["client"] : c.confirmations < round.latest
  /\ lastProcessed = 0 => scanned = {} /\ (Chosen => FirstPage)
  /\ lastProcessed # 0 => \E b, t \in Nat : Span(b, t)

SpanInv == (role = "agent" => AgentSpan) /\ (role = "client" => ClientInOrder)

\* An agent's round adds the range that follows.
LEMMA AgentSpanStep ==
  ASSUME IInv, AgentSpan, [Next]_vars, role = "agent"
  PROVE  AgentSpan'
<1>1. CASE CommitRound
  <2>1. TypeOK /\ AgentInOrder /\ pc = "filter" /\ lastProcessed' = round.to /\ scanned' = scanned \cup (round.from .. round.to)
    BY <1>1 DEF IInv, CommitRound, updateLastProcessedBlock
  <2>2. /\ round.from \in Nat /\ round.to \in Nat /\ lastProcessed \in Nat /\ round.from < round.to
        /\ lastProcessed # 0 => round.from = lastProcessed + 1
        /\ lastProcessed = 0 => scanned = {}
    BY <2>1 DEF TypeOK, Rounds, AgentInOrder
  <2>3. CASE lastProcessed = 0
    <3>1. scanned' = round.from .. lastProcessed'
      BY <2>1, <2>2, <2>3
    <3>q. QED BY <2>2, <3>1 DEF AgentSpan
  <2>4. CASE lastProcessed # 0
    <3>1. PICK a \in Nat : scanned = a .. lastProcessed
      BY <2>4 DEF AgentSpan
    <3>2. a <= lastProcessed
      BY <2>1, <2>2, <2>4, <3>1 DEF AgentInOrder
    <3>3. scanned' = a .. round.to
      BY <2>1, <2>2, <2>4, <3>1, <3>2
    <3>q. QED BY <2>1, <3>3 DEF AgentSpan
  <2>q. QED BY <2>3, <2>4
<1>2. CASE ~CommitRound
  <2>1. UNCHANGED <<lastProcessed, scanned>>
    BY <1>2 DEF Next, MonitorNext, vars, settings, history, NewBlock, UpdateSettings, UpdateAccount,
              RoundStart, Forward, ForwardNoLimit, RecordStart, Backward, RoundFails
  <2>q. QED BY <2>1 DEF AgentSpan
<1>q. QED BY <1>1, <1>2

\* The numbers of the settings of a client.
LEMMA SteadyNumbers ==
  ASSUME ClientSteady, "client" \in Roles
  PROVE  \A c \in Settings["client"] :
           /\ c.confirmations \in Nat /\ c.limit \in Nat /\ c \in Conf /\ c.limit # Unset
           /\ c.confirmations + MaxLag < MinHeight
  BY MonitorAssumption DEF ClientSteady, Conf

\* What is low stays so as the chain grows, and so does what is below it.
LEMMA LowKept ==
  ASSUME ClientSteady, TypeOK, role = "client", head' = head \/ head' = head + 1, NEW b \in Nat, Low(b)
  PROVE  Low(b)' /\ \A a \in Nat : a <= b => Low(a)'
<1>1. head \in Nat /\ MaxLag \in Nat /\ "client" \in Roles
  BY MonitorAssumption DEF TypeOK
<1>2. \A c \in Settings["client"] : c.confirmations \in Nat
  BY <1>1, SteadyNumbers
<1>3. \A a \in Nat : a <= b => Low(a)'
  BY <1>1, <1>2 DEF Low
<1>4. b <= b
  OBVIOUS
<1>q. QED BY <1>3, <1>4

\* A step that scans nothing and after which the round is over, or as far as
\* before.
LEMMA SpanKept ==
  ASSUME ClientSteady, TypeOK, ClientInOrder, role = "client", UNCHANGED <<lastProcessed, scanned>>,
         head' = head \/ head' = head + 1,
         \/ pc' = "idle"
         \/ /\ pc # "idle" /\ Chosen' = Chosen
            /\ round'.latest = round.latest /\ round'.from = round.from /\ round'.to = round.to
  PROVE  ClientInOrder'
<1>0. round.from \in Nat /\ round.to \in Nat
  BY DEF TypeOK, Rounds
<1>i. pc' = "idle" => ~Chosen'
  BY DEF Chosen
<1>1. pc' # "idle" => \A c \in Settings["client"] : c.confirmations < round'.latest
  BY DEF ClientInOrder
<1>2. lastProcessed = 0 => scanned = {} /\ (Chosen' => FirstPage')
  <2> SUFFICES ASSUME lastProcessed = 0, Chosen' PROVE FirstPage'
    BY DEF ClientInOrder
  <2>1. FirstPage /\ round'.from = round.from /\ round'.to = round.to
    BY <1>i DEF ClientInOrder
  <2>2. PICK b \in Nat : b = round.from - 1
    BY <1>0, <2>1 DEF FirstPage
  <2>3. Low(b)'
    BY <2>1, <2>2, LowKept DEF FirstPage
  <2>4. Low(round.from - 1)'
    BY <2>1, <2>2, <2>3 DEF Low
  <2>q. QED BY <2>1, <2>4 DEF FirstPage
<1>3. ASSUME lastProcessed # 0 PROVE \E b, t \in Nat : Span(b, t)'
  <2>1. PICK b \in Nat, t \in Nat : Span(b, t)
    BY <1>3 DEF ClientInOrder
  <2>2. Low(b)'
    BY <2>1, LowKept DEF Span
  <2>3. Span(b, t)'
    BY <1>i, <2>1, <2>2 DEF Span
  <2>q. QED BY <2>3
<1>q. QED BY <1>1, <1>2, <1>3 DEF ClientInOrder

\* The node's latest block is far enough from the beginning of the chain, and
\* from what was scanned.
LEMMA SpanStart ==
  ASSUME ClientSteady, TypeOK, ClientInOrder, role = "client", RoundStart
  PROVE  ClientInOrder'
<1>0. PICK lag \in 0 .. MaxLag : round' = [NoRound EXCEPT !.latest = head - lag]
  BY DEF RoundStart
<1>1. /\ round'.latest = head - lag /\ pc' = "forward" /\ ~Chosen' /\ UNCHANGED <<head, lastProcessed, scanned>>
      /\ head \in Nat /\ MinHeight <= head /\ MinHeight \in Nat /\ MaxLag \in Nat /\ lag \in Nat /\ lag <= MaxLag
      /\ "client" \in Roles
  BY <1>0, MonitorAssumption DEF RoundStart, NoRound, Chosen, settings, history, TypeOK
<1>2. \A c \in Settings["client"] : c.confirmations \in Nat /\ c.confirmations + MaxLag < MinHeight
  BY <1>1, SteadyNumbers
<1>3. \A c \in Settings["client"] : c.confirmations < round'.latest
  BY <1>1, <1>2
<1>4. ASSUME lastProcessed # 0 PROVE \E b, t \in Nat : Span(b, t)'
  <2>1. PICK b \in Nat, t \in Nat : Span(b, t)
    BY <1>4 DEF ClientInOrder
  <2>2. \A c \in Settings["client"] : b + c.confirmations <= round'.latest + 1
    BY <1>1, <1>2, <1>3, <2>1 DEF Span, Low
  <2>3. Low(b)'
    BY <1>1, <2>1 DEF Span, Low
  <2>q. QED BY <1>1, <2>1, <2>2, <2>3 DEF Span
<1>q. QED BY <1>1, <1>3, <1>4 DEF ClientInOrder

\* The range that is chosen: the first page is low, and a later one ends no more
\* than next to what was scanned.
LEMMA SpanForward ==
  ASSUME ClientSteady, TypeOK, ConfInv, ClientInOrder, role = "client", Forward
  PROVE  ClientInOrder'
<1> DEFINE end == safeSub(round.latest, conf.confirmations)
           first == (IF lastProcessed = 0 THEN safeSub(end, conf.limit) ELSE lastProcessed) + 1
           r == rangeOfInterest(round.latest, lastProcessed, conf)
<1>0. /\ "client" \in Roles /\ conf \in Settings["client"] /\ lastProcessed \in Nat /\ round \in Rounds
      /\ round.latest \in Nat /\ round.latest <= head /\ head \in Nat /\ MaxLag \in Nat /\ pc = "forward" /\ ~Chosen
  BY MonitorAssumption DEF TypeOK, ConfInv, Rounds, Bounded, Forward, Chosen
<1>1. conf.confirmations \in Nat /\ conf.limit \in Nat /\ conf.confirmations < round.latest
  BY <1>0, SteadyNumbers DEF ClientInOrder
<1>2. end = round.latest - conf.confirmations /\ end \in Nat /\ end > 0
  BY <1>0, <1>1 DEF safeSub
<1>s. safeSub(end, conf.limit) \in Nat /\ safeSub(end, conf.limit) <= end
  BY <1>1, <1>2, SafeSub
<1>3. first \in Nat /\ first > 0
  BY <1>0, <1>s
<1>4. r = IF conf.limit # 0 /\ end > first /\ end - first > conf.limit
          THEN <<first, first + conf.limit>> ELSE <<first, end>>
  BY DEF rangeOfInterest
<1>5. ChooseForward(r) /\ UNCHANGED <<head, lastProcessed, scanned>>
  BY DEF Forward, settings, history
<1>6. lastProcessed = 0 => first - 1 = safeSub(end, conf.limit) /\ first - 1 <= end
  BY <1>2, <1>s
<1>7. lastProcessed # 0 => first = lastProcessed + 1
  OBVIOUS
<1>8. lastProcessed = 0 => Low(first - 1)
  <2> SUFFICES ASSUME lastProcessed = 0, safeSub(end, conf.limit) # 0, NEW c \in Settings["client"]
               PROVE  first - 1 + c.confirmations + MaxLag <= head + 1
    BY <1>6 DEF Low
  <2>1. c.confirmations \in Nat /\ c.confirmations + MaxLag <= conf.confirmations + conf.limit + 1
    BY <1>0, SteadyNumbers DEF ClientSteady
  <2>2. first - 1 = round.latest - conf.confirmations - conf.limit
    BY <1>1, <1>2, <1>6 DEF safeSub
  <2>q. QED BY <1>0, <1>1, <1>3, <2>1, <2>2
<1>9. end + conf.confirmations = round.latest
  BY <1>0, <1>1, <1>2
<1> HIDE DEF end, first, r
<1>10. r[1] = first /\ r[2] \in Nat /\ r[2] > 0 /\ (r[2] = end \/ r[2] >= first)
  BY <1>1, <1>2, <1>3, <1>4
<1>11. round'.from = first /\ round'.to = r[2] /\ round'.latest = round.latest
  BY <1>0, <1>5, <1>10 DEF ChooseForward, Rounds
<1>12. ASSUME lastProcessed = 0 PROVE scanned' = {} /\ FirstPage'
  <2>1. scanned' = {} /\ first - 1 <= r[2]
    BY <1>2, <1>3, <1>5, <1>6, <1>10, <1>12 DEF ClientInOrder
  <2>2. Low(round.from - 1)'
    BY <1>5, <1>8, <1>11, <1>12 DEF Low
  <2>q. QED BY <1>3, <1>10, <1>11, <2>1, <2>2 DEF FirstPage
<1>13. ASSUME lastProcessed # 0 PROVE \E b, t \in Nat : Span(b, t)'
  <2>1. PICK b \in Nat, t \in Nat : Span(b, t)
    BY <1>13 DEF ClientInOrder
  <2>2. b + conf.confirmations <= round.latest + 1 /\ b <= lastProcessed + 1
    BY <1>0, <2>1 DEF Span
  <2>3. b <= r[2] + 1
    BY <1>0, <1>1, <1>2, <1>3, <1>7, <1>9, <1>10, <1>13, <2>2
  <2>4. Low(b)'
    BY <1>5, <2>1 DEF Span, Low
  <2>5. \A c \in Settings["client"] : b + c.confirmations <= round'.latest + 1
    BY <1>0, <1>11, <2>1 DEF Span
  <2>6. round'.from = lastProcessed + 1 /\ b <= round'.to + 1 /\ 0 < round'.to
    BY <1>7, <1>10, <1>11, <1>13, <2>3
  <2>7. scanned' = (b + 1) .. t /\ b <= lastProcessed' + 1 /\ lastProcessed' <= t
    BY <1>5, <2>1 DEF Span
  <2>8. Span(b, t)'
    BY <1>5, <2>4, <2>5, <2>6, <2>7 DEF Span
  <2>q. QED BY <2>8
<1>14. \A c \in Settings["client"] : c.confirmations < round'.latest
  BY <1>0, <1>11 DEF ClientInOrder
<1>q. QED BY <1>5, <1>12, <1>13, <1>14 DEF ClientInOrder

\* A round of the client is committed: the range joins what was scanned.
LEMMA SpanCommit ==
  ASSUME ClientSteady, TypeOK, ClientInOrder, role = "client", CommitRound
  PROVE  ClientInOrder'
<1>0. /\ Chosen /\ pc' = "idle" /\ ~Chosen' /\ UNCHANGED head
      /\ lastProcessed' = round.to /\ scanned' = scanned \cup (round.from .. round.to)
      /\ round.from \in Nat /\ round.to \in Nat /\ lastProcessed \in Nat
  BY DEF CommitRound, updateLastProcessedBlock, Chosen, TypeOK, Rounds
<1>1. ASSUME NEW b \in Nat, NEW t \in Nat, scanned' = (b + 1) .. t, b <= round.to + 1, round.to <= t, Low(b)', 0 < round.to
      PROVE  ClientInOrder'
  <2>1. Span(b, t)'
    BY <1>0, <1>1 DEF Span
  <2>q. QED BY <1>0, <1>1, <2>1 DEF ClientInOrder
<1>2. CASE lastProcessed = 0
  <2>1. scanned = {} /\ FirstPage
    BY <1>0, <1>2 DEF ClientInOrder
  <2>2. PICK b \in Nat : b = round.from - 1 /\ round.from = b + 1
    BY <1>0, <2>1 DEF FirstPage
  <2>3. scanned' = (b + 1) .. round.to /\ b <= round.to + 1 /\ 0 < round.to
    BY <1>0, <2>1, <2>2 DEF FirstPage
  <2>4. Low(b)'
    BY <1>0, <2>1, <2>2, LowKept DEF FirstPage
  <2>q. QED BY <1>0, <1>1, <2>3, <2>4
<1>3. CASE lastProcessed # 0
  <2>1. PICK b \in Nat, t \in Nat : Span(b, t)
    BY <1>3 DEF ClientInOrder
  <2>2. /\ scanned = (b + 1) .. t /\ b <= lastProcessed + 1 /\ lastProcessed <= t /\ Low(b)
        /\ round.from = lastProcessed + 1 /\ b <= round.to + 1 /\ 0 < round.to
    BY <1>0, <2>1 DEF Span
  <2>3. \A a \in Nat : a <= b => Low(a)'
    BY <1>0, <2>2, LowKept
  <2>4. CASE round.to <= lastProcessed
    <3>1. scanned' = (b + 1) .. t /\ round.to <= t
      BY <1>0, <2>2, <2>4
    <3>q. QED BY <1>0, <1>1, <2>2, <2>3, <3>1
  <2>5. CASE round.to > lastProcessed
    <3>1. PICK u \in Nat : u >= t /\ u >= round.to /\ (u = t \/ u = round.to)
      BY <1>0
    <3>2. CASE b <= lastProcessed
      <4>1. scanned' = (b + 1) .. u
        BY <1>0, <2>2, <2>5, <3>1, <3>2
      <4>q. QED BY <1>0, <1>1, <2>2, <2>3, <3>1, <4>1
    <3>3. CASE b = lastProcessed + 1
      <4>1. scanned' = (lastProcessed + 1) .. u
        BY <1>0, <2>2, <2>5, <3>1, <3>3
      <4>2. lastProcessed <= b /\ lastProcessed <= round.to + 1
        BY <1>0, <2>5, <3>3
      <4>3. PICK a \in Nat : a = lastProcessed
        BY <1>0
      <4>4. Low(a)' /\ a <= round.to + 1 /\ scanned' = (a + 1) .. u
        BY <2>3, <4>1, <4>2, <4>3
      <4>q. QED BY <1>1, <2>2, <3>1, <4>4
    <3>q. QED BY <1>0, <2>2, <3>2, <3>3
  <2>q. QED BY <1>0, <2>4, <2>5
<1>q. QED BY <1>2, <1>3

\* Every step of a client's monitor keeps what it has scanned without a gap.
LEMMA ClientSpanStep ==
  ASSUME ClientSteady, IInv, ConfInv, ClientInOrder, [Next]_vars, role = "client"
  PROVE  ClientInOrder'
<1>0. TypeOK /\ round \in Rounds
  BY DEF IInv, TypeOK
<1>1. CASE NewBlock \/ UpdateSettings \/ UpdateAccount \/ RoundFails \/ UNCHANGED vars
  <2>1. UNCHANGED <<lastProcessed, scanned, round>> /\ (head' = head \/ head' = head + 1) /\ (pc' = "idle" \/ pc' = pc)
    BY <1>1 DEF NewBlock, UpdateSettings, UpdateAccount, RoundFails, vars, settings, history
  <2>q. QED BY <1>0, <2>1, SpanKept DEF Chosen
<1>2. CASE ForwardNoLimit
  <2>1. "client" \in Roles /\ conf \in Settings["client"]
    BY <1>0 DEF TypeOK, ConfInv
  <2>2. conf.limit # Unset /\ MaxSwallowed["client"] = 0
    BY <2>1, SteadyNumbers DEF ClientSteady
  <2>3. faults.swallowed \in Nat
    BY <1>0 DEF TypeOK
  <2>q. QED BY <1>2, <2>2, <2>3 DEF ForwardNoLimit
<1>3. CASE RecordStart
  <2>1. /\ round'.latest = round.latest /\ round'.from = round.from /\ round'.to = round.to
        /\ UNCHANGED <<head, lastProcessed, scanned>> /\ Chosen /\ Chosen' /\ pc # "idle"
    BY <1>0, <1>3 DEF RecordStart, Rounds, history, Chosen
  <2>q. QED BY <1>0, <2>1, SpanKept
<1>4. CASE Backward
  <2>1. CASE conf.limit = Unset
    BY <1>0, <1>4, <2>1, SpanKept DEF Backward, settings, history
  <2>2. CASE conf.limit # Unset
    <3>1. /\ round'.latest = round.latest /\ round'.from = round.from /\ round'.to = round.to
          /\ UNCHANGED <<head, lastProcessed, scanned>> /\ Chosen /\ Chosen' /\ pc # "idle"
      BY <1>0, <1>4, <2>2 DEF Backward, Rounds, settings, history, Chosen
    <3>q. QED BY <1>0, <3>1, SpanKept
  <2>q. QED BY <2>1, <2>2
<1>q. QED BY <1>0, <1>1, <1>2, <1>3, <1>4, SpanStart, SpanForward, SpanCommit DEF Next, MonitorNext

\* An agent, and a client that goes back no further than its first page, leave no
\* block out: between two blocks scanned every one has been scanned, however
\* rounds fail, settings change and the node lags.
THEOREM ScansOn == ClientSteady => (Spec => []ScannedContiguous)
<1> SUFFICES ASSUME ClientSteady PROVE Spec => []ScannedContiguous
  OBVIOUS
<1>1. Init => SpanInv
  BY DEF Init, SpanInv, AgentSpan, ClientInOrder, Chosen
<1>2. IInv /\ ConfInv /\ SpanInv /\ [Next]_vars => SpanInv'
  <2> SUFFICES ASSUME IInv, ConfInv, SpanInv, [Next]_vars PROVE SpanInv'
    OBVIOUS
  <2>1. role' = role
    BY RoleKept
  <2>q. QED BY <2>1, AgentSpanStep, ClientSpanStep DEF SpanInv
<1>3. IInv /\ SpanInv => ScannedContiguous
  <2> SUFFICES ASSUME IInv, SpanInv, NEW x \in scanned, NEW z \in scanned, NEW y \in x .. z PROVE y \in scanned
    BY DEF ScannedContiguous
  <2>1. TypeOK /\ role \in {"agent", "client"} /\ lastProcessed \in Nat
    BY MonitorAssumption DEF IInv, TypeOK
  <2>2. \E a, t \in Nat : scanned = a .. t
    <3>1. CASE role = "agent"
      <4>1. lastProcessed # 0
        BY <3>1 DEF IInv, AgentInOrder
      <4>q. QED BY <2>1, <3>1, <4>1 DEF SpanInv, AgentSpan
    <3>2. CASE role = "client"
      <4>1. PICK b \in Nat, t \in Nat : Span(b, t)
        BY <3>2 DEF SpanInv, ClientInOrder
      <4>2. scanned = (b + 1) .. t /\ b + 1 \in Nat
        BY <4>1 DEF Span
      <4>q. QED BY <4>2
    <3>q. QED BY <2>1, <3>1, <3>2
  <2>3. PICK a \in Nat, t \in Nat : scanned = a .. t
    BY <2>2
  <2>q. QED BY <2>3
<1>q. QED BY <1>1, <1>2, <1>3, InvCorrect, ConfInit, ConfStep, PTL DEF Spec
=============================================================================

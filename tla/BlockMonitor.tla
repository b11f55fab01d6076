---------------------------- MODULE BlockMonitor ----------------------------
(***************************************************************************)
(* The blockchain monitor (bc/monitor.go, bc/bc.go,                        *)
(* bc/range_of_interest.go): rounds that choose ranges of blocks, fetch    *)
(* their logs, and commit the jobs for them together with the settings     *)
(* that say how far the monitor has come.                                  *)
(*                                                                         *)
(* Logs are abstracted to the blocks they are taken from.  The settings    *)
(* can be changed by the UI at any time; the program may fail or crash at  *)
(* any point of a round.                                                   *)
(***************************************************************************)
EXTENDS Naturals, FiniteSets

CONSTANTS
  Roles,      \* the roles of the program: "agent", "client"
  MaxBlock,   \* bound: the height the chain reaches
  MinHeight,  \* the height of the chain when the program is installed
  MaxLag,     \* how far the Ethereum node may be behind the chain
  Settings,   \* for each role, the values of the settings the UI may choose from
  Unset,      \* a setting that is null or no number
  MaxFails,   \* bound: rounds that fail
  MaxSwallowed  \* bound, for each role: failed reads of the block limit

Blocks == 0 .. MaxBlock

Conf == [confirmations : Nat, limit : Nat \cup {Unset}, fresh : Nat]

ASSUME MonitorAssumption ==
  /\ Roles \subseteq {"agent", "client"}
  /\ MaxBlock \in Nat /\ MinHeight \in Nat /\ MaxLag \in Nat
  /\ MaxLag <= MinHeight /\ MinHeight <= MaxBlock
  /\ Unset \notin Nat
  /\ \A r \in Roles : Settings[r] \subseteq Conf /\ MaxSwallowed[r] \in Nat

VARIABLES
  role,           \* user.role, chosen once at installation
  head,           \* height of the chain
  conf,           \* eth.min.confirmations, eth.event.blocklimit, ...freshblocks
  inUse,          \* some account is in use
  lastProcessed,  \* eth.event.lastProcessedBlock
  lastBack,       \* eth.event.lastBackSearchBlock
  startBlock,     \* eth.event.clientMonitoringStartBlock
  pc,             \* control of Round
  round,          \* the local variables of Round
  scanned,        \* history: blocks whose jobs the forward search committed
  searched,       \* history: blocks the backward search committed
  faults          \* how many faults of each kind have happened

settings == <<lastProcessed, lastBack, startBlock>>
history  == <<scanned, searched>>
vars     == <<role, head, conf, inUse, settings, pc, round, history, faults>>

Pcs     == {"idle", "forward", "start", "back", "filter"}
NoRound == [latest |-> 0, from |-> 0, to |-> 0, up |-> 0, backFrom |-> 0, backTo |-> 0]
Rounds  == [latest : Nat, from : Nat, to : Nat, up : Nat, backFrom : Nat, backTo : Nat]

-----------------------------------------------------------------------------
(* Ranges of interest.                                                     *)

\* Mutant of safeSub: an unguarded difference.
safeSub_Plain(a, b) == a - b

safeSub(a, b) == IF a > b THEN a - b ELSE 0

\* Mutant of rangeOfInterest: a page starts at the last processed block.
rangeOfInterest_Overlap(latest, last, c) ==
  LET first == IF last = 0
               THEN safeSub(safeSub(latest, c.confirmations), c.limit) ELSE last
  IN  <<first, safeSub(latest, c.confirmations)>>

\* Mutant of rangeOfInterest: the newest page is taken, not the next one.
rangeOfInterest_Newest(latest, last, c) ==
  LET end   == safeSub(latest, c.confirmations)
      first == (IF last = 0 THEN safeSub(end, c.limit) ELSE last) + 1
  IN  IF c.limit # 0 /\ end > first /\ end - first > c.limit
      THEN <<end - c.limit, end>> ELSE <<first, end>>

\* Mutant of rangeOfInterest: blocks are not required to be confirmed.
rangeOfInterest_Unconfirmed(latest, last, c) ==
  LET first == (IF last = 0 THEN safeSub(latest, c.limit) ELSE last) + 1
  IN  <<first, latest>>

\* From the block after the last processed one to the last confirmed one, or a
\* page of limit + 1 blocks; at first, limit blocks back.
rangeOfInterest(latest, last, c) ==
  LET end   == safeSub(latest, c.confirmations)
      first == (IF last = 0 THEN safeSub(end, c.limit) ELSE last) + 1
  IN  IF c.limit # 0 /\ end > first /\ end - first > c.limit
      THEN <<first, first + c.limit>> ELSE <<first, end>>

\* Mutant of offeringsRangeOfInterest: pages overlook the block between them.
offeringsRangeOfInterest_Skip(up, last, c) ==
  LET start == IF last = 0 THEN safeSub(up, c.confirmations) + 1 ELSE last
      oldest == safeSub(up, c.fresh)
      to    == safeSub(start, 2)
      page  == safeSub(safeSub(start, c.limit), 1)
      from  == IF page < oldest THEN safeSub(oldest, c.confirmations) ELSE page
  IN  IF to <= oldest \/ to <= from THEN <<0, 0>> ELSE <<from, to>>

\* A page of limit + 1 blocks below the one searched last, down to fresh blocks
\* below the start; <<0, 0>> when there is none.
offeringsRangeOfInterest(up, last, c) ==
  LET start == IF last = 0 THEN safeSub(up, c.confirmations) + 1 ELSE last
      oldest == safeSub(up, c.fresh)
      to    == safeSub(start, 1)
      page  == safeSub(safeSub(start, c.limit), 1)
      from  == IF page < oldest THEN safeSub(oldest, c.confirmations) ELSE page
  IN  IF to <= oldest \/ to <= from THEN <<0, 0>> ELSE <<from, to>>

-----------------------------------------------------------------------------
(* The environment: the chain and the user.                                *)

NewBlock ==
  /\ head < MaxBlock
  /\ head' = head + 1
  /\ UNCHANGED <<role, conf, inUse, settings, pc, round, history, faults>>

\* UpdateSettings checks no value; every setting here may be written.
UpdateSettings ==
  /\ conf' \in Settings[role] \ {conf}
  /\ UNCHANGED <<role, head, inUse, settings, pc, round, history, faults>>

\* An account is created, or its in_use changed.
UpdateAccount ==
  /\ inUse' = ~inUse
  /\ UNCHANGED <<role, head, conf, settings, pc, round, history, faults>>

-----------------------------------------------------------------------------
(* Round.                                                                  *)

\* A tick: the node reports its latest block, maybe not the chain's.
RoundStart ==
  /\ pc = "idle"
  /\ \E lag \in 0 .. MaxLag : round' = [NoRound EXCEPT !.latest = head - lag]
  /\ pc' = "forward"
  /\ UNCHANGED <<role, head, conf, inUse, settings, history, faults>>

\* The forward range <<from, to>> decides how the round goes on: without one,
\* or without an account, the agent has no queries; the client needs an account.
ChooseForward(r) ==
  /\ round' = [round EXCEPT !.from = r[1], !.to = r[2]]
  /\ pc' = IF ~inUse \/ (role = "agent" /\ r[1] >= r[2]) THEN "idle"
           ELSE IF role = "agent" THEN "filter" ELSE "start"

Forward ==
  /\ pc = "forward"
  /\ conf.limit # Unset
  /\ ChooseForward(rangeOfInterest(round.latest, lastProcessed, conf))
  /\ UNCHANGED <<role, head, conf, inUse, settings, history, faults>>

\* An error of reading the block limit is dropped: the range is <<0, 0>>.
ForwardNoLimit ==
  /\ pc = "forward"
  /\ \/ /\ conf.limit = Unset
        /\ UNCHANGED faults
     \/ /\ faults.swallowed < MaxSwallowed[role]
        /\ faults' = [faults EXCEPT !.swallowed = @ + 1]
  /\ ChooseForward(<<0, 0>>)
  /\ UNCHANGED <<role, head, conf, inUse, settings, history>>

\* The client's first round records where its monitoring started.
RecordStart ==
  /\ pc = "start"
  /\ startBlock' = IF startBlock = 0 THEN round.latest ELSE startBlock
  /\ round' = [round EXCEPT !.up = startBlock']
  /\ pc' = "back"
  /\ UNCHANGED <<role, head, conf, inUse, lastProcessed, lastBack, history, faults>>

\* Here the error is returned and ends the round.
Backward ==
  /\ pc = "back"
  /\ \/ /\ conf.limit = Unset
        /\ pc' = "idle"
        /\ UNCHANGED round
     \/ /\ conf.limit # Unset
        /\ LET r == offeringsRangeOfInterest(round.up, lastBack, conf)
           IN  round' = [round EXCEPT !.backFrom = r[1], !.backTo = r[2]]
        /\ pc' = "filter"
  /\ UNCHANGED <<role, head, conf, inUse, settings, history, faults>>

\* Mutant of updateLastProcessedBlock: it is not updated.
updateLastProcessedBlock_Forgotten(to) == UNCHANGED lastProcessed

updateLastProcessedBlock(to) == lastProcessed' = to

\* The logs of every query are fetched and their jobs made; one transaction
\* adds the jobs and moves the settings.
CommitRound ==
  /\ pc = "filter"
  /\ updateLastProcessedBlock(round.to)
  /\ scanned' = scanned \cup (round.from .. round.to)
  /\ IF role = "agent" THEN UNCHANGED <<lastBack, searched>>
     ELSE /\ lastBack' = round.backFrom
          /\ searched' = searched \cup (round.backFrom .. round.backTo)
  /\ pc' = "idle"
  /\ UNCHANGED <<role, head, conf, inUse, startBlock, round, faults>>

\* A request or a query fails, the transaction is rolled back, or the program
\* stops or dies: nothing but the client's start block has been written.
RoundFails ==
  /\ pc # "idle"
  /\ faults.fails < MaxFails
  /\ faults' = [faults EXCEPT !.fails = @ + 1]
  /\ pc' = "idle"
  /\ UNCHANGED <<role, head, conf, inUse, settings, round, history>>

-----------------------------------------------------------------------------
Init ==
  /\ role \in Roles
  /\ head = MinHeight
  /\ conf \in Settings[role]
  /\ inUse = FALSE
  /\ lastProcessed = 0
  /\ lastBack = 0
  /\ startBlock = 0
  /\ pc = "idle"
  /\ round = NoRound
  /\ scanned = {}
  /\ searched = {}
  /\ faults = [fails |-> 0, swallowed |-> 0]

MonitorNext ==
  RoundStart \/ Forward \/ ForwardNoLimit \/ RecordStart \/ Backward \/ CommitRound

Next ==
  \/ MonitorNext
  \/ NewBlock \/ UpdateSettings \/ UpdateAccount
  \/ RoundFails

Spec == Init /\ [][Next]_vars

\* The ticker starts a round again and again and requests end by their timeout.
FairSpec == Spec /\ WF_vars(MonitorNext)

-----------------------------------------------------------------------------
(* Properties.                                                             *)

\* No number the monitor stores or computes is above the chain.
Bounded ==
  /\ startBlock <= head /\ lastBack <= head
  /\ round.latest <= head /\ round.to <= head /\ round.up <= head
  /\ round.backFrom <= head /\ round.backTo <= head

\* The type invariant: settings and local variables are numbers within the
\* chain, and so are the blocks taken.
TypeOK ==
  /\ role \in Roles
  /\ head \in MinHeight .. MaxBlock
  /\ conf \in Conf
  /\ inUse \in BOOLEAN
  /\ lastProcessed \in Nat /\ lastBack \in Nat /\ startBlock \in Nat
  /\ pc \in Pcs
  /\ round \in Rounds
  /\ Bounded
  /\ scanned \subseteq Blocks /\ searched \subseteq Blocks
  /\ faults \in [fails : Nat, swallowed : Nat]

\* The agent's settings and what it has scanned agree, and the range of a round
\* is the one that follows, until the round commits or fails.
AgentInOrder ==
  /\ pc \notin {"start", "back"}
  /\ lastProcessed = 0 <=> scanned = {}
  /\ lastProcessed # 0 => lastProcessed \in scanned
  /\ \A b \in scanned : b <= lastProcessed
  /\ pc = "filter" =>
       /\ 0 < round.from /\ round.from < round.to /\ round.to <= head
       /\ lastProcessed # 0 => round.from = lastProcessed + 1

\* The inductive invariant of the monitor: the position is moved in the same
\* transaction as the jobs are added, so it never disagrees with them.
IInv == TypeOK /\ (role = "agent" => AgentInOrder)

\* The blocks an agent has scanned; BlockScan promises nothing of the client.
AgentScanned == IF role = "agent" THEN scanned ELSE {}

Scan == INSTANCE BlockScan WITH scanned <- AgentScanned

\* However rounds fail, settings change and the node lags, the agent takes the
\* blocks in order, without a gap and each one once: there is no other defence
\* against a second job for the creation of one channel.
ImplementsScan == Scan!Spec

\* The client may take blocks again when the node lags, but it leaves none out:
\* between two blocks it has scanned it has scanned every one (0 stands for none).
ScannedContiguous ==
  \A a, c \in scanned \ {0} : \A b \in a .. c : b \in scanned

\* "These last blocks will not be used to fetch events": a block that either
\* search takes has the confirmations of some setting the user had, however far
\* the rounds lag.  (Block 0 stands for an empty range of the client's searches.)
ConfirmedOnly ==
  [][\A b \in (scanned' \ scanned) \cup (searched' \ searched) :
        b # 0 => \E c \in Settings[role] : b + c.confirmations <= head]_vars

\* The forward search has reached the confirmed blocks the node reports, but for
\* the last one.
UpToDate == lastProcessed + conf.confirmations + MaxLag + 1 >= head

\* While some account is in use and the block limit is a page size, the forward
\* search keeps up with the chain, whatever rounds fail and however the
\* settings were changed before.
KeepsUp == <>[](inUse /\ conf.limit \notin {0, Unset}) => []<>UpToDate

\* The client's backward search reaches every fresh block below its start.
BackSearchCovers ==
  <>[]inUse =>
    (role = "client" /\ startBlock # 0 ~>
       \A b \in Blocks : /\ b > safeSub(startBlock, conf.fresh)
                         /\ b <= safeSub(startBlock, conf.confirmations)
                         => b \in searched)

\* "If eth.event.blocklimit is null or zero then no pagination is used": without
\* a page size the search keeps up as well.
UnpagedKeepsUp == <>[](inUse /\ conf.limit \in {0, Unset}) => []<>UpToDate
=============================================================================

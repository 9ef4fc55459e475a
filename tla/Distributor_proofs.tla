------------------------- MODULE Distributor_proofs -------------------------
(***************************************************************************)
(* For any number of epochs, of overlapping intervals and of faults: no    *)
(* epoch is sent for distribution twice, before its end or before the      *)
(* mining of its syncRewards, the epochs table never runs ahead of the     *)
(* contract, only epochs that were outrun are passed over, and the flag    *)
(* against overlapping jobs is never left set.                             *)
(***************************************************************************)
EXTENDS Distributor, TLAPS

Job == [pc: Stages, current: Epochs, flag: BOOLEAN]

\* The stages of distributeEpochRewards before its second transaction, those with it
\* on its way, and the copies to the database.
Early  == {"distributed", "sync", "syncWait", "distribute"}
Paying == {"wait", "archive"}
After  == {"readPrevious", "savePrevious", "readCurrent", "saveCurrent"}

\* What a job at work can rely on, whatever happens in its awaits.
Knows(j) ==
  /\ job[j].pc \in Early \cup Paying \cup After =>
       /\ job[j].current \in 1..epoch
       /\ lastCheckedEpoch > 0
       /\ job[j].current - 1 \in attempted
  /\ job[j].pc \in Early \cup Paying => lastCheckedEpoch < job[j].current
  /\ job[j].pc \in After => lastCheckedEpoch = job[j].current
  /\ job[j].pc = "syncWait" =>
       Pending(SyncTx(job[j].current - 1)) \/ job[j].current - 1 \in synced
  /\ job[j].pc = "distribute" => job[j].current - 1 \in synced
  /\ job[j].pc = "savePrevious" /\ job[j].flag => job[j].current - 1 \in distributed
  /\ job[j].pc = "saveCurrent" /\ job[j].flag => job[j].current \in distributed

JobsKnow == \A j \in Jobs : Knows(j)

\* isRunning keeps the jobs apart.
OneRuns ==
  /\ \A j \in Jobs : job[j].pc # "idle" => isRunning
  /\ \A i, j \in Jobs : job[i].pc # "idle" /\ job[j].pc # "idle" => i = j

\* What was sent is over, and checked, or sent by the job that is about to check it.
SubmittedBefore ==
  \A f \in submitted :
    /\ f < epoch
    /\ lastCheckedEpoch > 0 =>
         \/ f < lastCheckedEpoch
         \/ \E j \in Jobs : job[j].pc \in Paying /\ f < job[j].current

\* An epoch that is neither attempted nor outrun is the last one to end, and unchecked.
OnlyLastWaits ==
  /\ \A e \in watched : e < epoch
  /\ \A e \in watched \ (attempted \cup outrun) :
       lastCheckedEpoch > 0 /\ lastCheckedEpoch <= e /\ e = epoch - 1

Control ==
  /\ lastCheckedEpoch \in 0..epoch
  /\ isRunning \in BOOLEAN
  /\ job \in [Jobs -> Job]
  /\ OneRuns
  /\ JobsKnow
  /\ SubmittedBefore
  /\ OnlyLastWaits

Data ==
  /\ epoch \in Epochs
  /\ distributed \subseteq Epochs
  /\ mempool \in Seq(Tx)
  /\ archived \subseteq Epochs /\ epochRow \in [Epochs -> BOOLEAN]
  /\ synced \subseteq Epochs /\ submitted \subseteq Epochs /\ attempted \subseteq Epochs
  /\ watched \subseteq Epochs /\ outrun \subseteq Epochs
  /\ faults \in [FaultKinds -> Nat]

DistInv == Control /\ Data /\ SyncedBeforeDistributed /\ RowsTruthful

LEMMA InvHasTypes == DistInv => TypeOK
<1> SUFFICES ASSUME DistInv PROVE TypeOK
  OBVIOUS
<1>1. lastCheckedEpoch \in Epochs
  BY BoundsAssumption DEF DistInv, Control, Data, Epochs
<1>2. \A j \in Jobs : job[j].pc \notin {"idle", "epoch"} => job[j].current > 0
  BY DEF DistInv, Control, Data, Epochs, JobsKnow, Knows, Job, Stages, Early, Paying, After
<1> QED
  BY <1>1, <1>2 DEF DistInv, Control, Data, TypeOK, Job

LEMMA InvOnlyOutrun == DistInv => OnlyOutrunSkipped
<1> SUFFICES ASSUME DistInv, NEW e \in watched, e < lastCheckedEpoch
             PROVE  e \in attempted \cup outrun
  BY DEF OnlyOutrunSkipped
<1> QED
  BY DEF DistInv, Control, Data, Epochs, OnlyLastWaits

-----------------------------------------------------------------------------
\* The transactions on their way, when one is sent and when one is mined.
LEMMA PendingAppend ==
  ASSUME mempool \in Seq(Tx), NEW new \in Tx, mempool' = Append(mempool, new), NEW tx
  PROVE  /\ mempool' \in Seq(Tx)
         /\ Pending(tx)' <=> Pending(tx) \/ tx = new
<1>1. /\ Len(mempool') = Len(mempool) + 1
      /\ \A i \in 1..Len(mempool) : mempool'[i] = mempool[i]
      /\ mempool'[Len(mempool) + 1] = new
  OBVIOUS
<1>2. DOMAIN mempool = 1..Len(mempool) /\ DOMAIN mempool' = 1..Len(mempool')
  OBVIOUS
<1>3. Len(mempool) \in Nat
  OBVIOUS
<1> QED
  BY <1>1, <1>2, <1>3 DEF Pending

LEMMA PendingTail ==
  ASSUME mempool \in Seq(Tx), mempool # <<>>, mempool' = Tail(mempool), NEW tx
  PROVE  /\ mempool' \in Seq(Tx) /\ Head(mempool) \in Tx
         /\ Pending(tx)' => Pending(tx)
         /\ Pending(tx) /\ tx # Head(mempool) => Pending(tx)'
<1>1. /\ Len(mempool) \in Nat \ {0}
      /\ Len(mempool') = Len(mempool) - 1
      /\ \A i \in 1..Len(mempool') : mempool'[i] = mempool[i + 1]
      /\ Head(mempool) = mempool[1]
  OBVIOUS
<1>2. DOMAIN mempool = 1..Len(mempool) /\ DOMAIN mempool' = 1..Len(mempool')
  OBVIOUS
<1>3. Pending(tx) /\ tx # Head(mempool) => Pending(tx)'
  <2> SUFFICES ASSUME NEW i \in 1..Len(mempool), mempool[i] = tx, i # 1
               PROVE  Pending(tx)'
    BY <1>1, <1>2 DEF Pending
  <2>1. i - 1 \in 1..Len(mempool') /\ mempool'[i - 1] = tx
    BY <1>1
  <2> QED
    BY <2>1, <1>2 DEF Pending
<1>4. Pending(tx)' => Pending(tx)
  <2> SUFFICES ASSUME NEW i \in 1..Len(mempool'), mempool'[i] = tx
               PROVE  Pending(tx)
    BY <1>2 DEF Pending
  <2>1. i + 1 \in 1..Len(mempool) /\ mempool[i + 1] = tx
    BY <1>1
  <2> QED
    BY <2>1, <1>2 DEF Pending
<1> QED
  BY <1>1, <1>3, <1>4

LEMMA Transactions ==
  ASSUME NEW e \in Epochs
  PROVE  SyncTx(e) \in Tx /\ PayTx(e) \in Tx /\ SyncTx(e) # PayTx(e)
  BY DEF SyncTx, PayTx, Tx

LEMMA SufferType ==
  ASSUME faults \in [FaultKinds -> Nat], NEW kind \in FaultKinds, Suffer(kind)
  PROVE  faults' \in [FaultKinds -> Nat]
  BY DEF Suffer

LEMMA EpochsNat == Epochs \subseteq Nat /\ 0 \in Epochs
  BY BoundsAssumption DEF Epochs

LEMMA Earlier == ASSUME NEW e \in Epochs, NEW c \in 1..e PROVE c \in Epochs /\ c - 1 \in Epochs
  BY BoundsAssumption DEF Epochs

-----------------------------------------------------------------------------
\* What stays true when nothing of it changes.
LEMMA SameTransactions ==
  ASSUME SyncedBeforeDistributed, UNCHANGED mempool, synced \subseteq synced'
  PROVE  SyncedBeforeDistributed'
  BY DEF SyncedBeforeDistributed, Pending

LEMMA SameRows ==
  ASSUME RowsTruthful, UNCHANGED epochRow, distributed \subseteq distributed'
  PROVE  RowsTruthful'
  BY DEF RowsTruthful

LEMMA SameEpochs ==
  ASSUME OnlyLastWaits, UNCHANGED <<lastCheckedEpoch, epoch, watched, outrun>>,
         attempted \subseteq attempted'
  PROVE  OnlyLastWaits'
  BY DEF OnlyLastWaits

\* A job at work is the only one.
LEMMA Alone ==
  ASSUME OneRuns, NEW j \in Jobs, job[j].pc # "idle"
  PROVE  isRunning /\ \A i \in Jobs \ {j} : job[i].pc = "idle"
  BY DEF OneRuns

\* It goes on.
LEMMA JobMoves ==
  ASSUME job \in [Jobs -> Job], OneRuns, JobsKnow,
         NEW j \in Jobs, job[j].pc # "idle",
         NEW r \in Job, r.pc # "idle", job' = [job EXCEPT ![j] = r], UNCHANGED isRunning
  PROVE  /\ job' \in [Jobs -> Job]
         /\ job'[j] = r
         /\ \A i \in Jobs \ {j} : job'[i] = job[i] /\ job'[i].pc = "idle"
         /\ OneRuns'
         /\ Knows(j)' => JobsKnow'
<1>1. \A i \in Jobs \ {j} : job'[i] = job[i] /\ job'[i].pc = "idle"
  BY Alone
<1>2. job' \in [Jobs -> Job] /\ job'[j] = r
  OBVIOUS
<1>3. OneRuns'
  BY <1>1, <1>2, Alone DEF OneRuns
<1>4. \A i \in Jobs \ {j} : Knows(i)'
  BY <1>1 DEF Knows, Early, Paying, After
<1> QED
  BY <1>1, <1>2, <1>3, <1>4 DEF JobsKnow

\* It ends.
LEMMA JobEnds ==
  ASSUME job \in [Jobs -> Job], OneRuns, NEW j \in Jobs, job[j].pc # "idle", Finish(j)
  PROVE  /\ job' \in [Jobs -> Job] /\ isRunning' \in BOOLEAN
         /\ \A i \in Jobs : job'[i].pc = "idle"
         /\ OneRuns' /\ JobsKnow'
<1>1. IdleJob \in Job /\ IdleJob.pc = "idle"
  BY EpochsNat DEF IdleJob, Job, Stages
<1>2. job' \in [Jobs -> Job] /\ isRunning' \in BOOLEAN
  BY <1>1 DEF Finish
<1>3. \A i \in Jobs : job'[i].pc = "idle"
  BY <1>1, Alone DEF Finish
<1> QED
  BY <1>2, <1>3 DEF OneRuns, JobsKnow, Knows, Early, Paying, After

\* No job was sending: what was sent is checked.
LEMMA CheckedWhenQuiet ==
  ASSUME SubmittedBefore, \A i \in Jobs : job[i].pc \notin Paying
  PROVE  lastCheckedEpoch > 0 => \A f \in submitted : f < lastCheckedEpoch
  BY DEF SubmittedBefore

LEMMA GotoMoves ==
  ASSUME job \in [Jobs -> Job], OneRuns, JobsKnow,
         NEW j \in Jobs, job[j].pc # "idle",
         NEW stage \in Stages \ {"idle"}, Goto(j, stage), UNCHANGED isRunning
  PROVE  /\ job' \in [Jobs -> Job]
         /\ job'[j].pc = stage
         /\ job'[j].current = job[j].current /\ job'[j].flag = job[j].flag
         /\ \A i \in Jobs \ {j} : job'[i] = job[i] /\ job'[i].pc = "idle"
         /\ OneRuns'
         /\ Knows(j)' => JobsKnow'
<1> DEFINE r == [job[j] EXCEPT !.pc = stage]
<1>1. r \in Job /\ r.pc = stage /\ r.current = job[j].current /\ r.flag = job[j].flag
  BY DEF Job
<1>2. job' = [job EXCEPT ![j] = r]
  BY DEF Goto
<1> HIDE DEF r
<1> QED
  BY <1>1, <1>2, JobMoves

\* Within distributeEpochRewards and after it.
Working == Early \cup Paying \cup After

LEMMA WorkingStages == Working \subseteq Stages \ {"idle", "epoch"}
  BY DEF Working, Early, Paying, After, Stages

LEMMA ContinueStep ==
  ASSUME Control, NEW j \in Jobs, job[j].pc \in Working,
         NEW stage \in Working, Continue(j, stage),
         job[j].pc \in Paying => stage \in Paying,
         UNCHANGED <<isRunning, epoch, submitted, attempted, watched, outrun>>,
         Knows(j)'
  PROVE  Control'
<1>1. /\ job' \in [Jobs -> Job]
      /\ job'[j].pc = stage /\ job'[j].current = job[j].current
      /\ \A i \in Jobs \ {j} : job'[i] = job[i]
      /\ OneRuns' /\ JobsKnow'
  BY GotoMoves, WorkingStages DEF Control, Continue
<1>2. SubmittedBefore'
  BY <1>1 DEF Control, SubmittedBefore, Continue
<1>3. OnlyLastWaits'
  BY SameEpochs DEF Control, Continue
<1> QED
  BY <1>1, <1>2, <1>3 DEF Control, Continue

\* The epoch counts as checked.
LEMMA ConcludeStep ==
  ASSUME Control, Data, NEW j \in Jobs, job[j].pc \in Early \cup Paying, Conclude(j),
         UNCHANGED <<isRunning, epoch, submitted, attempted, watched, outrun>>
  PROVE  Control'
<1>1. /\ job[j].current \in 1..epoch /\ lastCheckedEpoch < job[j].current
      /\ lastCheckedEpoch \in Nat /\ lastCheckedEpoch > 0 /\ epoch \in Nat
      /\ job[j].current - 1 \in attempted
  BY EpochsNat DEF Control, Data, JobsKnow, Knows
<1>2. /\ lastCheckedEpoch' = job[j].current
      /\ job' \in [Jobs -> Job]
      /\ job'[j].pc = "readPrevious" /\ job'[j].current = job[j].current
      /\ \A i \in Jobs \ {j} : job[i].pc = "idle"
      /\ OneRuns' /\ (Knows(j)' => JobsKnow')
  BY GotoMoves, Alone DEF Control, Conclude, Stages, Early, Paying
<1>3. JobsKnow'
  BY <1>1, <1>2 DEF Knows, Early, Paying, After
<1>4. SubmittedBefore'
  <2> SUFFICES ASSUME NEW f \in submitted
               PROVE  f < epoch /\ f < job[j].current
    BY <1>2 DEF SubmittedBefore
  <2>1. f \in Nat /\ f < epoch
    BY EpochsNat DEF Control, Data, SubmittedBefore
  <2>2. f < lastCheckedEpoch \/ f < job[j].current
    BY <1>1, <1>2 DEF Control, SubmittedBefore, Paying
  <2> QED
    BY <2>1, <2>2, <1>1
<1>5. OnlyLastWaits'
  <2>1. \A e \in watched : e \in Nat
    BY EpochsNat DEF Data
  <2>2. \A e \in watched \ (attempted \cup outrun) : e # job[j].current - 1
    BY <1>1
  <2> QED
    BY <1>1, <1>2, <2>1, <2>2 DEF Control, OnlyLastWaits
<1> QED
  BY <1>1, <1>2, <1>3, <1>4, <1>5 DEF Control

-----------------------------------------------------------------------------
LEMMA InvInit == Init => DistInv
<1> SUFFICES ASSUME Init PROVE DistInv
  OBVIOUS
<1>1. IdleJob \in Job /\ IdleJob.pc = "idle" /\ 0 \in Epochs
  BY EpochsNat DEF IdleJob, Job, Stages
<1>2. job \in [Jobs -> Job] /\ \A j \in Jobs : job[j].pc = "idle"
  BY <1>1 DEF Init
<1>3. OneRuns /\ JobsKnow
  BY <1>2 DEF OneRuns, JobsKnow, Knows, Early, Paying, After
<1>4. Control
  <2>1. lastCheckedEpoch \in 0..epoch
    BY DEF Init
  <2>2. isRunning \in BOOLEAN
    BY DEF Init
  <2>3. SubmittedBefore /\ OnlyLastWaits
    BY DEF Init, SubmittedBefore, OnlyLastWaits
  <2> QED
    BY <1>2, <1>3, <2>1, <2>2, <2>3 DEF Control
<1>5. Data
  BY <1>1, BoundsAssumption DEF Init, Data
<1>6. SyncedBeforeDistributed /\ RowsTruthful
  BY DEF Init, SyncedBeforeDistributed, RowsTruthful, Pending
<1> QED
  BY <1>4, <1>5, <1>6 DEF DistInv

\* The chain.
LEMMA AdvanceEpochStep == ASSUME DistInv, AdvanceEpoch PROVE DistInv'
<1>1. Data'
  BY BoundsAssumption DEF DistInv, Data, AdvanceEpoch, Epochs, service, tables
<1>2. SyncedBeforeDistributed' /\ RowsTruthful'
  BY SameTransactions, SameRows DEF DistInv, AdvanceEpoch, tables
<1>3. JobsKnow'
  <2> SUFFICES ASSUME NEW j \in Jobs PROVE Knows(j)'
    BY DEF JobsKnow
  <2>1. Knows(j) /\ epoch \in Nat /\ job[j].current \in Nat
    BY EpochsNat DEF DistInv, Control, Data, JobsKnow, Job
  <2> QED
    BY <2>1 DEF Knows, AdvanceEpoch, service, Pending
<1>4. SubmittedBefore'
  <2>1. epoch \in Nat /\ submitted \subseteq Nat
    BY EpochsNat DEF DistInv, Data
  <2> QED
    BY <2>1 DEF DistInv, Control, SubmittedBefore, AdvanceEpoch, service
<1>5. OnlyLastWaits'
  <2>1. epoch \in Nat /\ watched \subseteq Nat /\ lastCheckedEpoch \in 0..epoch
    BY EpochsNat DEF DistInv, Control, Data
  <2>2. UNCHANGED <<lastCheckedEpoch, attempted>> /\ epoch' = epoch + 1
    BY DEF AdvanceEpoch, service
  <2>3. \A e \in watched' : e < epoch'
    BY <2>1, <2>2 DEF DistInv, Control, OnlyLastWaits, AdvanceEpoch
  <2>4. \A e \in watched' \ (attempted' \cup outrun') :
           lastCheckedEpoch > 0 /\ lastCheckedEpoch <= e /\ e = epoch
    <3> SUFFICES ASSUME NEW e \in watched' \ (attempted' \cup outrun')
                 PROVE  lastCheckedEpoch > 0 /\ lastCheckedEpoch <= e /\ e = epoch
      OBVIOUS
    <3>1. CASE e \in watched
      <4>1. e \notin attempted \cup outrun
        BY <2>2 DEF AdvanceEpoch
      <4>2. lastCheckedEpoch <= e /\ e = epoch - 1
        BY <3>1, <4>1 DEF DistInv, Control, OnlyLastWaits
      <4>3. e \in outrun'
        BY <3>1, <4>2, <2>1 DEF AdvanceEpoch
      <4> QED
        BY <4>3
    <3>2. CASE e \notin watched
      BY <3>2, <2>1 DEF AdvanceEpoch
    <3> QED
      BY <3>1, <3>2
  <2> QED
    BY <2>1, <2>2, <2>3, <2>4 DEF OnlyLastWaits
<1>6. Control'
  <2>1. epoch \in Nat
    BY EpochsNat DEF DistInv, Data
  <2> QED
    BY <1>3, <1>4, <1>5, <2>1 DEF DistInv, Control, OneRuns, AdvanceEpoch, service
<1> QED
  BY <1>1, <1>2, <1>6 DEF DistInv

\* What the chain decides alone: more is synced and distributed.
LEMMA ChainStep ==
  ASSUME Control, synced \subseteq synced', distributed \subseteq distributed',
         \A e \in Epochs : Pending(SyncTx(e)) => Pending(SyncTx(e))' \/ e \in synced',
         Data, UNCHANGED <<service, epoch, submitted, attempted, watched, outrun>>
  PROVE  Control'
<1>1. JobsKnow'
  <2> SUFFICES ASSUME NEW j \in Jobs PROVE Knows(j)'
    BY DEF JobsKnow
  <2>1. Knows(j)
    BY DEF Control, JobsKnow
  <2>2. job[j].pc = "syncWait" => job[j].current - 1 \in Epochs
    BY <2>1, Earlier DEF Knows, Early, Data
  <2> QED
    BY <2>1, <2>2 DEF Knows, service
<1>2. SubmittedBefore' /\ OnlyLastWaits' /\ OneRuns'
  BY DEF Control, SubmittedBefore, OnlyLastWaits, OneRuns, service
<1> QED
  BY <1>1, <1>2 DEF Control, service

LEMMA MineStep == ASSUME DistInv, Mine PROVE DistInv'
<1>1. /\ mempool \in Seq(Tx) /\ mempool # <<>> /\ mempool' = Tail(mempool)
      /\ UNCHANGED <<service, epoch, tables, submitted, attempted, watched, outrun>>
  BY DEF DistInv, Data, Mine
<1>2. /\ mempool' \in Seq(Tx) /\ Head(mempool).epoch \in Epochs
      /\ Head(mempool).call \in {"syncRewards", "distributeRewards"}
  BY <1>1, PendingTail DEF Tx
<1>3. /\ synced \subseteq synced' /\ synced' \subseteq Epochs
      /\ distributed \subseteq distributed' /\ distributed' \subseteq Epochs
      /\ faults' \in [FaultKinds -> Nat]
      /\ \A e \in Epochs : Head(mempool) = SyncTx(e) => e \in synced'
  BY <1>2, SufferType DEF DistInv, Data, Mine, SyncTx, FaultKinds
<1>4. Data'
  BY <1>1, <1>2, <1>3 DEF DistInv, Data, tables
<1>5. \A e \in Epochs : Pending(SyncTx(e)) => Pending(SyncTx(e))' \/ e \in synced'
  BY <1>1, <1>3, PendingTail
<1>6. Control'
  BY <1>1, <1>3, <1>5, ChainStep DEF DistInv
<1>7. SyncedBeforeDistributed'
  BY <1>1, <1>3, PendingTail DEF DistInv, SyncedBeforeDistributed
<1>8. RowsTruthful'
  BY <1>1, <1>3, SameRows DEF DistInv, tables
<1> QED
  BY <1>4, <1>6, <1>7, <1>8 DEF DistInv

LEMMA RivalStep == ASSUME DistInv, RivalDistributes PROVE DistInv'
<1>1. /\ distributed \subseteq distributed' /\ distributed' \subseteq Epochs
      /\ faults' \in [FaultKinds -> Nat]
      /\ UNCHANGED <<service, epoch, mempool, tables, history>>
  <2>1. \A e \in 1..epoch : e \in Epochs
    BY Earlier DEF DistInv, Data
  <2> QED
    BY <2>1, SufferType DEF DistInv, Data, RivalDistributes, FaultKinds
<1>2. Data'
  BY <1>1 DEF DistInv, Data, tables, history
<1>3. Control'
  BY <1>1, ChainStep DEF DistInv, history, Pending
<1> QED
  BY <1>1, <1>2, <1>3, SameTransactions, SameRows DEF DistInv, tables, history

\* The process dies and forgets what it knew.
LEMMA RestartStep == ASSUME DistInv, Restart PROVE DistInv'
<1>1. /\ job' \in [Jobs -> Job] /\ \A j \in Jobs : job'[j].pc = "idle"
      /\ faults' \in [FaultKinds -> Nat]
  <2>1. IdleJob \in Job /\ IdleJob.pc = "idle"
    BY EpochsNat DEF IdleJob, Job, Stages
  <2> QED
    BY <2>1, SufferType DEF DistInv, Data, Restart, FaultKinds
<1>2. Data'
  BY <1>1 DEF DistInv, Data, Restart, contract, tables
<1>3. OneRuns' /\ JobsKnow'
  BY <1>1 DEF OneRuns, JobsKnow, Knows, Early, Paying, After
<1>4. SubmittedBefore' /\ OnlyLastWaits'
  BY DEF DistInv, Control, SubmittedBefore, OnlyLastWaits, Restart, contract
<1>5. Control'
  <2>1. epoch \in Nat
    BY EpochsNat DEF DistInv, Data
  <2>2. lastCheckedEpoch' \in 0..epoch'
    BY <2>1 DEF Restart, contract
  <2>3. isRunning' \in BOOLEAN
    BY DEF Restart
  <2> QED
    BY <2>2, <2>3, <1>1, <1>3, <1>4 DEF Control
<1>6. SyncedBeforeDistributed' /\ RowsTruthful'
  BY SameTransactions, SameRows DEF DistInv, Restart, contract, tables
<1> QED
  BY <1>2, <1>5, <1>6 DEF DistInv

-----------------------------------------------------------------------------
\* checkAndDistributeRewards.
LEMMA TickStep == ASSUME DistInv, NEW j \in Jobs, Tick(j) PROVE DistInv'
<1>1. /\ ~isRunning /\ job[j].pc = "idle"
      /\ job' = [job EXCEPT ![j].pc = "epoch"]
      /\ UNCHANGED <<lastCheckedEpoch, contract, tables, history, faults>>
  BY DEF Tick, MayStart, Goto
<1>2. \A i \in Jobs : job[i].pc = "idle"
  BY <1>1 DEF DistInv, Control, OneRuns
<1>3. /\ job' \in [Jobs -> Job] /\ job'[j].pc = "epoch"
      /\ \A i \in Jobs \ {j} : job'[i].pc = "idle"
  BY <1>1, <1>2 DEF DistInv, Control, Job, Stages
<1>4. OneRuns'
  <2>1. isRunning' = TRUE
    BY DEF Tick
  <2> QED
    BY <1>3, <2>1 DEF OneRuns
<1>5. JobsKnow'
  BY <1>3 DEF JobsKnow, Knows, Early, Paying, After
<1>6. SubmittedBefore' /\ OnlyLastWaits'
  BY <1>1, <1>2 DEF DistInv, Control, SubmittedBefore, OnlyLastWaits, Paying,
                    contract, history
<1>7. Control'
  <2>1. isRunning' \in BOOLEAN
    BY DEF Tick
  <2>2. lastCheckedEpoch' \in 0..epoch'
    BY <1>1 DEF DistInv, Control, contract
  <2> QED
    BY <1>3, <1>4, <1>5, <1>6, <2>1, <2>2 DEF Control
<1>8. Data' /\ SyncedBeforeDistributed' /\ RowsTruthful'
  BY <1>1, SameTransactions, SameRows DEF DistInv, Data, contract, tables, history
<1> QED
  BY <1>7, <1>8 DEF DistInv

\* A job that ends leaves its successors what they need.
LEMMA FinishStep ==
  ASSUME Control, NEW j \in Jobs, job[j].pc \notin Paying \cup {"idle"}, Finish(j),
         UNCHANGED <<lastCheckedEpoch, epoch, submitted, attempted, watched, outrun>>
  PROVE  Control'
<1>1. /\ job' \in [Jobs -> Job] /\ isRunning' \in BOOLEAN
      /\ \A i \in Jobs : job'[i].pc = "idle"
      /\ OneRuns' /\ JobsKnow'
  BY JobEnds DEF Control
<1>2. \A i \in Jobs : job[i].pc \notin Paying
  BY Alone DEF Control, Paying
<1>3. SubmittedBefore' /\ OnlyLastWaits'
  BY <1>2, SameEpochs DEF Control, SubmittedBefore
<1> QED
  BY <1>1, <1>3 DEF Control

LEMMA ReadEpochStep == ASSUME DistInv, NEW j \in Jobs, ReadEpoch(j) PROVE DistInv'
<1>1. job[j].pc = "epoch"
  BY DEF ReadEpoch
<1>2. /\ epoch \in Nat /\ epoch \in Epochs /\ lastCheckedEpoch \in 0..epoch
      /\ submitted \subseteq Nat /\ watched \subseteq Nat
  BY EpochsNat DEF DistInv, Control, Data
<1>3. /\ \A i \in Jobs : job[i].pc \notin Paying
      /\ lastCheckedEpoch > 0 => \A f \in submitted : f < lastCheckedEpoch
  BY <1>1, Alone, CheckedWhenQuiet DEF DistInv, Control, Paying
<1>4. /\ UNCHANGED <<contract, tables, synced, submitted, watched, outrun, faults>>
      /\ attempted \subseteq attempted' /\ attempted' \subseteq Epochs
  <2>1. EpochPassed => epoch - 1 \in Epochs
    BY <1>2, Earlier DEF EpochPassed
  <2> QED
    BY <2>1 DEF ReadEpoch, DistInv, Data
<1>5. Data' /\ SyncedBeforeDistributed' /\ RowsTruthful'
  BY <1>4, SameTransactions, SameRows DEF DistInv, Data, contract, tables
<1>6. CASE EpochPassed
  <2> DEFINE r == [pc |-> "distributed", current |-> epoch, flag |-> FALSE]
  <2>1. /\ job' = [job EXCEPT ![j] = r] /\ UNCHANGED <<lastCheckedEpoch, isRunning>>
        /\ epoch - 1 \in attempted'
    BY <1>6 DEF ReadEpoch
  <2>2. r \in Job /\ r.pc = "distributed" /\ r.current = epoch
    BY <1>2 DEF Job, Stages
  <2> HIDE DEF r
  <2>3. /\ job' \in [Jobs -> Job] /\ job'[j] = r
        /\ OneRuns' /\ (Knows(j)' => JobsKnow')
    BY <1>1, <2>1, <2>2, JobMoves DEF DistInv, Control
  <2>4. Knows(j)'
    BY <1>2, <1>4, <1>6, <2>1, <2>2, <2>3
       DEF Knows, EpochPassed, contract, Early, Paying, After
  <2>5. SubmittedBefore'
    BY <1>3, <1>4, <2>1 DEF DistInv, Control, SubmittedBefore, contract
  <2>6. OnlyLastWaits'
    BY <1>4, <2>1, SameEpochs DEF DistInv, Control, contract
  <2> QED
    BY <1>4, <1>5, <2>1, <2>3, <2>4, <2>5, <2>6 DEF DistInv, Control, contract
<1>7. CASE ~EpochPassed
  <2>1. /\ lastCheckedEpoch' = IF lastCheckedEpoch = 0 THEN epoch ELSE lastCheckedEpoch
        /\ Finish(j) /\ UNCHANGED attempted
    BY <1>7 DEF ReadEpoch
  <2>2. /\ job' \in [Jobs -> Job] /\ isRunning' \in BOOLEAN /\ OneRuns' /\ JobsKnow'
    BY <1>1, <2>1, JobEnds DEF DistInv, Control
  <2>3. \A f \in submitted : f < epoch
    BY DEF DistInv, Control, SubmittedBefore
  <2>4. SubmittedBefore'
    BY <1>2, <1>3, <1>4, <2>1, <2>3 DEF SubmittedBefore, contract
  <2>5. OnlyLastWaits'
    BY <1>2, <1>4, <2>1 DEF DistInv, Control, OnlyLastWaits, contract
  <2>6. lastCheckedEpoch' \in 0..epoch'
    BY <1>2, <1>4, <2>1 DEF contract
  <2> QED
    BY <1>5, <2>2, <2>4, <2>5, <2>6 DEF DistInv, Control
<1> QED
  BY <1>6, <1>7

LEMMA ReadEpochFailsStep == ASSUME DistInv, NEW j \in Jobs, ReadEpochFails(j) PROVE DistInv'
<1>1. job[j].pc = "epoch" /\ Finish(j) /\ faults' \in [FaultKinds -> Nat]
  BY SufferType DEF DistInv, Data, ReadEpochFails, FaultKinds
<1>2. UNCHANGED <<lastCheckedEpoch, contract, tables, history>>
  BY DEF ReadEpochFails
<1>3. Control'
  BY <1>1, <1>2, FinishStep DEF DistInv, Paying, contract, history
<1>4. Data' /\ SyncedBeforeDistributed' /\ RowsTruthful'
  BY <1>1, <1>2, SameTransactions, SameRows DEF DistInv, Data, contract, tables, history
<1> QED
  BY <1>3, <1>4 DEF DistInv

-----------------------------------------------------------------------------
\* distributeEpochRewards: the steps that only move the job.
LEMMA DataStays ==
  ASSUME DistInv, UNCHANGED <<contract, tables, history>>, faults' \in [FaultKinds -> Nat]
  PROVE  Data' /\ SyncedBeforeDistributed' /\ RowsTruthful'
  BY SameTransactions, SameRows DEF DistInv, Data, contract, tables, history

\* What the job knew, seen from the stage after.
LEMMA StillKnows ==
  ASSUME NEW j \in Jobs, Knows(j), job[j].pc \in Early \cup Paying,
         job'[j].current = job[j].current, job'[j].pc \in Early \cup Paying,
         UNCHANGED <<lastCheckedEpoch, epoch, attempted>>,
         job'[j].pc = "syncWait" =>
            Pending(SyncTx(job[j].current - 1))' \/ job[j].current - 1 \in synced',
         job'[j].pc = "distribute" => job[j].current - 1 \in synced'
  PROVE  Knows(j)'
  BY DEF Knows, Early, Paying, After

LEMMA ReadDistributedStep ==
  ASSUME DistInv, NEW j \in Jobs, ReadDistributed(j) PROVE DistInv'
<1>1. /\ job[j].pc = "distributed" /\ faults' \in [FaultKinds -> Nat]
      /\ UNCHANGED <<isRunning, contract, tables, history>>
  BY SufferType DEF DistInv, Data, ReadDistributed, FaultKinds
<1>2. Data' /\ SyncedBeforeDistributed' /\ RowsTruthful'
  BY <1>1, DataStays
<1>3. ASSUME NEW stage \in {"archive", "sync"}, Continue(j, stage) PROVE Control'
  <2>1. job'[j].pc = stage /\ job'[j].current = job[j].current
    BY <1>1, <1>3, GotoMoves DEF DistInv, Control, Continue, Stages
  <2>2. Knows(j)'
    BY <1>1, <1>3, <2>1, StillKnows
       DEF DistInv, Control, JobsKnow, Continue, Early, Paying, contract, history
  <2> QED
    BY <1>1, <1>3, <2>2, ContinueStep
       DEF DistInv, Working, Early, Paying, contract, history
<1>4. ASSUME Conclude(j) PROVE Control'
  BY <1>1, <1>4, ConcludeStep DEF DistInv, Early, contract, history
<1>5. Control'
  BY <1>3, <1>4 DEF ReadDistributed
<1> QED
  BY <1>2, <1>5 DEF DistInv

LEMMA SubmitSyncStep == ASSUME DistInv, NEW j \in Jobs, SubmitSync(j) PROVE DistInv'
<1>1. /\ job[j].pc = "sync" /\ faults' \in [FaultKinds -> Nat]
      /\ UNCHANGED <<isRunning, epoch, distributed, tables, history>>
  BY SufferType DEF DistInv, Data, SubmitSync, FaultKinds
<1>2. previousEpoch(j) = job[j].current - 1 /\ previousEpoch(j) \in Epochs
  BY <1>1, Earlier DEF DistInv, Control, Data, JobsKnow, Knows, Early, previousEpoch
<1>3. CASE mempool' = Append(mempool, SyncTx(previousEpoch(j))) /\ Continue(j, "syncWait")
  <2>1. /\ mempool' \in Seq(Tx)
        /\ \A tx : Pending(tx)' <=> Pending(tx) \/ tx = SyncTx(previousEpoch(j))
    BY <1>2, <1>3, Transactions, PendingAppend DEF DistInv, Data
  <2>2. job'[j].pc = "syncWait" /\ job'[j].current = job[j].current
    BY <1>1, <1>3, GotoMoves DEF DistInv, Control, Continue, Stages
  <2>3. Knows(j)'
    BY <1>1, <1>2, <1>3, <2>1, <2>2, StillKnows
       DEF DistInv, Control, JobsKnow, Continue, Early, history
  <2>4. Control'
    BY <1>1, <1>3, <2>3, ContinueStep DEF DistInv, Working, Early, Paying, history
  <2>5. SyncedBeforeDistributed'
    <3>1. \A e \in Epochs : PayTx(e) # SyncTx(previousEpoch(j))
      BY DEF PayTx, SyncTx
    <3> QED
      BY <1>1, <2>1, <3>1 DEF DistInv, SyncedBeforeDistributed, history
  <2>6. Data' /\ RowsTruthful'
    BY <1>1, <2>1, SameRows DEF DistInv, Data, tables, history
  <2> QED
    BY <2>4, <2>5, <2>6 DEF DistInv
<1>4. CASE Conclude(j) /\ UNCHANGED mempool
  <2>1. Control'
    BY <1>1, <1>4, ConcludeStep DEF DistInv, Early, history
  <2> QED
    BY <1>1, <1>4, <2>1, DataStays DEF DistInv, contract
<1> QED
  BY <1>3, <1>4 DEF SubmitSync

\* Without a pending transaction the receipt of syncRewards is there.
LEMMA AwaitSyncStep == ASSUME DistInv, NEW j \in Jobs, AwaitSync(j) PROVE DistInv'
<1>1. /\ job[j].pc = "syncWait" /\ faults' \in [FaultKinds -> Nat]
      /\ UNCHANGED <<isRunning, contract, tables, history>>
  BY SufferType DEF DistInv, Data, AwaitSync, FaultKinds
<1>2. Data' /\ SyncedBeforeDistributed' /\ RowsTruthful'
  BY <1>1, DataStays
<1>3. ASSUME Receipt(SyncTx(previousEpoch(j))), Continue(j, "distribute") PROVE Control'
  <2>1. job'[j].pc = "distribute" /\ job'[j].current = job[j].current
    BY <1>1, <1>3, GotoMoves DEF DistInv, Control, Continue, Stages
  <2>2. Knows(j) /\ job[j].current - 1 \in synced
    BY <1>1, <1>3 DEF DistInv, Control, JobsKnow, Knows, Receipt, previousEpoch
  <2>3. Knows(j)'
    BY <1>1, <1>3, <2>1, <2>2, StillKnows DEF Continue, Early, contract, history
  <2> QED
    BY <1>1, <1>3, <2>3, ContinueStep
       DEF DistInv, Working, Early, Paying, contract, history
<1>4. ASSUME Conclude(j) PROVE Control'
  BY <1>1, <1>4, ConcludeStep DEF DistInv, Early, contract, history
<1>5. Control'
  BY <1>3, <1>4 DEF AwaitSync
<1> QED
  BY <1>2, <1>5 DEF DistInv

\* What is sent for distribution is later than all that was sent before, and synced.
LEMMA Sends ==
  ASSUME DistInv, NEW j \in Jobs, job[j].pc = "distribute"
  PROVE  /\ previousEpoch(j) \in Epochs /\ previousEpoch(j) \in Nat
         /\ previousEpoch(j) = job[j].current - 1 /\ job[j].current \in Nat
         /\ previousEpoch(j) < epoch /\ epoch \in Nat
         /\ previousEpoch(j) \in synced
         /\ \A f \in submitted : f < previousEpoch(j)
<1>1. /\ Knows(j) /\ epoch \in Epochs /\ epoch \in Nat /\ lastCheckedEpoch \in Nat
      /\ submitted \subseteq Nat
  BY EpochsNat DEF DistInv, Control, Data, JobsKnow
<1>2. /\ job[j].current \in 1..epoch /\ lastCheckedEpoch > 0
      /\ lastCheckedEpoch < job[j].current /\ job[j].current - 1 \in synced
  BY <1>1 DEF Knows, Early
<1>3. \A f \in submitted : f < lastCheckedEpoch
  BY <1>2, Alone, CheckedWhenQuiet DEF DistInv, Control, Paying
<1> QED
  BY <1>1, <1>2, <1>3, Earlier DEF previousEpoch

LEMMA SubmitDistributeStep ==
  ASSUME DistInv, NEW j \in Jobs, SubmitDistribute(j) PROVE DistInv'
<1> DEFINE e == previousEpoch(j)
<1>1. /\ job[j].pc = "distribute" /\ faults' \in [FaultKinds -> Nat]
      /\ UNCHANGED <<isRunning, epoch, distributed, tables, synced, attempted, watched, outrun>>
  BY SufferType DEF DistInv, Data, SubmitDistribute, FaultKinds
<1>2. /\ e \in Epochs /\ e \in Nat /\ e = job[j].current - 1 /\ job[j].current \in Nat
      /\ e < epoch /\ e \in synced
  BY <1>1, Sends
<1> HIDE DEF e
<1>3. CASE /\ mempool' = Append(mempool, PayTx(e))
           /\ submitted' = submitted \cup {e}
           /\ Continue(j, "wait")
  <2>1. /\ mempool' \in Seq(Tx)
        /\ \A tx : Pending(tx)' <=> Pending(tx) \/ tx = PayTx(e)
    BY <1>2, <1>3, Transactions, PendingAppend DEF DistInv, Data
  <2>2. /\ job' \in [Jobs -> Job]
        /\ job'[j].pc = "wait" /\ job'[j].current = job[j].current
        /\ \A i \in Jobs \ {j} : job'[i] = job[i] /\ job'[i].pc = "idle"
        /\ OneRuns' /\ (Knows(j)' => JobsKnow')
    BY <1>1, <1>3, GotoMoves DEF DistInv, Control, Continue, Stages
  <2>3. JobsKnow'
    BY <1>1, <1>3, <2>2, StillKnows
       DEF DistInv, Control, JobsKnow, Continue, Early, Paying
  <2>4. SubmittedBefore'
    BY <1>1, <1>2, <1>3, <2>2
       DEF DistInv, Control, SubmittedBefore, Continue, Paying
  <2>5. OnlyLastWaits'
    BY <1>1, <1>3, SameEpochs DEF DistInv, Control, Continue
  <2>6. Control'
    BY <1>1, <1>3, <2>2, <2>3, <2>4, <2>5 DEF DistInv, Control, Continue
  <2>7. SyncedBeforeDistributed'
    <3>1. \A f \in Epochs : PayTx(f) = PayTx(e) => f = e
      BY DEF PayTx
    <3> QED
      BY <1>1, <1>2, <2>1, <3>1 DEF DistInv, SyncedBeforeDistributed
  <2>8. Data' /\ RowsTruthful'
    BY <1>1, <1>2, <1>3, <2>1, SameRows DEF DistInv, Data, tables
  <2> QED
    BY <2>6, <2>7, <2>8 DEF DistInv
<1>4. CASE Conclude(j) /\ UNCHANGED <<mempool, submitted>>
  <2>1. Control'
    BY <1>1, <1>4, ConcludeStep DEF DistInv, Early
  <2> QED
    BY <1>1, <1>4, <2>1, DataStays DEF DistInv, contract, history
<1> QED
  BY <1>3, <1>4 DEF SubmitDistribute, e

LEMMA AwaitDistributeStep ==
  ASSUME DistInv, NEW j \in Jobs, AwaitDistribute(j) PROVE DistInv'
<1>1. /\ job[j].pc = "wait" /\ faults' \in [FaultKinds -> Nat]
      /\ UNCHANGED <<isRunning, contract, tables, history>>
  BY SufferType DEF DistInv, Data, AwaitDistribute, FaultKinds
<1>2. Data' /\ SyncedBeforeDistributed' /\ RowsTruthful'
  BY <1>1, DataStays
<1>3. ASSUME Continue(j, "archive") PROVE Control'
  <2>1. job'[j].pc = "archive" /\ job'[j].current = job[j].current
    BY <1>1, <1>3, GotoMoves DEF DistInv, Control, Continue, Stages
  <2>2. Knows(j)'
    BY <1>1, <1>3, <2>1, StillKnows
       DEF DistInv, Control, JobsKnow, Continue, Paying, contract, history
  <2> QED
    BY <1>1, <1>3, <2>2, ContinueStep DEF DistInv, Working, Paying, contract, history
<1>4. ASSUME Conclude(j) PROVE Control'
  BY <1>1, <1>4, ConcludeStep DEF DistInv, Paying, contract, history
<1>5. Control'
  BY <1>3, <1>4 DEF AwaitDistribute
<1> QED
  BY <1>2, <1>5 DEF DistInv

LEMMA SyncEpochContributionsStep ==
  ASSUME DistInv, NEW j \in Jobs, SyncEpochContributions(j) PROVE DistInv'
<1>1. /\ job[j].pc = "archive" /\ Conclude(j) /\ faults' \in [FaultKinds -> Nat]
      /\ UNCHANGED <<isRunning, contract, epochRow, history>>
  BY SufferType DEF DistInv, Data, SyncEpochContributions, FaultKinds
<1>2. Control'
  BY <1>1, ConcludeStep DEF DistInv, Paying, contract, history
<1>3. archived' \subseteq Epochs
  <2>1. previousEpoch(j) \in Epochs
    BY <1>1, Earlier
       DEF DistInv, Control, Data, JobsKnow, Knows, Paying, previousEpoch
  <2> QED
    BY <2>1 DEF DistInv, Data, SyncEpochContributions
<1>4. Data' /\ SyncedBeforeDistributed' /\ RowsTruthful'
  BY <1>1, <1>3, SameTransactions, SameRows DEF DistInv, Data, contract, history
<1> QED
  BY <1>2, <1>4 DEF DistInv

-----------------------------------------------------------------------------
\* The copies: what is read is true, and stays so until it is saved.
LEMMA ReadForRowStep ==
  ASSUME DistInv, NEW j \in Jobs, NEW stage \in After, NEW next \in After, NEW e,
         ReadForRow(j, stage, e, next),
         next = "savePrevious" => e = job[j].current - 1,
         next = "saveCurrent" => e = job[j].current
  PROVE  DistInv'
<1> DEFINE r == [pc |-> next, current |-> job[j].current, flag |-> Sees(j, e)]
<1>1. /\ job[j].pc = stage /\ job' = [job EXCEPT ![j] = r]
      /\ UNCHANGED <<lastCheckedEpoch, isRunning, contract, tables, history, faults>>
  BY DEF ReadForRow
<1>2. r \in Job /\ r.pc = next /\ r.current = job[j].current /\ r.flag = (e \in distributed)
  BY DEF DistInv, Control, Job, After, Stages, Sees
<1> HIDE DEF r
<1>3. /\ job' \in [Jobs -> Job] /\ job'[j] = r
      /\ \A i \in Jobs \ {j} : job'[i] = job[i]
      /\ OneRuns' /\ (Knows(j)' => JobsKnow')
  BY <1>1, <1>2, JobMoves DEF DistInv, Control, After
<1>4. Knows(j)'
  BY <1>1, <1>2, <1>3
     DEF DistInv, Control, JobsKnow, Knows, Early, Paying, After, contract, history
<1>5. SubmittedBefore' /\ OnlyLastWaits'
  BY <1>1, <1>3, SameEpochs
     DEF DistInv, Control, SubmittedBefore, Paying, After, contract, history
<1>6. Control'
  BY <1>1, <1>3, <1>4, <1>5 DEF DistInv, Control, contract
<1>7. faults' \in [FaultKinds -> Nat]
  BY <1>1 DEF DistInv, Data
<1> QED
  BY <1>1, <1>6, <1>7, DataStays DEF DistInv

LEMMA ReadPreviousStep == ASSUME DistInv, NEW j \in Jobs, ReadPrevious(j) PROVE DistInv'
  BY ReadForRowStep DEF ReadPrevious, previousEpoch, After

LEMMA ReadCurrentStep == ASSUME DistInv, NEW j \in Jobs, ReadCurrent(j) PROVE DistInv'
  BY ReadForRowStep DEF ReadCurrent, After

LEMMA SaveRowStep ==
  ASSUME Data, RowsTruthful, NEW j \in Jobs, NEW e \in Epochs, SaveRow(j, e),
         job[j].flag \in BOOLEAN, job[j].flag => e \in distributed, UNCHANGED distributed
  PROVE  /\ epochRow' \in [Epochs -> BOOLEAN] /\ faults' \in [FaultKinds -> Nat]
         /\ RowsTruthful'
<1>1. CASE epochRow' = [epochRow EXCEPT ![e] = job[j].flag] /\ UNCHANGED faults
  BY <1>1 DEF Data, RowsTruthful
<1>2. CASE Suffer("write") /\ UNCHANGED epochRow
  BY <1>2, SufferType, SameRows DEF Data, FaultKinds
<1> QED
  BY <1>1, <1>2 DEF SaveRow

LEMMA SavePreviousStep == ASSUME DistInv, NEW j \in Jobs, SavePrevious(j) PROVE DistInv'
<1>1. /\ job[j].pc = "savePrevious" /\ SaveRow(j, previousEpoch(j))
      /\ Continue(j, "readCurrent") /\ UNCHANGED <<isRunning, contract, archived, history>>
  BY DEF SavePrevious
<1>2. /\ Knows(j) /\ job[j].flag \in BOOLEAN
      /\ previousEpoch(j) \in Epochs /\ previousEpoch(j) = job[j].current - 1
  BY <1>1, Earlier
     DEF DistInv, Control, Data, JobsKnow, Knows, After, previousEpoch, Job
<1>3. job'[j].pc = "readCurrent" /\ job'[j].current = job[j].current
  BY <1>1, GotoMoves DEF DistInv, Control, Continue, Stages
<1>4. Knows(j)'
  BY <1>1, <1>2, <1>3 DEF Knows, Continue, Early, Paying, After, contract, history
<1>5. Control'
  BY <1>1, <1>4, ContinueStep DEF DistInv, Working, Paying, After, contract, history
<1>6. /\ epochRow' \in [Epochs -> BOOLEAN] /\ faults' \in [FaultKinds -> Nat]
      /\ RowsTruthful'
  BY <1>1, <1>2, SaveRowStep DEF DistInv, Knows, contract
<1>7. Data' /\ SyncedBeforeDistributed'
  BY <1>1, <1>6, SameTransactions DEF DistInv, Data, contract, history
<1> QED
  BY <1>5, <1>6, <1>7 DEF DistInv

LEMMA SaveCurrentStep == ASSUME DistInv, NEW j \in Jobs, SaveCurrent(j) PROVE DistInv'
<1>1. /\ job[j].pc = "saveCurrent" /\ SaveRow(j, job[j].current) /\ Finish(j)
      /\ UNCHANGED <<lastCheckedEpoch, contract, archived, history>>
  BY DEF SaveCurrent
<1>2. Knows(j) /\ job[j].flag \in BOOLEAN /\ job[j].current \in Epochs
  BY <1>1, Earlier DEF DistInv, Control, Data, JobsKnow, Knows, After, Job
<1>3. Control'
  BY <1>1, FinishStep DEF DistInv, Paying, contract, history
<1>4. /\ epochRow' \in [Epochs -> BOOLEAN] /\ faults' \in [FaultKinds -> Nat]
      /\ RowsTruthful'
  BY <1>1, <1>2, SaveRowStep DEF DistInv, Knows, contract
<1>5. Data' /\ SyncedBeforeDistributed'
  BY <1>1, <1>4, SameTransactions DEF DistInv, Data, contract, history
<1> QED
  BY <1>3, <1>4, <1>5 DEF DistInv

-----------------------------------------------------------------------------
LEMMA InvStep == DistInv /\ [Next]_vars => DistInv'
<1> SUFFICES ASSUME DistInv, [Next]_vars PROVE DistInv'
  OBVIOUS
<1>1. ASSUME NEW j \in Jobs, Work(j) PROVE DistInv'
  BY <1>1, ReadEpochStep, ReadDistributedStep, SubmitSyncStep, AwaitSyncStep,
     SubmitDistributeStep, AwaitDistributeStep, SyncEpochContributionsStep,
     ReadPreviousStep, SavePreviousStep, ReadCurrentStep, SaveCurrentStep DEF Work
<1>2. ASSUME NEW j \in Jobs, Tick(j) PROVE DistInv'
  BY <1>2, TickStep
<1>3. ASSUME NEW j \in Jobs, ReadEpochFails(j) PROVE DistInv'
  BY <1>3, ReadEpochFailsStep
<1>4. CASE AdvanceEpoch
  BY <1>4, AdvanceEpochStep
<1>5. CASE Mine
  BY <1>5, MineStep
<1>6. CASE RivalDistributes
  BY <1>6, RivalStep
<1>7. CASE Restart
  BY <1>7, RestartStep
<1>8. CASE UNCHANGED vars
  <2>1. UNCHANGED <<service, contract, tables, history, faults>>
    BY <1>8 DEF vars
  <2>2. faults' \in [FaultKinds -> Nat]
    BY <2>1 DEF DistInv, Data
  <2>3. Control'
    BY <2>1, ChainStep DEF DistInv, contract, history, Pending
  <2> QED
    BY <2>1, <2>2, <2>3, DataStays DEF DistInv
<1> QED
  BY <1>1, <1>2, <1>3, <1>4, <1>5, <1>6, <1>7, <1>8 DEF Next

LEMMA Invariance == Spec => []DistInv
<1>1. DistInv /\ [Next]_vars => DistInv'
  BY InvStep
<1> QED
  BY <1>1, InvInit, PTL DEF Spec

\* The types of the job, the contract and the tables.
THEOREM DistributorTypeCorrect == Spec => []TypeOK
  BY Invariance, InvHasTypes, PTL

\* distributeRewards never waits for its block before syncRewards of the same epoch has
\* had its own (distributeEpochRewards).
THEOREM SyncComesFirst == Spec => []SyncedBeforeDistributed
<1>1. DistInv => SyncedBeforeDistributed
  BY DEF DistInv
<1> QED
  BY <1>1, Invariance, PTL

\* syncEpoch never calls an epoch distributed that the contract does not.
THEOREM RowsTellTheTruth == Spec => []RowsTruthful
<1>1. DistInv => RowsTruthful
  BY DEF DistInv
<1> QED
  BY <1>1, Invariance, PTL

\* checkAndDistributeRewards passes over an epoch only if the next one ended first.
THEOREM OnlyOutrunPassedOver == Spec => []OnlyOutrunSkipped
  BY Invariance, InvOnlyOutrun, PTL

-----------------------------------------------------------------------------
\* Which transaction a step adds can be told from the list.
LEMMA Appended ==
  ASSUME mempool \in Seq(Tx), NEW x \in Tx, NEW y \in Tx
  PROVE  /\ Append(mempool, x) # mempool
         /\ mempool # <<>> => Append(mempool, x) # Tail(mempool)
         /\ Append(mempool, x) = Append(mempool, y) => x = y
<1>1. /\ Len(mempool) \in Nat
      /\ Len(Append(mempool, x)) = Len(mempool) + 1
      /\ mempool # <<>> => Len(Tail(mempool)) = Len(mempool) - 1
  OBVIOUS
<1>2. /\ Append(mempool, x)[Len(mempool) + 1] = x
      /\ Append(mempool, y)[Len(mempool) + 1] = y
  OBVIOUS
<1> QED
  BY <1>1, <1>2

LEMMA StepAscends ==
  ASSUME DistInv, Next, NEW e \in Epochs, mempool' = Append(mempool, PayTx(e))
  PROVE  e < epoch /\ \A f \in submitted : f < e
<1>1. mempool \in Seq(Tx) /\ PayTx(e) \in Tx
  BY Transactions DEF DistInv, Data
<1>2. mempool' # mempool /\ (mempool # <<>> => mempool' # Tail(mempool))
  BY <1>1, Appended
<1>3. ASSUME NEW j \in Jobs, SubmitDistribute(j)
      PROVE  e < epoch /\ \A f \in submitted : f < e
  <2>1. /\ job[j].pc = "distribute"
        /\ mempool' = Append(mempool, PayTx(previousEpoch(j)))
    BY <1>2, <1>3 DEF SubmitDistribute
  <2>2. PayTx(previousEpoch(j)) \in Tx
    BY <2>1, Sends, Transactions
  <2>3. PayTx(e) = PayTx(previousEpoch(j))
    BY <1>1, <2>1, <2>2, Appended
  <2>4. e = previousEpoch(j)
    BY <2>3 DEF PayTx
  <2> QED
    BY <2>1, <2>4, Sends
<1>4. ASSUME NEW j \in Jobs, SubmitSync(j) PROVE FALSE
  <2>1. /\ job[j].pc = "sync"
        /\ mempool' = Append(mempool, SyncTx(previousEpoch(j)))
    BY <1>2, <1>4 DEF SubmitSync
  <2>2. previousEpoch(j) \in Epochs
    BY <2>1, Earlier DEF DistInv, Control, Data, JobsKnow, Knows, Early, previousEpoch
  <2>3. SyncTx(previousEpoch(j)) \in Tx
    BY <2>2, Transactions
  <2>4. PayTx(e) = SyncTx(previousEpoch(j))
    BY <1>1, <2>1, <2>3, Appended
  <2> QED
    BY <2>4 DEF PayTx, SyncTx
<1>5. ASSUME NEW j \in Jobs, Work(j)
      PROVE  SubmitDistribute(j) \/ SubmitSync(j)
  BY <1>2, <1>5
     DEF Work, ReadEpoch, ReadDistributed, AwaitSync, AwaitDistribute,
         SyncEpochContributions, ReadPrevious, ReadCurrent, ReadForRow,
         SavePrevious, SaveCurrent, contract
<1>6. ~Mine
  BY <1>2 DEF Mine
<1>7. ~AdvanceEpoch /\ ~RivalDistributes /\ ~Restart
  BY <1>2 DEF AdvanceEpoch, RivalDistributes, Restart, contract
<1>8. \A j \in Jobs : ~Tick(j) /\ ~ReadEpochFails(j)
  BY <1>2 DEF Tick, ReadEpochFails, contract
<1> QED
  BY <1>3, <1>4, <1>5, <1>6, <1>7, <1>8 DEF Next

\* No epoch is ever sent for distribution twice, or before it is over
\* (lastCheckedEpoch and isRunning of checkAndDistributeRewards).
THEOREM NeverSentTwice == Spec => DistributionsAscend
<1>1. DistInv /\ [Next]_vars =>
        [\A e \in Epochs :
           mempool' = Append(mempool, PayTx(e)) =>
             e < epoch /\ \A f \in submitted : f < e]_vars
  BY StepAscends
<1> QED
  BY <1>1, Invariance, PTL DEF Spec, DistributionsAscend

-----------------------------------------------------------------------------
\* The flag is set only while an invocation is at work, which will clear it.
FlagIsHeld == isRunning => \E j \in Jobs : job[j].pc # "idle"

\* A job that goes on to another stage still holds the flag.
LEMMA GoesOnHeld ==
  ASSUME DistInv, NEW j \in Jobs, NEW stage \in Stages \ {"idle"}, Goto(j, stage)
  PROVE  FlagIsHeld'
<1>1. job'[j].pc = stage
  BY DEF DistInv, Control, Job, Goto
<1> QED
  BY <1>1 DEF FlagIsHeld

LEMMA FlagStep ==
  ASSUME DistInv, FlagIsHeld, Next
  PROVE  FlagIsHeld'
<1>1. CASE \E j \in Jobs : Tick(j)
  BY <1>1, GoesOnHeld DEF Tick, Stages
<1>2. ASSUME NEW j \in Jobs, Work(j) PROVE FlagIsHeld'
  <2>1. CASE ReadEpoch(j)
    <3>1. CASE EpochPassed
      <4>1. job'[j].pc = "distributed"
        BY <2>1, <3>1 DEF ReadEpoch, DistInv, Control
      <4> QED
        BY <4>1 DEF FlagIsHeld
    <3>2. CASE ~EpochPassed
      BY <2>1, <3>2 DEF ReadEpoch, Finish, FlagIsHeld
    <3> QED
      BY <3>1, <3>2
  <2>2. CASE ReadDistributed(j) \/ SubmitSync(j) \/ AwaitSync(j) \/ SubmitDistribute(j)
             \/ AwaitDistribute(j) \/ SyncEpochContributions(j) \/ SavePrevious(j)
    <3>1. PICK stage \in Stages \ {"idle"} : Goto(j, stage)
      BY <2>2 DEF ReadDistributed, SubmitSync, AwaitSync, SubmitDistribute, AwaitDistribute,
         SyncEpochContributions, SavePrevious, Continue, Conclude, Stages
    <3> QED
      BY <3>1, GoesOnHeld
  <2>3. CASE ReadPrevious(j) \/ ReadCurrent(j)
    <3>1. job'[j].pc \in {"savePrevious", "saveCurrent"}
      BY <2>3 DEF ReadPrevious, ReadCurrent, ReadForRow, DistInv, Control
    <3> QED
      BY <3>1 DEF FlagIsHeld
  <2>4. CASE SaveCurrent(j)
    BY <2>4 DEF SaveCurrent, Finish, FlagIsHeld
  <2> QED
    BY <1>2, <2>1, <2>2, <2>3, <2>4 DEF Work
<1>3. CASE \E j \in Jobs : ReadEpochFails(j)
  BY <1>3 DEF ReadEpochFails, Finish, FlagIsHeld
<1>4. CASE AdvanceEpoch \/ Mine \/ RivalDistributes
  BY <1>4 DEF AdvanceEpoch, Mine, RivalDistributes, service, FlagIsHeld
<1>5. CASE Restart
  BY <1>5 DEF Restart, FlagIsHeld
<1> QED
  BY <1>1, <1>2, <1>3, <1>4, <1>5 DEF Next

\* The job never locks itself out (checkAndDistributeRewards and its finally): whatever
\* call fails in whichever await, and however invocations overlap, isRunning is set only
\* while one of them is at work, and never while two are.
THEOREM FlagNeverStuck ==
  Spec => [](/\ isRunning <=> \E j \in Jobs : job[j].pc # "idle"
             /\ \A i, j \in Jobs : job[i].pc # "idle" /\ job[j].pc # "idle" => i = j)
<1>1. Init => FlagIsHeld
  BY DEF Init, FlagIsHeld
<1>2. DistInv /\ FlagIsHeld /\ [Next]_vars => FlagIsHeld'
  BY FlagStep DEF vars, service, FlagIsHeld
<1>3. DistInv /\ FlagIsHeld =>
        /\ isRunning <=> \E j \in Jobs : job[j].pc # "idle"
        /\ \A i, j \in Jobs : job[i].pc # "idle" /\ job[j].pc # "idle" => i = j
  BY DEF DistInv, Control, OneRuns, FlagIsHeld
<1> QED
  BY <1>1, <1>2, <1>3, Invariance, PTL DEF Spec

=============================================================================

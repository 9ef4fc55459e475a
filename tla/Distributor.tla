---------------------------- MODULE Distributor ----------------------------
(***************************************************************************)
(* The epoch distribution job, DistributorService, against the RewardPool  *)
(* contract and the epochs table.                                          *)
(*                                                                         *)
(* Once a minute the job compares the epoch of the chain with the one it   *)
(* saw last (kept in memory) and, when it is later, has the contract pay   *)
(* the epoch before it: two transactions, each waited for.  Then it copies *)
(* the contributions and the two epochs to the database.  Every await is a *)
(* step boundary; transactions are mined in the order they were sent.      *)
(***************************************************************************)
EXTENDS Integers, Sequences

CONSTANTS
  Jobs,         \* invocations of the interval that may exist at once
  MaxEpoch,     \* bound: the last epoch of the chain
  MaxFaults     \* bound: how often each kind of fault occurs

\* rpc: a read fails; send: a transaction is not accepted; wait: no receipt in
\* time; revert: a transaction fails on chain; write: a copy to the database
\* fails, in its reads or its write; rival: somebody else distributes an epoch.
FaultKinds == {"rpc", "send", "wait", "revert", "write", "restart", "rival"}

ASSUME BoundsAssumption ==
  /\ MaxEpoch \in Nat \ {0}
  /\ MaxFaults \in [FaultKinds -> Nat]

VARIABLES
  lastCheckedEpoch,   \* 0: this process has not checked yet
  isRunning,          \* the flag against overlapping jobs
  job,                \* where each invocation stands
  epoch,              \* RewardPool.getCurrentEpoch, 0 before the first epoch
  distributed,        \* RewardPool.epochDistributed
  mempool,            \* transactions of the oracle, not mined yet
  archived,           \* table contributions: epochs copied from the contract
  epochRow,           \* table epochs: the distributed flag of each row
  synced,             \* history: epochs whose syncRewards was mined or reverted
  submitted,          \* history: epochs whose distributeRewards was sent
  attempted,          \* history: epochs distributeEpochRewards was called for
  watched,            \* history: epochs that ended while the job knew the epoch, until a restart
  outrun,             \* history: of these, the ones the next end found unchecked
  faults

service  == <<lastCheckedEpoch, isRunning, job>>
contract == <<epoch, distributed, mempool>>
tables   == <<archived, epochRow>>
history  == <<synced, submitted, attempted, watched, outrun>>
vars     == <<service, contract, tables, history, faults>>

Epochs == 0..MaxEpoch
Tx     == [call: {"syncRewards", "distributeRewards"}, epoch: Epochs]
Stages == {"idle", "epoch", "distributed", "sync", "syncWait", "distribute",
           "wait", "archive", "readPrevious", "savePrevious", "readCurrent",
           "saveCurrent"}
IdleJob == [pc |-> "idle", current |-> 0, flag |-> FALSE]

previousEpoch(j) == job[j].current - 1
Goto(j, stage) == job' = [job EXCEPT ![j].pc = stage]
Suffer(kind)   == /\ faults[kind] > 0
                  /\ faults' = [faults EXCEPT ![kind] = @ - 1]
Pending(tx)    == \E i \in DOMAIN mempool : mempool[i] = tx
SyncTx(e)      == [call |-> "syncRewards", epoch |-> e]
PayTx(e)       == [call |-> "distributeRewards", epoch |-> e]

(***************************************************************************)
(* The chain.                                                              *)
(***************************************************************************)
AdvanceEpoch ==
  /\ epoch < MaxEpoch
  /\ epoch' = epoch + 1
  /\ watched' = IF lastCheckedEpoch = 0 THEN watched ELSE watched \cup {epoch}
  /\ outrun' = outrun \cup (IF lastCheckedEpoch < epoch THEN watched \cap {epoch - 1} ELSE {})
  /\ UNCHANGED <<service, distributed, mempool, tables, synced, submitted,
                 attempted, faults>>

\* A syncRewards is done with when it is mined, reverted or not: the code awaits its
\* receipt and does not look at the status.
Mine ==
  /\ mempool # <<>>
  /\ mempool' = Tail(mempool)
  /\ LET tx == Head(mempool)
     IN  IF tx.call = "syncRewards"
         THEN /\ synced' = synced \cup {tx.epoch}
              /\ UNCHANGED <<distributed, faults>>
         ELSE /\ \/ /\ distributed' = distributed \cup {tx.epoch}
                    /\ UNCHANGED faults
                 \/ Suffer("revert") /\ UNCHANGED distributed
              /\ UNCHANGED synced
  /\ UNCHANGED <<service, epoch, tables, submitted, attempted, watched, outrun>>

RivalDistributes ==
  /\ Suffer("rival")
  /\ \E e \in 1..epoch : /\ e < epoch
                         /\ distributed' = distributed \cup {e}
  /\ UNCHANGED <<service, epoch, mempool, tables, history>>

(***************************************************************************)
(* checkAndDistributeRewards.                                              *)
(***************************************************************************)
\* Mutant: no flag against overlapping jobs.
StartsAlways(j) == job[j].pc = "idle"

MayStart(j) == job[j].pc = "idle" /\ ~isRunning

\* The finally.
Finish(j) == /\ isRunning' = FALSE
             /\ job' = [job EXCEPT ![j] = IdleJob]

Tick(j) ==
  /\ MayStart(j)
  /\ isRunning' = TRUE
  /\ Goto(j, "epoch")
  /\ UNCHANGED <<lastCheckedEpoch, contract, tables, history, faults>>

\* Mutant: two epochs must have passed.
TwoEpochsPassed == lastCheckedEpoch # 0 /\ epoch > lastCheckedEpoch + 1

EpochPassed == lastCheckedEpoch # 0 /\ epoch > lastCheckedEpoch

\* (In epoch 0 the code returns before it remembers the epoch: 0 as well.)
ReadEpoch(j) ==
  /\ job[j].pc = "epoch"
  /\ IF EpochPassed
     THEN /\ job' = [job EXCEPT ![j] = [pc |-> "distributed", current |-> epoch,
                                        flag |-> FALSE]]
          /\ attempted' = attempted \cup {epoch - 1}
          /\ UNCHANGED <<lastCheckedEpoch, isRunning>>
     ELSE /\ lastCheckedEpoch' = IF lastCheckedEpoch = 0 THEN epoch
                                                         ELSE lastCheckedEpoch
          /\ Finish(j)
          /\ UNCHANGED attempted
  /\ UNCHANGED <<contract, tables, synced, submitted, watched, outrun, faults>>

ReadEpochFails(j) ==
  /\ job[j].pc = "epoch"
  /\ Suffer("rpc")
  /\ Finish(j)
  /\ UNCHANGED <<lastCheckedEpoch, contract, tables, history>>

(***************************************************************************)
(* distributeEpochRewards.  Its catch swallows every error, so that the    *)
(* epoch counts as checked whatever became of it.                          *)
(***************************************************************************)
\* Mutant: the next epoch counts as checked already.
ConcludesAhead(j) ==
  /\ lastCheckedEpoch' = job[j].current + 1
  /\ Goto(j, "readPrevious")

Conclude(j) ==
  /\ lastCheckedEpoch' = job[j].current
  /\ Goto(j, "readPrevious")

Continue(j, stage) == Goto(j, stage) /\ UNCHANGED lastCheckedEpoch

ReadDistributed(j) ==
  /\ job[j].pc = "distributed"
  /\ \/ /\ IF previousEpoch(j) \in distributed
           THEN Continue(j, "archive")
           ELSE Continue(j, "sync")
        /\ UNCHANGED faults
     \/ Suffer("rpc") /\ Conclude(j)
  /\ UNCHANGED <<isRunning, contract, tables, history>>

SubmitSync(j) ==
  /\ job[j].pc = "sync"
  /\ \/ /\ mempool' = Append(mempool, SyncTx(previousEpoch(j)))
        /\ Continue(j, "syncWait")
        /\ UNCHANGED faults
     \/ Suffer("send") /\ Conclude(j) /\ UNCHANGED mempool
  /\ UNCHANGED <<isRunning, epoch, distributed, tables, history>>

\* Mutant: the receipt of syncRewards is not waited for.
NoWait(tx) == TRUE

\* A receipt, of whatever status: the transaction has left the mempool.
Receipt(tx) == ~Pending(tx)

AwaitSync(j) ==
  /\ job[j].pc = "syncWait"
  /\ \/ /\ Receipt(SyncTx(previousEpoch(j)))
        /\ Continue(j, "distribute")
        /\ UNCHANGED faults
     \/ Suffer("wait") /\ Conclude(j)
  /\ UNCHANGED <<isRunning, contract, tables, history>>

SubmitDistribute(j) ==
  LET e == previousEpoch(j)
  IN  /\ job[j].pc = "distribute"
      /\ \/ /\ mempool' = Append(mempool, PayTx(e))
            /\ submitted' = submitted \cup {e}
            /\ Continue(j, "wait")
            /\ UNCHANGED faults
         \/ Suffer("send") /\ Conclude(j) /\ UNCHANGED <<mempool, submitted>>
      /\ UNCHANGED <<isRunning, epoch, distributed, tables, synced, attempted,
                     watched, outrun>>

AwaitDistribute(j) ==
  /\ job[j].pc = "wait"
  /\ \/ /\ Receipt(PayTx(previousEpoch(j)))
        /\ Continue(j, "archive")
        /\ UNCHANGED faults
     \/ Suffer("wait") /\ Conclude(j)
  /\ UNCHANGED <<isRunning, contract, tables, history>>

\* syncEpochContributions swallows its errors.
SyncEpochContributions(j) ==
  /\ job[j].pc = "archive"
  /\ \/ /\ archived' = archived \cup {previousEpoch(j)}
        /\ UNCHANGED faults
     \/ Suffer("write") /\ UNCHANGED archived
  /\ Conclude(j)
  /\ UNCHANGED <<isRunning, contract, epochRow, history>>

(***************************************************************************)
(* syncEpoch(previousEpoch), then syncEpoch(currentEpoch): read, then save. *)
(***************************************************************************)
\* Mutant: the previous epoch is taken for distributed, unseen.
Presumes(j, e) == e < job[j].current
\* What the contract says of epoch e.
Sees(j, e) == e \in distributed

ReadForRow(j, stage, e, next) ==
  /\ job[j].pc = stage
  /\ job' = [job EXCEPT ![j] = [pc |-> next, current |-> @.current, flag |-> Sees(j, e)]]
  /\ UNCHANGED <<lastCheckedEpoch, isRunning, contract, tables, history, faults>>

SaveRow(j, e) ==
  \/ epochRow' = [epochRow EXCEPT ![e] = job[j].flag] /\ UNCHANGED faults
  \/ Suffer("write") /\ UNCHANGED epochRow

ReadPrevious(j) == ReadForRow(j, "readPrevious", previousEpoch(j), "savePrevious")
ReadCurrent(j)  == ReadForRow(j, "readCurrent", job[j].current, "saveCurrent")

SavePrevious(j) ==
  /\ job[j].pc = "savePrevious"
  /\ SaveRow(j, previousEpoch(j))
  /\ Continue(j, "readCurrent")
  /\ UNCHANGED <<isRunning, contract, archived, history>>

SaveCurrent(j) ==
  /\ job[j].pc = "saveCurrent"
  /\ SaveRow(j, job[j].current)
  /\ Finish(j)
  /\ UNCHANGED <<lastCheckedEpoch, contract, archived, history>>

Restart ==
  /\ Suffer("restart")
  /\ lastCheckedEpoch' = 0
  /\ isRunning' = FALSE
  /\ job' = [j \in Jobs |-> IdleJob]
  /\ watched' = watched \cap attempted
  /\ UNCHANGED <<contract, tables, synced, submitted, attempted, outrun>>

-----------------------------------------------------------------------------
Init ==
  /\ lastCheckedEpoch = 0
  /\ isRunning = FALSE
  /\ job = [j \in Jobs |-> IdleJob]
  /\ epoch = 0
  /\ distributed = {}
  /\ mempool = <<>>
  /\ archived = {}
  /\ epochRow = [e \in Epochs |-> FALSE]
  /\ synced = {}
  /\ submitted = {}
  /\ attempted = {}
  /\ watched = {}
  /\ outrun = {}
  /\ faults = MaxFaults

Work(j) ==
  \/ ReadEpoch(j) \/ ReadDistributed(j) \/ SubmitSync(j) \/ AwaitSync(j)
  \/ SubmitDistribute(j) \/ AwaitDistribute(j) \/ SyncEpochContributions(j)
  \/ ReadPrevious(j) \/ SavePrevious(j) \/ ReadCurrent(j) \/ SaveCurrent(j)

Next ==
  \/ \E j \in Jobs : Tick(j) \/ Work(j) \/ ReadEpochFails(j)
  \/ AdvanceEpoch \/ Mine \/ RivalDistributes
  \/ Restart

Spec == Init /\ [][Next]_vars

\* The interval fires again, the event loop resumes every job and the chain
\* goes on.
FairSpec ==
  /\ Spec
  /\ WF_vars(\E j \in Jobs : Tick(j))
  /\ \A j \in Jobs : WF_vars(Work(j))
  /\ WF_vars(Mine)
  /\ WF_vars(AdvanceEpoch)

-----------------------------------------------------------------------------
TypeOK ==
  /\ lastCheckedEpoch \in Epochs
  /\ isRunning \in BOOLEAN
  /\ job \in [Jobs -> [pc: Stages, current: Epochs, flag: BOOLEAN]]
  /\ \A j \in Jobs : job[j].pc \notin {"idle", "epoch"} => job[j].current > 0
  /\ epoch \in Epochs
  /\ distributed \subseteq Epochs
  /\ mempool \in Seq(Tx)
  /\ archived \subseteq Epochs
  /\ epochRow \in [Epochs -> BOOLEAN]
  /\ synced \subseteq Epochs
  /\ submitted \subseteq Epochs
  /\ attempted \subseteq Epochs
  /\ watched \subseteq Epochs /\ outrun \subseteq Epochs
  /\ faults \in [FaultKinds -> Nat]

\* Every distributeRewards is for an epoch that is over and later than all those
\* sent before: no epoch is ever sent twice, across overlapping intervals, lost
\* receipts and restarts (lastCheckedEpoch, isRunning).
DistributionsAscend ==
  [][\A e \in Epochs :
       mempool' = Append(mempool, PayTx(e)) =>
         e < epoch /\ \A f \in submitted : f < e]_vars

\* No distributeRewards is on its way before the syncRewards of its epoch is mined,
\* with whatever status: the epoch would be paid from the balance of the one before.
SyncedBeforeDistributed ==
  \A e \in Epochs : Pending(PayTx(e)) => e \in synced

\* The epochs table calls no epoch distributed that the contract does not.
RowsTruthful == \A e \in Epochs : epochRow[e] => e \in distributed

\* Once the job knows an epoch, the last one to end is distributed, archived and
\* shown as such, however slow the job and the chain are to each other, and even
\* if a rival distributes it -- unless a call fails or the process dies.
Undisturbed == \A k \in FaultKinds \ {"rival"} : faults[k] = MaxFaults[k]
LastEpochSettled ==
  lastCheckedEpoch \in 1..MaxEpoch - 1 ~>
    \/ /\ MaxEpoch - 1 \in distributed
       /\ MaxEpoch - 1 \in archived
       /\ epochRow[MaxEpoch - 1]
    \/ ~Undisturbed

\* README: the distributor triggers reward distribution at epoch boundaries.  Of the
\* epochs that end while the job is watching it passes over those only that the next
\* epoch's end found unchecked, however jobs overlap and whatever calls fail.
OnlyOutrunSkipped ==
  \A e \in watched : e < lastCheckedEpoch => e \in attempted \cup outrun
=============================================================================

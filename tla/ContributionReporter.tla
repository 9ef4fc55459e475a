------------------------ MODULE ContributionReporter ------------------------
(***************************************************************************)
(* The contribution reports: ReporterService with the task memory of       *)
(* ScorerService, the agents MonitorService takes for active, the          *)
(* RewardPool contract and the contributions table.                        *)
(*                                                                         *)
(* Every ReportBlocks blocks the reporter goes through the active agents,  *)
(* one at a time: it reads the agent's tasks, sends them to the contract,  *)
(* waits for the receipt, sends a heartbeat for an agent that has worked   *)
(* and saves a row.  After the last agent the memory is cleared, unless a  *)
(* report has failed.  Tasks arrive from a contract event at any time.     *)
(* The uptimes kept beside the tasks are cleared with them and measured    *)
(* anew by the next usage report; the score the round writes to the node   *)
(* is read by none of this: both are left out.                             *)
(*                                                                         *)
(* The Maps are keyed by strings, and an agent has two: the monitor lists  *)
(* agents of the registry contract under the checksummed address, agents   *)
(* it knows from the node table under the lowercase one, and those of both *)
(* twice.  The event names the solver checksummed.  The chain and the      *)
(* tables do not tell the two apart.                                       *)
(***************************************************************************)
EXTENDS Integers, Sequences, FiniteSets

CONSTANTS
  Agents,
  MaxTasks,       \* bound: the challenges solved
  MaxJobs,        \* bound: invocations of the interval that exist at once
  Nobody,         \* the agent of a job that has none
  Listed,         \* bound: the keys the monitor may list
  ReportBlocks,   \* chainConfig.intervals.reportBlocks
  MaxElapsed,     \* bound: blocks since the last report
  Processors,     \* bound: the agents with a pipeline node, which process tokens
  MaxEvents,      \* bound: challenges solved, tokens first processed and epochs ended
  MaxEpoch,       \* bound: the last epoch of the chain
  MaxFaults       \* bound: how many faults occur

Spellings == {"checksummed", "lowercase"}
Keys      == Agents \X Spellings
AgentOf(k)  == k[1]
SolverKey(a) == <<a, "checksummed">>
NodeKey(a)   == <<a, "lowercase">>

ASSUME BoundsAssumption ==
  /\ ReportBlocks \in Nat \ {0}
  /\ MaxElapsed \in Nat /\ ReportBlocks <= MaxElapsed
  /\ Processors \subseteq Agents /\ Listed \subseteq Keys
  /\ MaxTasks \in Nat /\ MaxJobs \in Nat /\ MaxEvents \in Nat
  /\ MaxEpoch \in Nat \ {0}
  /\ MaxFaults \in Nat
ASSUME NobodyAssumption == Nobody \notin Keys

VARIABLES
  started,        \* lastReportBlock # 0
  elapsed,        \* current block - lastReportBlock
  isRunning,      \* the flag against overlapping jobs
  job,            \* where each invocation stands
  agentTasks,     \* ScorerService.agentTasks: by agent, under its SolverKey
  active,         \* the keys of MonitorService.getActiveAgents
  epoch,          \* RewardPool.getCurrentEpoch
  worked,         \* <<agent, epoch>> with tokens in the metrics or the proofs
  mempool,        \* reports sent and not mined yet
  fresh,          \* agents with a pipeline row touched in the last ten minutes
  alive,          \* agents a heartbeat of the oracle keeps alive on the chain
  contribution,   \* table contributions: the tasks of each (agent, epoch)
  solved,         \* history: tasks recorded so far
  latest,         \* history: the tasks of the last report sent under a key
  mined,          \* history: tasks a successful report has brought on chain
  reverted,       \* history: tasks of a report that failed on chain
  late,           \* history: recorded after the round had read their agent
  absent,         \* history: cleared though their agent was not in the round
  misspelt,       \* history: cleared though their agent was in it as a node only
  crashed,        \* history: in memory when the process died
  settled,        \* history: on chain when the memory was cleared
  faults

service == <<started, elapsed, isRunning, job>>
chain   == <<epoch, worked, mempool, alive>>
fate    == <<mined, reverted, late, absent, misspelt, crashed, settled>>
history == <<solved, latest, fate>>
vars    == <<service, agentTasks, active, chain, fresh, contribution, history, faults>>

Epochs  == 1..MaxEpoch
Tasks   == 1..MaxTasks   \* in the order they are recorded
Jobs    == 1..MaxJobs
Report  == [agent: Agents, tasks: SUBSET Tasks]
Stages  == {"idle", "block", "epoch", "stats", "send", "wait", "beat", "save"}
IdleJob == [pc |-> "idle", elapsed |-> 0, round |-> {}, todo |-> {}, read |-> {},
            failed |-> FALSE, agent |-> Nobody, epoch |-> 1, tasks |-> {},
            hasWork |-> FALSE]

InMemory(t)  == \E a \in Agents : t \in agentTasks[a]
Remembered   == UNION {agentTasks[a] : a \in Agents}
Pending(tx)  == \E i \in DOMAIN mempool : mempool[i] = tx
ReportOf(j)  == [agent |-> AgentOf(job[j].agent), tasks |-> job[j].tasks]
Goto(j, stage) == job' = [job EXCEPT ![j].pc = stage]
\* A read, a send or a save fails, no receipt comes in time, a transaction
\* fails on chain, an agent is not heard of for five minutes, the process restarts.
Fault == faults > 0 /\ faults' = faults - 1

(***************************************************************************)
(* The world: challenges solved, tokens processed, agents heard of or not, *)
(* blocks and epochs.                                                      *)
(***************************************************************************)
Happens == Cardinality(solved) + Cardinality(worked) + epoch <= MaxEvents

\* recordTask, from the ChallengeSolved event.
RecordTask(a) ==
  /\ Happens
  /\ Cardinality(solved) < MaxTasks
  /\ LET t == Cardinality(solved) + 1
     IN  /\ solved' = solved \cup {t}
         /\ agentTasks' = [agentTasks EXCEPT ![a] = @ \cup {t}]
         /\ late' = IF \E j \in Jobs : SolverKey(a) \in job[j].read
                    THEN late \cup {t} ELSE late
  /\ UNCHANGED <<service, active, chain, fresh, contribution, latest, mined, reverted,
                 absent, misspelt, crashed, settled, faults>>

ProcessTokens(a) ==
  /\ a \in Processors /\ <<a, epoch>> \notin worked
  /\ Happens
  /\ worked' = worked \cup {<<a, epoch>>}
  /\ UNCHANGED <<service, agentTasks, active, epoch, mempool, alive, fresh,
                 contribution, history, faults>>

Hear(k) ==
  /\ k \notin active
  /\ active' = active \cup {k}
  /\ UNCHANGED <<service, agentTasks, chain, fresh, contribution, history, faults>>

Silence(k) ==
  /\ k \in active
  /\ Fault
  /\ active' = active \ {k}
  /\ UNCHANGED <<service, agentTasks, chain, fresh, contribution, history>>

AdvanceEpoch ==
  /\ Happens
  /\ epoch < MaxEpoch
  /\ epoch' = epoch + 1
  /\ UNCHANGED <<service, agentTasks, active, worked, mempool, alive, fresh,
                 contribution, history, faults>>

AdvanceBlock ==
  /\ started /\ elapsed < MaxElapsed
  /\ elapsed' = elapsed + 1
  /\ UNCHANGED <<started, isRunning, job, agentTasks, active, chain, fresh,
                 contribution, history, faults>>

\* Reports are mined in the order they were sent.
Mine ==
  /\ mempool # <<>>
  /\ mempool' = Tail(mempool)
  /\ \/ /\ mined' = mined \cup Head(mempool).tasks
        /\ UNCHANGED <<reverted, faults>>
     \/ /\ Fault
        /\ reverted' = reverted \cup Head(mempool).tasks
        /\ UNCHANGED mined
  /\ UNCHANGED <<service, agentTasks, active, epoch, worked, alive, fresh,
                 contribution, solved, latest, late, absent, misspelt, crashed, settled>>

HeartbeatTimeout(a) ==
  /\ a \in alive
  /\ alive' = alive \ {a}
  /\ UNCHANGED <<service, agentTasks, active, epoch, worked, mempool, fresh,
                 contribution, history, faults>>

(***************************************************************************)
(* The pipeline rows, and the second sender of heartbeats.                 *)
(***************************************************************************)
\* A registration, a ready or any usage report, with new tokens or without.
TouchRow(a) ==
  /\ a \in Processors \ fresh
  /\ fresh' = fresh \cup {a}
  /\ UNCHANGED <<service, agentTasks, active, chain, contribution, history, faults>>

\* HEARTBEAT_TIMEOUT_MS without any of them.
RowAges(a) ==
  /\ a \in fresh
  /\ fresh' = fresh \ {a}
  /\ UNCHANGED <<service, agentTasks, active, chain, contribution, history, faults>>

\* Mutant: the rows are not filtered.
AnyRow(a) == a \in Processors

Sponsored(a) == a \in fresh

\* sendSponsoredHeartbeats, one agent after the other; a send that fails is passed over.
\* (A row may age between the one read of the rows and the last of the sends.)
SponsorHeartbeat(a) ==
  /\ Sponsored(a)
  /\ alive' = alive \cup {a}
  /\ UNCHANGED <<service, agentTasks, active, epoch, worked, mempool, fresh,
                 contribution, history, faults>>

(***************************************************************************)
(* checkAndReportContributions.                                            *)
(***************************************************************************)
\* Mutant: no flag against overlapping jobs.
StartsAlways(j) == job[j].pc = "idle"

MayStart(j) == job[j].pc = "idle" /\ ~isRunning

Tick(j) ==
  /\ MayStart(j)
  /\ \A i \in 1..j - 1 : job[i].pc # "idle"
  /\ isRunning' = TRUE
  /\ Goto(j, "block")
  /\ UNCHANGED <<started, elapsed, agentTasks, active, chain, fresh, contribution,
                 history, faults>>

\* The finally.
Finish(j) == /\ isRunning' = FALSE
             /\ job' = [job EXCEPT ![j] = IdleJob]

\* Go on with one of the agents in todo, in the order of the Map.
NextAgent(j, record, todo) ==
  \E a \in todo :
    job' = [job EXCEPT ![j] =
              [record EXCEPT !.pc = "epoch", !.agent = a, !.todo = todo \ {a}]]

ReadBlock(j) ==
  /\ job[j].pc = "block"
  /\ \/ /\ ~started
        /\ started' = TRUE
        /\ elapsed' = 0
        /\ Finish(j)
     \/ /\ started /\ elapsed < ReportBlocks
        /\ Finish(j)
        /\ UNCHANGED <<started, elapsed>>
     \/ /\ started /\ elapsed >= ReportBlocks /\ active = {}
        /\ elapsed' = 0
        /\ Finish(j)
        /\ UNCHANGED started
     \/ /\ started /\ elapsed >= ReportBlocks
        /\ NextAgent(j, [job[j] EXCEPT !.elapsed = elapsed, !.round = active], active)
        /\ UNCHANGED <<started, elapsed, isRunning>>
  /\ UNCHANGED <<agentTasks, active, chain, fresh, contribution, history, faults>>

ReadBlockFails(j) ==
  /\ job[j].pc = "block"
  /\ Fault
  /\ Finish(j)
  /\ UNCHANGED <<started, elapsed, agentTasks, active, chain, fresh, contribution,
                 history>>

(***************************************************************************)
(* The end of an agent's report: the next agent, or the end of the round.  *)
(***************************************************************************)
\* Mutant: the tasks survive the reset.
KeepsTasks(j) ==
  UNCHANGED <<agentTasks, absent, misspelt>> /\ settled' = settled \cup mined

\* The agents of the round that it knew from the node table only.
NodeOnly(j) ==
  {a \in Agents : NodeKey(a) \in job[j].round /\ SolverKey(a) \notin job[j].round}
Missing(j) ==
  {a \in Agents : NodeKey(a) \notin job[j].round /\ SolverKey(a) \notin job[j].round}

ResetEpochData(j) ==
  /\ agentTasks' = [a \in Agents |-> {}]
  /\ absent' = absent \cup UNION {agentTasks[a] : a \in Missing(j)}
  /\ misspelt' = misspelt \cup UNION {agentTasks[a] : a \in NodeOnly(j)}
  /\ settled' = settled \cup mined

\* Mutant: the memory is cleared after every round.
AlwaysClears(failed) == TRUE

MayClear(failed) == ~failed

\* Mutant: the blocks of the round are counted twice.
CountsTwice(j) == elapsed + job[j].elapsed

\* lastReportBlock becomes the block the round began with.
SinceThisReport(j) == elapsed - job[j].elapsed

EndReport(j, ok) ==
  LET failed == job[j].failed \/ ~ok
  IN  IF job[j].todo # {}
      THEN /\ NextAgent(j, [job[j] EXCEPT !.failed = failed], job[j].todo)
           /\ UNCHANGED <<elapsed, isRunning, agentTasks, absent, misspelt, settled>>
      ELSE /\ elapsed' = SinceThisReport(j)
           /\ Finish(j)
           /\ IF MayClear(failed) THEN ResetEpochData(j)
                                  ELSE UNCHANGED <<agentTasks, absent, misspelt, settled>>

\* The report goes on.
Continue(j, stage) ==
  /\ Goto(j, stage)
  /\ UNCHANGED <<elapsed, isRunning, agentTasks, absent, misspelt, settled>>

(***************************************************************************)
(* reportAgentContribution.                                                *)
(***************************************************************************)
\* What agentTasks.get answers for the exact key.
TasksUnder(k) == IF k = SolverKey(AgentOf(k)) THEN agentTasks[AgentOf(k)] ELSE {}

\* getAgentScore reads the tasks before its first await, so in the same step.
ReadEpochAndTasks(j) ==
  LET k == job[j].agent
  IN  /\ job[j].pc = "epoch"
      /\ \/ /\ job' = [job EXCEPT ![j] =
                         [@ EXCEPT !.pc = "stats", !.epoch = epoch, !.tasks = TasksUnder(k),
                                   !.read = job[j].read \cup {k}]]
            /\ UNCHANGED <<elapsed, isRunning, agentTasks, absent, misspelt, settled,
                           faults>>
         \/ Fault /\ EndReport(j, FALSE)
      /\ UNCHANGED <<started, active, chain, fresh, contribution, solved, latest, mined,
                     reverted, late, crashed>>

HasWork(tasks, tokens) == tasks # {} \/ tokens

\* The rest of getAgentScore; its errors count as no tokens.  (The tables are asked for
\* the lowercase address.)
ReadStats(j) ==
  LET Read(tokens) ==
        job' = [job EXCEPT ![j] =
                  [@ EXCEPT !.pc = "send", !.hasWork = HasWork(job[j].tasks, tokens)]]
  IN  /\ job[j].pc = "stats"
      /\ \/ Read(<<AgentOf(job[j].agent), epoch>> \in worked) /\ UNCHANGED faults
         \/ Fault /\ Read(FALSE)
      /\ UNCHANGED <<started, elapsed, isRunning, agentTasks, active, chain, fresh,
                     contribution, history>>

SubmitReport(j) ==
  /\ job[j].pc = "send"
  /\ \/ /\ mempool' = Append(mempool, ReportOf(j))
        /\ latest' = [latest EXCEPT ![job[j].agent] = job[j].tasks]
        /\ Continue(j, "wait")
        /\ UNCHANGED faults
     \/ Fault /\ EndReport(j, FALSE) /\ UNCHANGED <<mempool, latest>>
  /\ UNCHANGED <<started, active, epoch, worked, alive, fresh, contribution, solved,
                 mined, reverted, late, crashed>>

\* Mutant: the receipt is not waited for.
NoWait(tx) == TRUE

\* A receipt, of whatever status: the transaction has left the mempool.
Receipt(tx) == ~Pending(tx)

\* Without a receipt in time the report has failed; it may be mined all the same.
AwaitReceipt(j) ==
  /\ job[j].pc = "wait"
  /\ \/ /\ Receipt(ReportOf(j))
        /\ Continue(j, IF job[j].hasWork THEN "beat" ELSE "save")
        /\ UNCHANGED faults
     \/ Fault /\ EndReport(j, FALSE)
  /\ UNCHANGED <<started, active, chain, fresh, contribution, solved, latest, mined,
                 reverted, late, crashed>>

SendHeartbeat(j) ==
  /\ job[j].pc = "beat"
  /\ \/ alive' = alive \cup {AgentOf(job[j].agent)} /\ UNCHANGED faults
     \/ Fault /\ UNCHANGED alive
  /\ Goto(j, "save")
  /\ UNCHANGED <<started, elapsed, isRunning, agentTasks, active, epoch, worked,
                 mempool, fresh, contribution, history>>

\* The row is that of the lowercase address, whichever key the report was for.
SaveContributionToDB(j) ==
  /\ job[j].pc = "save"
  /\ \/ /\ contribution' =
             [contribution EXCEPT ![AgentOf(job[j].agent)][job[j].epoch] = job[j].tasks]
        /\ UNCHANGED faults
     \/ Fault /\ UNCHANGED contribution
  /\ EndReport(j, TRUE)
  /\ UNCHANGED <<started, active, chain, fresh, solved, latest, mined, reverted, late,
                 crashed>>

Restart ==
  /\ Fault
  /\ started' = FALSE
  /\ elapsed' = 0
  /\ isRunning' = FALSE
  /\ job' = [j \in Jobs |-> IdleJob]
  /\ agentTasks' = [a \in Agents |-> {}]
  /\ active' = {}
  /\ crashed' = crashed \cup Remembered
  /\ UNCHANGED <<chain, fresh, contribution, solved, latest, mined, reverted, late,
                 absent, misspelt, settled>>

-----------------------------------------------------------------------------
Init ==
  /\ started = FALSE
  /\ elapsed = 0
  /\ isRunning = FALSE
  /\ job = [j \in Jobs |-> IdleJob]
  /\ agentTasks = [a \in Agents |-> {}]
  /\ active = {}
  /\ epoch = 1
  /\ worked = {}
  /\ mempool = <<>>
  /\ alive = {} /\ fresh = {}
  /\ contribution = [a \in Agents |-> [e \in Epochs |-> {}]]
  /\ solved = {}
  /\ latest = [k \in Keys |-> {}]
  /\ mined = {} /\ reverted = {} /\ late = {} /\ absent = {} /\ misspelt = {}
  /\ crashed = {} /\ settled = {}
  /\ faults = MaxFaults

Work(j) ==
  \/ ReadBlock(j) \/ ReadEpochAndTasks(j) \/ ReadStats(j) \/ SubmitReport(j)
  \/ AwaitReceipt(j) \/ SendHeartbeat(j) \/ SaveContributionToDB(j)

Next ==
  \/ \E j \in Jobs : Tick(j) \/ Work(j) \/ ReadBlockFails(j)
  \/ \E a \in Agents : \/ RecordTask(a) \/ ProcessTokens(a) \/ HeartbeatTimeout(a)
                       \/ TouchRow(a) \/ RowAges(a) \/ SponsorHeartbeat(a)
  \/ \E k \in Listed : Hear(k) \/ Silence(k)
  \/ AdvanceEpoch \/ AdvanceBlock \/ Mine
  \/ Restart

Spec == Init /\ [][Next]_vars

\* The interval fires again, the event loop resumes every job, the chain goes on
\* and lets heartbeats expire.
FairSpec ==
  /\ Spec
  /\ WF_vars(\E j \in Jobs : Tick(j))
  /\ \A j \in Jobs : WF_vars(Work(j))
  /\ WF_vars(Mine)
  /\ WF_vars(AdvanceBlock)
  /\ \A a \in Agents : WF_vars(HeartbeatTimeout(a))

-----------------------------------------------------------------------------
TypeOK ==
  /\ started \in BOOLEAN
  /\ elapsed \in Int /\ elapsed <= MaxElapsed
  /\ isRunning \in BOOLEAN
  /\ job \in [Jobs -> [pc: Stages, elapsed: 0..MaxElapsed, round: SUBSET Keys,
                       todo: SUBSET Keys, read: SUBSET Keys, failed: BOOLEAN,
                       agent: Keys \cup {Nobody}, epoch: Epochs,
                       tasks: SUBSET Tasks, hasWork: BOOLEAN]]
  /\ \A j \in Jobs : job[j].pc \notin {"idle", "block"} => job[j].agent \in Keys
  /\ agentTasks \in [Agents -> SUBSET Tasks]
  /\ active \subseteq Keys
  /\ epoch \in Epochs
  /\ worked \subseteq Agents \X Epochs
  /\ mempool \in Seq(Report)
  /\ alive \subseteq Agents /\ fresh \subseteq Agents
  /\ contribution \in [Agents -> [Epochs -> SUBSET Tasks]]
  /\ solved \subseteq Tasks
  /\ latest \in [Keys -> SUBSET Tasks]
  /\ \A s \in {mined, reverted, late, absent, misspelt, crashed, settled} :
       s \subseteq Tasks
  /\ faults \in 0..MaxFaults

\* There are five ways only to lose a task the scorer recorded: its report failed
\* on chain, it arrived after its agent's turn in the round, its agent was not in
\* the round, or was there under the lowercase key only, which finds no tasks, or the
\* process died.  A failed read, send, wait or save of any agent loses nothing.
LossIsExplained ==
  \A t \in solved :
    InMemory(t) \/ t \in mined \cup reverted \cup late \cup absent \cup misspelt \cup crashed

\* What is on chain when the memory is cleared is never sent again.
SettledNeverResent ==
  \A i \in DOMAIN mempool : mempool[i].tasks \cap settled = {}

\* From report to report the tasks under a key grow or start anew: a stale snapshot
\* never follows a newer one.
ReportsGrow ==
  [][\A k \in Keys :
       \/ latest[k] \subseteq latest'[k]
       \/ latest[k] \cap latest'[k] = {}]_vars

\* The contributions table claims no task before its report is mined.
RowsAreConfirmed ==
  \A a \in Agents : \A e \in Epochs : contribution[a][e] \subseteq mined \cup reverted

\* No task waits in memory for ever while its agent stays active under one key or the
\* other, whatever fails for a while.
NoTaskWaitsForever ==
  \A a \in Agents : \A t \in Tasks :
    []<>(t \notin agentTasks[a] \/ {SolverKey(a), NodeKey(a)} \cap active = {})

\* Idle agents get no artificial heartbeats, neither with their reports nor from
\* the pipeline: one that solves no more, has no tokens in the epoch and whose
\* pipeline row, if any, is no longer touched falls silent on the chain in the end.
\* (An idle agent whose usage reports go on keeps its row fresh, and is kept alive.)
IdleAgentsFade ==
  \A a \in Agents :
    <>[](<<a, epoch>> \notin worked /\ a \notin fresh) => <>[](a \notin alive)
=============================================================================

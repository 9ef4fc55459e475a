--------------------- MODULE ContributionReporter_proofs ---------------------
(***************************************************************************)
(* For any number of agents, tasks, overlapping intervals and faults: what *)
(* may become of a task, that nothing settled is sent again, that an       *)
(* agent's reports follow on each other, and that the contributions table  *)
(* claims nothing before its report is mined; and that the flag against    *)
(* overlapping rounds is never left set.                                   *)
(***************************************************************************)
EXTENDS ContributionReporter, FiniteSetTheorems, TLAPS

JobRecord == [pc: Stages, elapsed: 0..MaxElapsed, round: SUBSET Keys,
              todo: SUBSET Keys, read: SUBSET Keys, failed: BOOLEAN,
              agent: Keys \cup {Nobody}, epoch: Epochs,
              tasks: SUBSET Tasks, hasWork: BOOLEAN]

\* The stages of reportAgentContribution, and those with the agent's tasks in hand.
AtWork  == {"epoch", "stats", "send", "wait", "beat", "save"}
HasRead == AtWork \ {"epoch"}

Confirmed == mined \cup reverted

\* What a job at work can rely on, whatever happens in its awaits.
Knows(j) ==
  /\ job[j].pc \in {"idle", "block"} => job[j].read = {}
  /\ job[j].pc \in AtWork =>
       /\ job[j].agent \in Keys
       /\ ~job[j].failed =>
            /\ job[j].round \subseteq job[j].read \cup job[j].todo \cup {job[j].agent}
            /\ \A k \in job[j].read \ {job[j].agent} :
                 TasksUnder(k) \subseteq Confirmed \cup late
  /\ job[j].pc \in HasRead =>
       /\ job[j].agent \in job[j].read
       /\ job[j].tasks \subseteq TasksUnder(job[j].agent)
       /\ TasksUnder(job[j].agent) \subseteq job[j].tasks \cup late
       /\ \/ latest[job[j].agent] \subseteq job[j].tasks
          \/ latest[job[j].agent] \cap job[j].tasks = {}
  /\ job[j].pc = "wait" =>
       \/ mempool = <<>> /\ job[j].tasks \subseteq Confirmed
       \/ mempool # <<>> /\ mempool[Len(mempool)] = ReportOf(j)
  /\ job[j].pc \in {"beat", "save"} => mempool = <<>> /\ job[j].tasks \subseteq Confirmed

JobsKnow == \A j \in Jobs : Knows(j)

\* isRunning keeps the jobs apart.
OneRuns ==
  /\ \A j \in Jobs : job[j].pc # "idle" => isRunning
  /\ \A i, j \in Jobs : job[i].pc # "idle" /\ job[j].pc # "idle" => i = j

\* The memory under a key: nothing in it is settled, and the last report is a part of
\* it or older than all of it.
Remembers(k) ==
  /\ TasksUnder(k) \subseteq solved /\ latest[k] \subseteq solved
  /\ TasksUnder(k) \cap settled = {}
  /\ latest[k] \subseteq TasksUnder(k) \/ latest[k] \cap TasksUnder(k) = {}

Memory == \A k \in Keys : Remembers(k)

\* What is on its way, and what has arrived.
Sent ==
  /\ \A i \in DOMAIN mempool : mempool[i].tasks \subseteq solved \ settled
  /\ Confirmed \subseteq solved /\ settled \subseteq mined

ServiceTyped ==
  /\ started \in BOOLEAN
  /\ elapsed \in Int /\ elapsed <= MaxElapsed
  /\ isRunning \in BOOLEAN
  /\ job \in [Jobs -> JobRecord]

WorldTyped ==
  /\ active \subseteq Keys
  /\ epoch \in Epochs
  /\ worked \subseteq Agents \X Epochs
  /\ mempool \in Seq(Report)
  /\ alive \subseteq Agents /\ fresh \subseteq Agents
  /\ contribution \in [Agents -> [Epochs -> SUBSET Tasks]]
  /\ faults \in 0..MaxFaults

TasksTyped ==
  /\ \E n \in 0..MaxTasks : solved = 1..n
  /\ agentTasks \in [Agents -> SUBSET Tasks] /\ latest \in [Keys -> SUBSET Tasks]
  /\ mined \subseteq Tasks /\ reverted \subseteq Tasks /\ late \subseteq Tasks
  /\ absent \subseteq Tasks /\ misspelt \subseteq Tasks /\ crashed \subseteq Tasks
  /\ settled \subseteq Tasks

Typed == ServiceTyped /\ WorldTyped /\ TasksTyped

RepInv ==
  /\ Typed
  /\ OneRuns
  /\ JobsKnow
  /\ Memory
  /\ Sent
  /\ LossIsExplained
  /\ RowsAreConfirmed

LEMMA SolvedTasks == ASSUME TasksTyped PROVE solved \subseteq Tasks
  BY BoundsAssumption DEF TasksTyped, Tasks

LEMMA InvHasTypes == RepInv => TypeOK
<1> SUFFICES ASSUME RepInv PROVE TypeOK
  OBVIOUS
<1>1. ServiceTyped /\ WorldTyped /\ TasksTyped /\ solved \subseteq Tasks
  BY SolvedTasks DEF RepInv, Typed
<1>2. \A j \in Jobs : job[j].pc \notin {"idle", "block"} => job[j].agent \in Keys
  BY <1>1 DEF RepInv, JobsKnow, Knows, AtWork, ServiceTyped, JobRecord, Stages
<1> QED
  BY <1>1, <1>2 DEF TypeOK, ServiceTyped, WorldTyped, TasksTyped, JobRecord

LEMMA InvSettled == RepInv => SettledNeverResent
  BY DEF RepInv, Sent, SettledNeverResent

LEMMA FaultType == ASSUME WorldTyped, Fault PROVE faults' \in 0..MaxFaults
  BY BoundsAssumption DEF Fault, WorldTyped

-----------------------------------------------------------------------------
\* An agent's two keys.
LEMMA KeysOf ==
  /\ \A a \in Agents :
       /\ SolverKey(a) \in Keys /\ NodeKey(a) \in Keys /\ AgentOf(SolverKey(a)) = a
       /\ TasksUnder(SolverKey(a)) = agentTasks[a]
  /\ \A k \in Keys :
       /\ AgentOf(k) \in Agents
       /\ TasksUnder(k) \in {{}, agentTasks[AgentOf(k)]}
<1>1. ASSUME NEW a \in Agents
      PROVE  /\ SolverKey(a) \in Keys /\ NodeKey(a) \in Keys /\ AgentOf(SolverKey(a)) = a
             /\ TasksUnder(SolverKey(a)) = agentTasks[a]
  <2>1. SolverKey(a) \in Keys /\ NodeKey(a) \in Keys /\ AgentOf(SolverKey(a)) = a
    BY DEF Keys, Spellings, SolverKey, NodeKey, AgentOf
  <2> QED
    BY <2>1 DEF TasksUnder
<1>2. ASSUME NEW k \in Keys
      PROVE  AgentOf(k) \in Agents /\ TasksUnder(k) \in {{}, agentTasks[AgentOf(k)]}
  <2>1. AgentOf(k) \in Agents
    BY DEF Keys, AgentOf
  <2> QED
    BY <2>1 DEF TasksUnder
<1> QED
  BY <1>1, <1>2

LEMMA SameUnder ==
  ASSUME UNCHANGED agentTasks PROVE \A k \in Keys : TasksUnder(k)' = TasksUnder(k)
  BY DEF TasksUnder

LEMMA NothingUnder ==
  ASSUME agentTasks' = [a \in Agents |-> {}] PROVE \A k \in Keys : TasksUnder(k)' = {}
  BY KeysOf DEF TasksUnder

LEMMA KnownKeys ==
  ASSUME NEW j \in Jobs, Knows(j), job[j] \in JobRecord
  PROVE  job[j].read \subseteq Keys /\ (job[j].pc \in AtWork => job[j].agent \in Keys)
  BY DEF Knows, JobRecord

\* What stays true when nothing of it changes, or more is known.
LEMMA SameMemory ==
  ASSUME Memory, UNCHANGED <<agentTasks, solved, latest, settled>> PROVE Memory'
  BY SameUnder DEF Memory, Remembers

LEMMA SameLoss ==
  ASSUME LossIsExplained, UNCHANGED <<agentTasks, solved>>,
         Confirmed \subseteq Confirmed', late \subseteq late',
         absent \subseteq absent', misspelt \subseteq misspelt', crashed \subseteq crashed'
  PROVE  LossIsExplained'
  BY DEF LossIsExplained, InMemory, Confirmed

LEMMA SameRows ==
  ASSUME RowsAreConfirmed, UNCHANGED contribution, Confirmed \subseteq Confirmed'
  PROVE  RowsAreConfirmed'
  BY DEF RowsAreConfirmed, Confirmed

LEMMA SameSent ==
  ASSUME Sent, UNCHANGED <<mempool, solved, mined, reverted, settled>> PROVE Sent'
  BY DEF Sent, Confirmed

LEMMA SameKnowledge ==
  ASSUME NEW j \in Jobs, Knows(j), job[j] \in JobRecord,
         UNCHANGED <<agentTasks, latest, mempool>>, job'[j] = job[j],
         Confirmed \subseteq Confirmed', late \subseteq late'
  PROVE  Knows(j)'
  BY SameUnder, KnownKeys DEF Knows, ReportOf, Confirmed, HasRead

\* A job at work is the only one.
LEMMA Alone ==
  ASSUME OneRuns, NEW j \in Jobs, job[j].pc # "idle"
  PROVE  \A i \in Jobs \ {j} : job[i].pc = "idle"
  BY DEF OneRuns

\* It goes on.
LEMMA JobMoves ==
  ASSUME job \in [Jobs -> JobRecord], OneRuns, JobsKnow,
         NEW j \in Jobs, job[j].pc # "idle",
         NEW r \in JobRecord, r.pc # "idle", job' = [job EXCEPT ![j] = r], UNCHANGED isRunning
  PROVE  /\ job' \in [Jobs -> JobRecord]
         /\ job'[j] = r
         /\ OneRuns'
         /\ Knows(j)' => JobsKnow'
<1>1. \A i \in Jobs \ {j} : job'[i] = job[i] /\ job'[i].pc = "idle"
  BY Alone
<1>2. job' \in [Jobs -> JobRecord] /\ job'[j] = r
  OBVIOUS
<1>3. OneRuns'
  BY <1>1, <1>2 DEF OneRuns
<1>4. \A i \in Jobs \ {j} : Knows(i)'
  BY <1>1 DEF JobsKnow, Knows, AtWork, HasRead
<1> QED
  BY <1>2, <1>3, <1>4 DEF JobsKnow

LEMMA IdleIsRecord == IdleJob \in JobRecord /\ IdleJob.pc = "idle" /\ IdleJob.read = {}
  BY BoundsAssumption DEF IdleJob, JobRecord, Stages, Epochs

\* It ends.
LEMMA JobEnds ==
  ASSUME job \in [Jobs -> JobRecord], OneRuns, JobsKnow,
         NEW j \in Jobs, job[j].pc # "idle", Finish(j)
  PROVE  /\ job' \in [Jobs -> JobRecord] /\ isRunning' \in BOOLEAN
         /\ OneRuns' /\ JobsKnow'
<1>1. job' \in [Jobs -> JobRecord] /\ isRunning' \in BOOLEAN
  BY IdleIsRecord DEF Finish
<1>2. \A i \in Jobs : job'[i].pc = "idle" /\ job'[i].read = {}
  BY IdleIsRecord, Alone DEF Finish, JobsKnow, Knows
<1> QED
  BY <1>1, <1>2 DEF OneRuns, JobsKnow, Knows, AtWork, HasRead

-----------------------------------------------------------------------------
LEMMA InvInit == Init => RepInv
<1> SUFFICES ASSUME Init PROVE RepInv
  OBVIOUS
<1>1. /\ job \in [Jobs -> JobRecord]
      /\ \A j \in Jobs : job[j].pc = "idle" /\ job[j].read = {}
      /\ isRunning \in BOOLEAN /\ started \in BOOLEAN
  BY IdleIsRecord DEF Init
<1>2. ServiceTyped
  <2>1. elapsed \in Int /\ elapsed <= MaxElapsed
    BY BoundsAssumption DEF Init
  <2> QED
    BY <1>1, <2>1 DEF ServiceTyped
<1>3. WorldTyped
  BY BoundsAssumption DEF Init, WorldTyped, Epochs
<1>4. TasksTyped
  <2>1. 0 \in 0..MaxTasks /\ solved = 1..0
    BY BoundsAssumption DEF Init
  <2> QED
    BY <2>1 DEF Init, TasksTyped
<1>5. OneRuns /\ JobsKnow
  BY <1>1 DEF OneRuns, JobsKnow, Knows, AtWork, HasRead
<1>6. Memory /\ Sent
  <2>1. \A k \in Keys : TasksUnder(k) = {}
    BY KeysOf DEF Init
  <2> QED
    BY <2>1 DEF Init, Memory, Remembers, Sent, Confirmed
<1>7. LossIsExplained /\ RowsAreConfirmed
  BY DEF Init, LossIsExplained, RowsAreConfirmed
<1> QED
  BY <1>2, <1>3, <1>4, <1>5, <1>6, <1>7 DEF RepInv, Typed

\* A new task is a new number.
LEMMA NextTask ==
  ASSUME TasksTyped, Cardinality(solved) < MaxTasks
  PROVE  /\ Cardinality(solved) + 1 \in Tasks \ solved
         /\ \E n \in 0..MaxTasks : solved \cup {Cardinality(solved) + 1} = 1..n
<1>1. PICK n \in 0..MaxTasks : solved = 1..n
  BY DEF TasksTyped
<1>2. Cardinality(solved) = n
  BY <1>1, FS_Interval
<1>3. n + 1 \in 0..MaxTasks /\ solved \cup {n + 1} = 1..(n + 1)
  BY <1>1, <1>2, BoundsAssumption
<1>4. n + 1 \in Tasks \ solved
  BY <1>1, <1>2, BoundsAssumption DEF Tasks
<1> QED
  BY <1>2, <1>3, <1>4

LEMMA RecordTaskStep == ASSUME RepInv, NEW a \in Agents, RecordTask(a) PROVE RepInv'
<1> DEFINE t == Cardinality(solved) + 1
<1>1. /\ solved' = solved \cup {t}
      /\ agentTasks' = [agentTasks EXCEPT ![a] = @ \cup {t}]
      /\ late' = IF \E j \in Jobs : SolverKey(a) \in job[j].read THEN late \cup {t} ELSE late
      /\ UNCHANGED <<service, active, chain, fresh, contribution, latest, mined, reverted,
                     absent, misspelt, crashed, settled, faults>>
  BY DEF RecordTask
<1>2. /\ t \in Tasks \ solved
      /\ \E n \in 0..MaxTasks : solved \cup {t} = 1..n
  BY NextTask DEF RepInv, Typed, RecordTask
<1> HIDE DEF t
<1>3. TasksTyped'
  BY <1>1, <1>2 DEF RepInv, Typed, TasksTyped
<1>4. ServiceTyped' /\ WorldTyped' /\ OneRuns'
  BY <1>1 DEF RepInv, Typed, ServiceTyped, WorldTyped, OneRuns, service, chain
<1>5. agentTasks \in [Agents -> SUBSET Tasks]
  BY DEF RepInv, Typed, TasksTyped
<1>6. /\ \A b \in Agents \ {a} : agentTasks'[b] = agentTasks[b]
      /\ agentTasks'[a] = agentTasks[a] \cup {t}
      /\ late \subseteq late'
      /\ \A j \in Jobs : SolverKey(a) \in job[j].read => t \in late'
  BY <1>1, <1>5
<1>7. \A k \in Keys : \/ TasksUnder(k)' = TasksUnder(k)
                      \/ k = SolverKey(a) /\ TasksUnder(k)' = TasksUnder(k) \cup {t}
  <2> SUFFICES ASSUME NEW k \in Keys
               PROVE  \/ TasksUnder(k)' = TasksUnder(k)
                      \/ k = SolverKey(a) /\ TasksUnder(k)' = TasksUnder(k) \cup {t}
    OBVIOUS
  <2>1. CASE k = SolverKey(AgentOf(k))
    BY <1>6, <2>1, KeysOf DEF TasksUnder
  <2>2. CASE k # SolverKey(AgentOf(k))
    BY <2>2 DEF TasksUnder
  <2> QED
    BY <2>1, <2>2
<1>8. JobsKnow'
  <2> SUFFICES ASSUME NEW j \in Jobs PROVE Knows(j)'
    BY DEF JobsKnow
  <2>1. /\ Knows(j) /\ job'[j] = job[j] /\ job[j] \in JobRecord
        /\ UNCHANGED <<mempool, mined, reverted, latest>>
    BY <1>1 DEF RepInv, Typed, ServiceTyped, JobsKnow, service, chain
  <2>2. \A k \in job[j].read : TasksUnder(k)' \subseteq TasksUnder(k) \cup late'
    BY <1>6, <1>7, <2>1, KnownKeys
  <2>3. \A k \in Keys : TasksUnder(k) \subseteq TasksUnder(k)'
    BY <1>7
  <2>4. job[j].read \subseteq Keys
    BY <2>1, KnownKeys
  <2> QED
    BY <1>6, <2>1, <2>2, <2>3, <2>4 DEF Knows, HasRead, Confirmed, ReportOf
<1>9. Memory'
  <2> SUFFICES ASSUME NEW k \in Keys PROVE Remembers(k)'
    BY DEF Memory
  <2>1. Remembers(k) /\ settled \subseteq solved /\ UNCHANGED <<latest, settled>>
    BY <1>1 DEF RepInv, Memory, Sent, Confirmed
  <2> QED
    BY <1>1, <1>2, <1>7, <2>1 DEF Remembers
<1>10. Sent'
  BY <1>1 DEF RepInv, Sent, Confirmed, chain
<1>11. LossIsExplained'
  BY <1>1, <1>6 DEF RepInv, LossIsExplained, InMemory
<1>12. RowsAreConfirmed'
  BY <1>1, SameRows DEF RepInv, Confirmed
<1> QED
  BY <1>3, <1>4, <1>8, <1>9, <1>10, <1>11, <1>12 DEF RepInv, Typed

\* The rest of the world touches neither the memory nor the jobs.
LEMMA WorldStep ==
  ASSUME RepInv, WorldTyped', UNCHANGED <<started, isRunning, job, agentTasks, mempool,
                                          contribution, history>>,
         elapsed' \in Int, elapsed' <= MaxElapsed
  PROVE  RepInv'
<1>1. ServiceTyped' /\ TasksTyped' /\ OneRuns'
  BY DEF RepInv, Typed, ServiceTyped, TasksTyped, OneRuns, history, fate
<1>2. JobsKnow'
  BY SameKnowledge DEF RepInv, Typed, ServiceTyped, JobsKnow, Confirmed, history, fate
<1>3. Memory' /\ Sent' /\ LossIsExplained' /\ RowsAreConfirmed'
  BY SameMemory, SameSent, SameLoss, SameRows DEF RepInv, Confirmed, history, fate
<1> QED
  BY <1>1, <1>2, <1>3 DEF RepInv, Typed

LEMMA ElapsedTyped == RepInv => elapsed \in Int /\ elapsed <= MaxElapsed /\ WorldTyped
  BY DEF RepInv, Typed, ServiceTyped

LEMMA ProcessTokensStep == ASSUME RepInv, NEW a \in Agents, ProcessTokens(a) PROVE RepInv'
  BY WorldStep, ElapsedTyped DEF ProcessTokens, WorldTyped, service

LEMMA HearStep == ASSUME RepInv, NEW k \in Listed, Hear(k) PROVE RepInv'
  BY WorldStep, ElapsedTyped, BoundsAssumption DEF Hear, WorldTyped, service, chain

LEMMA SilenceStep == ASSUME RepInv, NEW k \in Listed, Silence(k) PROVE RepInv'
  BY WorldStep, ElapsedTyped, FaultType DEF Silence, WorldTyped, service, chain

LEMMA AdvanceEpochStep == ASSUME RepInv, AdvanceEpoch PROVE RepInv'
<1>1. epoch + 1 \in Epochs
  BY BoundsAssumption, ElapsedTyped DEF AdvanceEpoch, WorldTyped, Epochs
<1> QED
  BY <1>1, WorldStep, ElapsedTyped DEF AdvanceEpoch, WorldTyped, service

LEMMA AdvanceBlockStep == ASSUME RepInv, AdvanceBlock PROVE RepInv'
<1>1. elapsed' \in Int /\ elapsed' <= MaxElapsed
  BY BoundsAssumption, ElapsedTyped DEF AdvanceBlock
<1>2. WorldTyped' /\ UNCHANGED <<started, isRunning, job, agentTasks, mempool,
                                 contribution, history>>
  BY ElapsedTyped DEF AdvanceBlock, WorldTyped, chain
<1> QED
  BY <1>1, <1>2, WorldStep

LEMMA HeartbeatTimeoutStep == ASSUME RepInv, NEW a \in Agents, HeartbeatTimeout(a) PROVE RepInv'
  BY WorldStep, ElapsedTyped DEF HeartbeatTimeout, WorldTyped, service

LEMMA RowStep ==
  ASSUME RepInv, NEW a \in Agents, TouchRow(a) \/ RowAges(a) PROVE RepInv'
  BY WorldStep, ElapsedTyped DEF TouchRow, RowAges, WorldTyped, service, chain

LEMMA SponsorHeartbeatStep == ASSUME RepInv, NEW a \in Agents, SponsorHeartbeat(a) PROVE RepInv'
  BY WorldStep, ElapsedTyped DEF SponsorHeartbeat, WorldTyped, service

LEMMA MineStep == ASSUME RepInv, Mine PROVE RepInv'
<1> DEFINE tx == mempool[1]
<1>1. /\ mempool \in Seq(Report) /\ mempool # <<>> /\ mempool' = Tail(mempool)
      /\ UNCHANGED <<service, agentTasks, active, epoch, worked, alive, fresh,
                     contribution,
                     solved, latest, late, absent, misspelt, crashed, settled>>
  BY DEF RepInv, Typed, WorldTyped, Mine
<1>2. /\ Len(mempool) \in Nat \ {0} /\ mempool' \in Seq(Report)
      /\ Len(mempool') = Len(mempool) - 1
      /\ \A i \in 1..Len(mempool') : mempool'[i] = mempool[i + 1]
      /\ DOMAIN mempool = 1..Len(mempool) /\ DOMAIN mempool' = 1..Len(mempool')
      /\ tx \in Report /\ Head(mempool) = tx
  BY <1>1
<1> HIDE DEF tx
<1>3. /\ mined \subseteq mined' /\ reverted \subseteq reverted'
      /\ mined' \cup reverted' = Confirmed \cup tx.tasks
      /\ faults' \in 0..MaxFaults
  BY <1>2, FaultType DEF RepInv, Typed, WorldTyped, Mine, Confirmed
<1>4. tx.tasks \subseteq solved \ settled
  BY <1>2 DEF RepInv, Sent, tx
<1>5. ServiceTyped' /\ OneRuns' /\ WorldTyped'
  BY <1>1, <1>2, <1>3 DEF RepInv, Typed, ServiceTyped, WorldTyped, OneRuns, service
<1>6. TasksTyped'
  <2>1. mined' \subseteq Tasks /\ reverted' \subseteq Tasks
    BY <1>3, <1>4, SolvedTasks DEF RepInv, Typed, TasksTyped, Confirmed
  <2> QED
    BY <1>1, <2>1 DEF RepInv, Typed, TasksTyped
<1>7. JobsKnow'
  <2> SUFFICES ASSUME NEW j \in Jobs PROVE Knows(j)'
    BY DEF JobsKnow
  <2>1. /\ Knows(j) /\ job'[j] = job[j] /\ job[j] \in JobRecord
        /\ UNCHANGED <<agentTasks, latest, late>>
    BY <1>1 DEF RepInv, Typed, ServiceTyped, JobsKnow, service
  <2>2. job[j].pc = "wait" =>
          \/ mempool' = <<>> /\ job[j].tasks \subseteq Confirmed'
          \/ mempool' # <<>> /\ mempool'[Len(mempool')] = ReportOf(j)
    <3> SUFFICES ASSUME job[j].pc = "wait", mempool[Len(mempool)] = ReportOf(j)
                 PROVE  \/ mempool' = <<>> /\ job[j].tasks \subseteq Confirmed'
                        \/ mempool' # <<>> /\ mempool'[Len(mempool')] = ReportOf(j)
      BY <1>1, <2>1 DEF Knows
    <3>1. CASE Len(mempool) = 1
      <4>1. mempool' = <<>> /\ tx = ReportOf(j)
        BY <1>1, <1>2, <3>1 DEF tx
      <4> QED
        BY <1>3, <4>1 DEF Confirmed, ReportOf
    <3>2. CASE Len(mempool) # 1
      <4>1. Len(mempool') \in 1..Len(mempool') /\ Len(mempool') + 1 = Len(mempool)
        BY <1>2, <3>2
      <4>2. mempool' # <<>>
        BY <1>2, <4>1
      <4> QED
        BY <1>2, <4>1, <4>2
    <3> QED
      BY <3>1, <3>2
  <2>3. job[j].pc \notin {"beat", "save"}
    BY <1>1, <2>1 DEF Knows
  <2> QED
    BY <1>3, <2>1, <2>2, <2>3, SameUnder, KnownKeys DEF Knows, HasRead, ReportOf, Confirmed
<1>8. Memory' /\ LossIsExplained' /\ RowsAreConfirmed'
  <2>1. Confirmed \subseteq Confirmed'
    BY <1>3 DEF Confirmed
  <2> QED
    BY <1>1, <2>1, SameMemory, SameLoss, SameRows DEF RepInv
<1>9. Sent'
  <2>1. \A i \in DOMAIN mempool' : mempool'[i].tasks \subseteq solved \ settled
    <3> SUFFICES ASSUME NEW i \in 1..Len(mempool')
                 PROVE  mempool'[i].tasks \subseteq solved \ settled
      BY <1>2
    <3>1. i + 1 \in 1..Len(mempool)
      BY <1>2
    <3> QED
      BY <1>2, <3>1 DEF RepInv, Sent
  <2> QED
    BY <1>1, <1>3, <1>4, <2>1 DEF RepInv, Sent, Confirmed
<1> QED
  BY <1>5, <1>6, <1>7, <1>8, <1>9 DEF RepInv, Typed

\* The process dies: what it remembered is lost with it.
LEMMA RestartStep == ASSUME RepInv, Restart PROVE RepInv'
<1>1. /\ \A j \in Jobs : job'[j].pc = "idle" /\ job'[j].read = {}
      /\ job' \in [Jobs -> JobRecord]
      /\ agentTasks' = [a \in Agents |-> {}]
      /\ UNCHANGED <<chain, fresh, contribution, solved, latest, mined, reverted, late, absent,
                     misspelt, settled>>
  BY IdleIsRecord DEF Restart
<1>2. Remembered \subseteq Tasks /\ agentTasks \in [Agents -> SUBSET Tasks]
  BY DEF RepInv, Typed, TasksTyped, Remembered
<1>3. ServiceTyped'
  <2>1. elapsed' \in Int /\ elapsed' <= MaxElapsed
    BY BoundsAssumption DEF Restart
  <2>2. started' \in BOOLEAN /\ isRunning' \in BOOLEAN
    BY DEF Restart
  <2> QED
    BY <1>1, <2>1, <2>2 DEF ServiceTyped
<1>4. WorldTyped'
  BY <1>1, FaultType DEF RepInv, Typed, WorldTyped, Restart, chain
<1>5. TasksTyped'
  BY <1>1, <1>2 DEF RepInv, Typed, TasksTyped, Restart
<1>6. OneRuns' /\ JobsKnow'
  BY <1>1 DEF OneRuns, JobsKnow, Knows, AtWork, HasRead
<1>7. Memory'
  BY <1>1, NothingUnder DEF RepInv, Memory, Remembers
<1>8. Sent' /\ RowsAreConfirmed'
  BY <1>1, SameSent, SameRows DEF RepInv, Confirmed, chain
<1>9. LossIsExplained'
  <2> SUFFICES ASSUME NEW t \in solved
               PROVE  t \in UNION {mined, reverted, late, absent, misspelt, crashed'}
    BY <1>1 DEF LossIsExplained
  <2>1. crashed' = crashed \cup Remembered
    BY DEF Restart
  <2>2. InMemory(t) => t \in Remembered
    BY DEF InMemory, Remembered
  <2> QED
    BY <2>1, <2>2 DEF RepInv, LossIsExplained
<1> QED
  BY <1>3, <1>4, <1>5, <1>6, <1>7, <1>8, <1>9 DEF RepInv, Typed

-----------------------------------------------------------------------------
\* The interval fires.
LEMMA TickStep == ASSUME RepInv, NEW j \in Jobs, Tick(j) PROVE RepInv'
<1>1. /\ \A i \in Jobs : job[i].pc = "idle" /\ job[i].read = {}
      /\ job \in [Jobs -> JobRecord]
  BY DEF RepInv, Typed, ServiceTyped, OneRuns, JobsKnow, Knows, Tick, MayStart
<1>2. /\ job' \in [Jobs -> JobRecord]
      /\ job'[j].pc = "block" /\ job'[j].read = {}
      /\ \A i \in Jobs \ {j} : job'[i] = job[i]
  <2>1. [job[j] EXCEPT !.pc = "block"] \in JobRecord
    BY <1>1 DEF JobRecord, Stages
  <2> QED
    BY <1>1, <2>1 DEF Tick, Goto, JobRecord
<1>3. JobsKnow'
  BY <1>1, <1>2 DEF JobsKnow, Knows, AtWork, HasRead
<1>4. OneRuns'
  <2>1. isRunning' = TRUE
    BY DEF Tick
  <2> QED
    BY <1>1, <1>2, <2>1 DEF OneRuns
<1>5. ServiceTyped'
  <2>1. elapsed' \in Int /\ elapsed' <= MaxElapsed
    BY ElapsedTyped DEF Tick
  <2>2. started' \in BOOLEAN /\ isRunning' \in BOOLEAN
    BY DEF RepInv, Typed, ServiceTyped, Tick
  <2> QED
    BY <1>2, <2>1, <2>2 DEF ServiceTyped
<1>6. WorldTyped' /\ TasksTyped'
  BY DEF RepInv, Typed, WorldTyped, TasksTyped, Tick, chain, history, fate
<1>7. Memory' /\ Sent' /\ LossIsExplained' /\ RowsAreConfirmed'
  BY SameMemory, SameSent, SameLoss, SameRows
     DEF RepInv, Tick, Confirmed, chain, history, fate
<1> QED
  BY <1>3, <1>4, <1>5, <1>6, <1>7 DEF RepInv, Typed

\* A step of a round that leaves the memory and the chain alone.
LEMMA RoundStep ==
  ASSUME RepInv, ServiceTyped', WorldTyped', OneRuns', JobsKnow',
         UNCHANGED <<agentTasks, mempool, contribution, history>>
  PROVE  RepInv'
<1>1. TasksTyped'
  BY DEF RepInv, Typed, TasksTyped, history, fate
<1>2. Memory' /\ Sent' /\ LossIsExplained' /\ RowsAreConfirmed'
  BY SameMemory, SameSent, SameLoss, SameRows DEF RepInv, Confirmed, history, fate
<1> QED
  BY <1>1, <1>2 DEF RepInv, Typed

LEMMA BlockEnds ==
  ASSUME RepInv, NEW j \in Jobs, job[j].pc # "idle", Finish(j), started' \in BOOLEAN,
         elapsed' \in Int, elapsed' <= MaxElapsed, faults' \in 0..MaxFaults,
         UNCHANGED <<agentTasks, active, chain, fresh, contribution, history>>
  PROVE  RepInv'
<1>1. job' \in [Jobs -> JobRecord] /\ isRunning' \in BOOLEAN /\ OneRuns' /\ JobsKnow'
  BY JobEnds DEF RepInv, Typed, ServiceTyped
<1>2. ServiceTyped'
  BY <1>1 DEF ServiceTyped
<1>3. WorldTyped' /\ UNCHANGED mempool
  BY DEF RepInv, Typed, WorldTyped, chain
<1> QED
  BY <1>1, <1>2, <1>3, RoundStep

LEMMA ReadBlockFailsStep == ASSUME RepInv, NEW j \in Jobs, ReadBlockFails(j) PROVE RepInv'
<1>1. elapsed' \in Int /\ elapsed' <= MaxElapsed /\ faults' \in 0..MaxFaults
  BY ElapsedTyped, FaultType DEF ReadBlockFails
<1>2. started' \in BOOLEAN
  BY DEF RepInv, Typed, ServiceTyped, ReadBlockFails
<1> QED
  BY <1>1, <1>2, BlockEnds DEF ReadBlockFails

LEMMA ReadBlockStep == ASSUME RepInv, NEW j \in Jobs, ReadBlock(j) PROVE RepInv'
<1> DEFINE r(a) == [[job[j] EXCEPT !.elapsed = elapsed, !.round = active]
                    EXCEPT !.pc = "epoch", !.agent = a, !.todo = active \ {a}]
<1>1. /\ job[j].pc = "block" /\ job \in [Jobs -> JobRecord] /\ Knows(j)
      /\ UNCHANGED <<agentTasks, active, chain, fresh, contribution, history, faults>>
  BY DEF RepInv, Typed, ServiceTyped, JobsKnow, ReadBlock
<1>2. started \in BOOLEAN /\ faults' \in 0..MaxFaults
  BY <1>1 DEF RepInv, Typed, ServiceTyped, WorldTyped
<1>3. 0 \in Int /\ 0 <= MaxElapsed
  BY BoundsAssumption
<1>4. CASE Finish(j) /\ started' \in BOOLEAN /\ (elapsed' = 0 \/ UNCHANGED elapsed)
  <2>1. elapsed' \in Int /\ elapsed' <= MaxElapsed
    BY <1>3, <1>4, ElapsedTyped
  <2> QED
    BY <1>1, <1>2, <1>4, <2>1, BlockEnds
<1>5. CASE /\ elapsed >= ReportBlocks
           /\ NextAgent(j, [job[j] EXCEPT !.elapsed = elapsed, !.round = active], active)
           /\ UNCHANGED <<started, elapsed, isRunning>>
  <2>1. PICK a \in active : job' = [job EXCEPT ![j] = r(a)]
    BY <1>5 DEF NextAgent
  <2>2. elapsed \in 0..MaxElapsed
    BY <1>5, ElapsedTyped, BoundsAssumption
  <2>3. active \subseteq Keys /\ job[j] \in JobRecord /\ job[j].read = {}
    BY <1>1 DEF RepInv, Typed, WorldTyped, Knows
  <2>4. /\ r(a) \in JobRecord /\ r(a).pc = "epoch" /\ r(a).agent = a
        /\ r(a).round = active /\ r(a).todo = active \ {a} /\ r(a).read = {}
    BY <2>2, <2>3 DEF JobRecord, Stages
  <2> HIDE DEF r
  <2>5. /\ job' \in [Jobs -> JobRecord] /\ job'[j] = r(a) /\ OneRuns'
        /\ Knows(j)' => JobsKnow'
    BY <1>1, <1>5, <2>1, <2>4, JobMoves DEF RepInv
  <2>6. Knows(j)'
    BY <2>3, <2>4, <2>5 DEF Knows, AtWork, HasRead
  <2>7. WorldTyped' /\ UNCHANGED mempool
    BY <1>1 DEF RepInv, Typed, WorldTyped, chain
  <2>8. ServiceTyped'
    BY <1>5, <2>5 DEF RepInv, Typed, ServiceTyped
  <2> QED
    BY <1>1, <2>5, <2>6, <2>7, <2>8, RoundStep
<1> QED
  BY <1>2, <1>4, <1>5 DEF ReadBlock

-----------------------------------------------------------------------------
\* The end of an agent's report, good or bad.  The memory is cleared only when every
\* report of the round has succeeded: then each of its agents has been read and
\* all that was read of it is on chain.
LEMMA GoesOn ==
  ASSUME RepInv, NEW j \in Jobs, job[j].pc \in AtWork, NEW ok \in BOOLEAN,
         ok => job[j].pc = "save",
         NextAgent(j, [job[j] EXCEPT !.failed = (job[j].failed \/ ~ok)], job[j].todo),
         UNCHANGED <<isRunning, agentTasks, latest, mempool, mined, reverted, late>>
  PROVE  job' \in [Jobs -> JobRecord] /\ OneRuns' /\ JobsKnow'
<1> DEFINE failed == job[j].failed \/ ~ok
           r(a) == [[job[j] EXCEPT !.failed = failed]
                    EXCEPT !.pc = "epoch", !.agent = a, !.todo = job[j].todo \ {a}]
<1>1. PICK a \in job[j].todo : job' = [job EXCEPT ![j] = r(a)]
  BY DEF NextAgent
<1>2. /\ job[j] \in JobRecord /\ job \in [Jobs -> JobRecord] /\ job[j].pc # "idle"
      /\ Knows(j)
  BY DEF RepInv, Typed, ServiceTyped, JobsKnow, AtWork
<1>3. /\ r(a) \in JobRecord /\ r(a).pc = "epoch" /\ r(a).agent = a /\ a \in Keys
      /\ r(a).round = job[j].round /\ r(a).todo = job[j].todo \ {a}
      /\ r(a).read = job[j].read /\ r(a).failed = failed
  BY <1>1, <1>2 DEF JobRecord, Stages
<1>4. /\ job' \in [Jobs -> JobRecord] /\ job'[j] = r(a) /\ OneRuns'
      /\ Knows(j)' => JobsKnow'
  <2> HIDE DEF r
  <2> QED
    BY <1>1, <1>2, <1>3, JobMoves DEF RepInv
<1>5. ~failed =>
        /\ job[j].round \subseteq job[j].read \cup (job[j].todo \ {a}) \cup {a}
        /\ \A b \in job[j].read \ {a} : TasksUnder(b) \subseteq Confirmed \cup late
  <2> SUFFICES ASSUME ~job[j].failed, job[j].pc = "save"
               PROVE  /\ job[j].round \subseteq job[j].read \cup (job[j].todo \ {a}) \cup {a}
                      /\ \A b \in job[j].read : TasksUnder(b) \subseteq Confirmed \cup late
    OBVIOUS
  <2> QED
    BY <1>2 DEF Knows, AtWork, HasRead
<1>6. Knows(j)'
  <2> HIDE DEF r, failed
  <2> QED
    BY <1>2, <1>3, <1>4, <1>5, SameUnder, KnownKeys DEF Knows, AtWork, HasRead, Confirmed
<1> QED
  BY <1>4, <1>6

LEMMA RoundEnds ==
  ASSUME RepInv, NEW j \in Jobs, job[j].pc = "save", job[j].todo = {}, ~job[j].failed,
         ResetEpochData(j), UNCHANGED <<mempool, solved, latest, mined, reverted, late, crashed>>
  PROVE  Memory' /\ Sent' /\ LossIsExplained' /\ TasksTyped'
<1>1. /\ agentTasks' = [a \in Agents |-> {}]
      /\ absent' = absent \cup UNION {agentTasks[a] : a \in Missing(j)}
      /\ misspelt' = misspelt \cup UNION {agentTasks[a] : a \in NodeOnly(j)}
      /\ settled' = settled \cup mined
  BY DEF ResetEpochData
<1>2. Knows(j) /\ mempool = <<>> /\ agentTasks \in [Agents -> SUBSET Tasks]
  BY DEF RepInv, Typed, TasksTyped, JobsKnow, Knows
<1>3. \A k \in job[j].round : TasksUnder(k) \subseteq Confirmed \cup late
  BY <1>2 DEF Knows, AtWork, HasRead
<1>4. Memory'
  BY <1>1, NothingUnder DEF RepInv, Memory, Remembers
<1>5. Sent'
  BY <1>1, <1>2 DEF RepInv, Sent, Confirmed
<1>6. TasksTyped'
  <2>1. UNION {agentTasks[a] : a \in Missing(j)} \subseteq Tasks
    BY <1>2 DEF Missing
  <2>2. UNION {agentTasks[a] : a \in NodeOnly(j)} \subseteq Tasks
    BY <1>2 DEF NodeOnly
  <2>3. absent' \subseteq Tasks /\ misspelt' \subseteq Tasks
    BY <1>1, <2>1, <2>2 DEF RepInv, Typed, TasksTyped
  <2> QED
    BY <1>1, <2>3 DEF RepInv, Typed, TasksTyped
<1>7. LossIsExplained'
  <2> SUFFICES ASSUME NEW t \in solved
               PROVE  t \in UNION {mined, reverted, late, absent', misspelt', crashed}
    BY DEF LossIsExplained
  <2>1. ASSUME NEW a \in Agents, t \in agentTasks[a]
        PROVE  t \in mined \cup reverted \cup late \cup absent' \cup misspelt'
    <3>1. CASE SolverKey(a) \in job[j].round
      BY <1>3, <2>1, <3>1, KeysOf DEF Confirmed
    <3>2. CASE a \in NodeOnly(j) \/ a \in Missing(j)
      BY <1>1, <2>1, <3>2
    <3> QED
      BY <3>1, <3>2 DEF NodeOnly, Missing
  <2> QED
    BY <1>1, <2>1 DEF RepInv, LossIsExplained, InMemory
<1> QED
  BY <1>4, <1>5, <1>6, <1>7

LEMMA EndReportStep ==
  ASSUME RepInv, NEW j \in Jobs, job[j].pc \in AtWork, NEW ok \in BOOLEAN,
         ok => job[j].pc = "save", EndReport(j, ok), WorldTyped', RowsAreConfirmed',
         UNCHANGED <<started, mempool, solved, latest, mined, reverted, late, crashed>>
  PROVE  RepInv'
<1> DEFINE failed == job[j].failed \/ ~ok
<1>1. job[j] \in JobRecord /\ job \in [Jobs -> JobRecord] /\ job[j].pc # "idle"
  BY DEF RepInv, Typed, ServiceTyped, AtWork
<1>2. started' \in BOOLEAN /\ isRunning \in BOOLEAN
  BY DEF RepInv, Typed, ServiceTyped
<1>3. CASE UNCHANGED <<agentTasks, absent, misspelt, settled>>
  <2>1. Memory' /\ Sent' /\ LossIsExplained' /\ TasksTyped'
    BY <1>3, SameMemory, SameSent, SameLoss DEF RepInv, Typed, TasksTyped, Confirmed
  <2>2. CASE job[j].todo # {}
    <3>1. /\ NextAgent(j, [job[j] EXCEPT !.failed = failed], job[j].todo)
          /\ UNCHANGED <<elapsed, isRunning>>
      BY <2>2 DEF EndReport
    <3>2. job' \in [Jobs -> JobRecord] /\ OneRuns' /\ JobsKnow'
      BY <1>3, <3>1, GoesOn
    <3>3. elapsed' \in Int /\ elapsed' <= MaxElapsed
      BY <3>1, ElapsedTyped
    <3> QED
      BY <1>2, <2>1, <3>1, <3>2, <3>3 DEF RepInv, Typed, ServiceTyped
  <2>3. CASE job[j].todo = {}
    <3>1. elapsed' = elapsed - job[j].elapsed /\ Finish(j)
      BY <2>3 DEF EndReport, SinceThisReport
    <3>2. elapsed' \in Int /\ elapsed' <= MaxElapsed
      BY <1>1, <3>1, ElapsedTyped, BoundsAssumption DEF JobRecord
    <3>3. job' \in [Jobs -> JobRecord] /\ isRunning' \in BOOLEAN /\ OneRuns' /\ JobsKnow'
      BY <1>1, <3>1, JobEnds DEF RepInv
    <3> QED
      BY <1>2, <2>1, <3>2, <3>3 DEF RepInv, Typed, ServiceTyped
  <2> QED
    BY <2>2, <2>3
<1>4. CASE job[j].todo = {} /\ ~failed /\ ResetEpochData(j)
  <2>1. elapsed' = elapsed - job[j].elapsed /\ Finish(j)
    BY <1>4 DEF EndReport, SinceThisReport
  <2>2. elapsed' \in Int /\ elapsed' <= MaxElapsed
    BY <1>1, <2>1, ElapsedTyped, BoundsAssumption DEF JobRecord
  <2>3. job' \in [Jobs -> JobRecord] /\ isRunning' \in BOOLEAN /\ OneRuns' /\ JobsKnow'
    BY <1>1, <2>1, JobEnds DEF RepInv
  <2>4. Memory' /\ Sent' /\ LossIsExplained' /\ TasksTyped'
    BY <1>4, RoundEnds
  <2> QED
    BY <1>2, <2>2, <2>3, <2>4 DEF RepInv, Typed, ServiceTyped
<1> QED
  BY <1>3, <1>4 DEF EndReport, MayClear

-----------------------------------------------------------------------------
\* The report goes on to its next stage: nothing is cleared.
LEMMA StageStep ==
  ASSUME RepInv, NEW j \in Jobs, job[j].pc # "idle",
         NEW r \in JobRecord, r.pc # "idle", job' = [job EXCEPT ![j] = r],
         UNCHANGED <<started, elapsed, isRunning, agentTasks, solved, fate>>,
         latest' \in [Keys -> SUBSET Tasks],
         WorldTyped', Memory', Sent', RowsAreConfirmed',
         job'[j] = r => Knows(j)'
  PROVE  RepInv'
<1>1. job' \in [Jobs -> JobRecord] /\ OneRuns' /\ JobsKnow'
  BY JobMoves DEF RepInv, Typed, ServiceTyped
<1>2. ServiceTyped'
  BY <1>1 DEF RepInv, Typed, ServiceTyped
<1>3. TasksTyped' /\ LossIsExplained'
  BY SameLoss DEF RepInv, Typed, TasksTyped, Confirmed, fate
<1> QED
  BY <1>1, <1>2, <1>3 DEF RepInv, Typed

LEMMA ReadEpochAndTasksStep == ASSUME RepInv, NEW j \in Jobs, ReadEpochAndTasks(j) PROVE RepInv'
<1> DEFINE a == job[j].agent
           r == [job[j] EXCEPT !.pc = "stats", !.epoch = epoch, !.tasks = TasksUnder(a),
                               !.read = job[j].read \cup {a}]
<1>1. /\ job[j].pc = "epoch"
      /\ UNCHANGED <<started, active, chain, fresh, contribution, solved, latest, mined,
                     reverted, late, crashed>>
  BY DEF ReadEpochAndTasks
<1>2. /\ job[j] \in JobRecord /\ job \in [Jobs -> JobRecord] /\ Knows(j)
      /\ a \in Keys
  BY <1>1 DEF RepInv, Typed, ServiceTyped, JobsKnow, Knows, AtWork
<1>3. WorldTyped' /\ RowsAreConfirmed'
  <2>1. faults' \in 0..MaxFaults
    BY FaultType DEF RepInv, Typed, WorldTyped, ReadEpochAndTasks
  <2> QED
    BY <1>1, <2>1, SameRows DEF RepInv, Typed, WorldTyped, Confirmed, chain
<1>4. CASE EndReport(j, FALSE)
  BY <1>1, <1>3, <1>4, EndReportStep DEF AtWork, chain
<1>5. CASE job' = [job EXCEPT ![j] = r]
           /\ UNCHANGED <<elapsed, isRunning, agentTasks, absent, misspelt, settled>>
  <2>1. epoch \in Epochs /\ TasksUnder(a) \subseteq Tasks
    <3>1. agentTasks \in [Agents -> SUBSET Tasks] /\ epoch \in Epochs
      BY DEF RepInv, Typed, WorldTyped, TasksTyped
    <3>2. AgentOf(a) \in Agents /\ TasksUnder(a) \in {{}, agentTasks[AgentOf(a)]}
      BY <1>2, KeysOf
    <3> HIDE DEF a
    <3> QED
      BY <3>1, <3>2
  <2>2. /\ r \in JobRecord /\ r.pc = "stats" /\ r.agent = a /\ r.tasks = TasksUnder(a)
        /\ r.read = job[j].read \cup {a} /\ r.round = job[j].round
        /\ r.todo = job[j].todo /\ r.failed = job[j].failed
    BY <1>2, <2>1 DEF JobRecord, Stages
  <2>3. Remembers(a)
    BY <1>2 DEF RepInv, Memory
  <2>4. job'[j] = r => Knows(j)'
    <3> HIDE DEF r
    <3> QED
      BY <1>1, <1>2, <1>5, <2>2, <2>3, SameUnder, KnownKeys
         DEF Knows, Remembers, AtWork, HasRead, Confirmed
  <2>5. Memory' /\ Sent' /\ latest' \in [Keys -> SUBSET Tasks]
    BY <1>1, <1>5, SameMemory, SameSent DEF RepInv, Typed, TasksTyped, chain
  <2> HIDE DEF r
  <2> QED
    BY <1>1, <1>3, <1>5, <2>2, <2>4, <2>5, StageStep DEF fate
<1> QED
  BY <1>4, <1>5 DEF ReadEpochAndTasks

LEMMA ReadStatsStep == ASSUME RepInv, NEW j \in Jobs, ReadStats(j) PROVE RepInv'
<1> DEFINE r(tokens) == [job[j] EXCEPT !.pc = "send",
                                       !.hasWork = HasWork(job[j].tasks, tokens)]
<1>1. /\ job[j].pc = "stats"
      /\ UNCHANGED <<started, elapsed, isRunning, agentTasks, active, chain, fresh,
                     contribution, history>>
  BY DEF ReadStats
<1>2. job[j] \in JobRecord /\ job \in [Jobs -> JobRecord] /\ Knows(j)
  BY DEF RepInv, Typed, ServiceTyped, JobsKnow
<1>3. PICK tokens \in BOOLEAN : job' = [job EXCEPT ![j] = r(tokens)]
  <2> DEFINE knows == <<AgentOf(job[j].agent), epoch>> \in worked
  <2>1. CASE job' = [job EXCEPT ![j] = r(knows)]
    <3>1. knows \in BOOLEAN
      OBVIOUS
    <3> HIDE DEF knows, r
    <3> QED
      BY <2>1, <3>1
  <2>2. CASE job' = [job EXCEPT ![j] = r(FALSE)]
    BY <2>2
  <2> QED
    BY <2>1, <2>2 DEF ReadStats
<1>4. /\ r(tokens) \in JobRecord /\ r(tokens).pc = "send"
      /\ r(tokens).agent = job[j].agent /\ r(tokens).tasks = job[j].tasks
      /\ r(tokens).read = job[j].read /\ r(tokens).round = job[j].round
      /\ r(tokens).todo = job[j].todo /\ r(tokens).failed = job[j].failed
  BY <1>2 DEF JobRecord, Stages, HasWork
<1>5. WorldTyped' /\ RowsAreConfirmed'
  <2>1. faults' \in 0..MaxFaults
    BY FaultType DEF RepInv, Typed, WorldTyped, ReadStats
  <2> QED
    BY <1>1, <2>1, SameRows
       DEF RepInv, Typed, WorldTyped, Confirmed, chain, history, fate
<1> HIDE DEF r
<1>6. job'[j] = r(tokens) => Knows(j)'
  BY <1>1, <1>2, <1>4, SameUnder, KnownKeys DEF Knows, AtWork, HasRead, Confirmed, history, fate
<1>7. Memory' /\ Sent' /\ latest' \in [Keys -> SUBSET Tasks]
  BY <1>1, SameMemory, SameSent DEF RepInv, Typed, TasksTyped, chain, history, fate
<1> QED
  BY <1>1, <1>3, <1>4, <1>5, <1>6, <1>7, StageStep DEF history

\* A stage set and nothing else.
LEMMA GotoRecord ==
  ASSUME job \in [Jobs -> JobRecord], NEW j \in Jobs, NEW stage \in Stages, Goto(j, stage)
  PROVE  \E r \in JobRecord :
           /\ job' = [job EXCEPT ![j] = r]
           /\ r.pc = stage /\ r.agent = job[j].agent /\ r.tasks = job[j].tasks
           /\ r.read = job[j].read /\ r.round = job[j].round
           /\ r.todo = job[j].todo /\ r.failed = job[j].failed
<1> DEFINE r == [job[j] EXCEPT !.pc = stage]
<1>1. job' = [job EXCEPT ![j] = r]
  BY DEF Goto
<1>2. /\ r \in JobRecord /\ r.pc = stage /\ r.agent = job[j].agent /\ r.tasks = job[j].tasks
      /\ r.read = job[j].read /\ r.round = job[j].round
      /\ r.todo = job[j].todo /\ r.failed = job[j].failed
  BY DEF JobRecord
<1> QED
  BY <1>1, <1>2

LEMMA SubmitReportStep == ASSUME RepInv, NEW j \in Jobs, SubmitReport(j) PROVE RepInv'
<1> DEFINE a == job[j].agent
<1>1. /\ job[j].pc = "send"
      /\ UNCHANGED <<started, active, epoch, worked, alive, fresh,
                     contribution, solved,
                     mined, reverted, late, crashed>>
  BY DEF SubmitReport
<1>2. /\ job[j] \in JobRecord /\ job \in [Jobs -> JobRecord] /\ Knows(j)
      /\ a \in Keys /\ mempool \in Seq(Report) /\ ReportOf(j) \in Report
  BY <1>1, KeysOf DEF RepInv, Typed, ServiceTyped, WorldTyped, JobsKnow, Knows, AtWork,
                      JobRecord, ReportOf, Report
<1>3. faults' \in 0..MaxFaults /\ RowsAreConfirmed'
  BY <1>1, FaultType, SameRows DEF RepInv, Typed, WorldTyped, SubmitReport, Confirmed
<1>4. CASE EndReport(j, FALSE) /\ UNCHANGED <<mempool, latest>>
  <2>1. WorldTyped'
    BY <1>1, <1>3, <1>4 DEF RepInv, Typed, WorldTyped
  <2> QED
    BY <1>1, <1>3, <1>4, <2>1, EndReportStep DEF AtWork
<1>5. CASE /\ mempool' = Append(mempool, ReportOf(j))
           /\ latest' = [latest EXCEPT ![a] = job[j].tasks]
           /\ Continue(j, "wait")
  <2>1. UNCHANGED <<elapsed, isRunning, agentTasks, absent, misspelt, settled>> /\ Goto(j, "wait")
    BY <1>5 DEF Continue
  <2>2. PICK r \in JobRecord :
           /\ job' = [job EXCEPT ![j] = r]
           /\ r.pc = "wait" /\ r.agent = a /\ r.tasks = job[j].tasks
           /\ r.read = job[j].read /\ r.round = job[j].round
           /\ r.todo = job[j].todo /\ r.failed = job[j].failed
    BY <1>2, <2>1, GotoRecord DEF Stages
  <2>3. /\ mempool' \in Seq(Report) /\ mempool' # <<>>
        /\ Len(mempool') = Len(mempool) + 1 /\ mempool'[Len(mempool')] = ReportOf(j)
        /\ DOMAIN mempool' = 1..(Len(mempool) + 1) /\ DOMAIN mempool = 1..Len(mempool)
        /\ \A i \in 1..Len(mempool) : mempool'[i] = mempool[i]
    BY <1>2, <1>5
  <2>4. /\ latest' \in [Keys -> SUBSET Tasks] /\ latest'[a] = job[j].tasks
        /\ \A b \in Keys \ {a} : latest'[b] = latest[b]
    BY <1>2, <1>5 DEF RepInv, Typed, TasksTyped, JobRecord
  <2>5. /\ job[j].tasks \subseteq TasksUnder(a)
        /\ TasksUnder(a) \subseteq solved /\ TasksUnder(a) \cap settled = {}
    BY <1>1, <1>2 DEF RepInv, Memory, Remembers, Knows, HasRead, AtWork
  <2>6. WorldTyped'
    BY <1>1, <1>3, <2>3 DEF RepInv, Typed, WorldTyped
  <2>7. Memory'
    <3> SUFFICES ASSUME NEW b \in Keys PROVE Remembers(b)'
      BY DEF Memory
    <3>1. Remembers(b) /\ TasksUnder(b)' = TasksUnder(b) /\ UNCHANGED <<settled, solved>>
      BY <1>1, <2>1, SameUnder DEF RepInv, Memory
    <3>2. CASE b = a
      BY <2>4, <2>5, <3>1, <3>2 DEF Remembers
    <3>3. CASE b # a
      BY <2>4, <3>1, <3>3 DEF Remembers
    <3> QED
      BY <3>2, <3>3
  <2>8. Sent'
    <3>1. ASSUME NEW i \in DOMAIN mempool'
          PROVE  mempool'[i].tasks \subseteq solved \ settled
      <4>1. CASE i \in 1..Len(mempool)
        BY <2>3, <4>1 DEF RepInv, Sent
      <4>2. CASE i = Len(mempool')
        BY <2>3, <2>5, <4>2 DEF ReportOf
      <4> QED
        BY <1>2, <2>3, <4>1, <4>2
    <3> QED
      BY <1>1, <2>1, <3>1 DEF RepInv, Sent, Confirmed
  <2>9. job'[j] = r => Knows(j)'
    BY <1>1, <1>2, <2>1, <2>2, <2>3, <2>4, SameUnder, KnownKeys
       DEF Knows, AtWork, HasRead, Confirmed, ReportOf
  <2> QED
    BY <1>1, <1>3, <2>1, <2>2, <2>4, <2>6, <2>7, <2>8, <2>9, StageStep DEF fate
<1> QED
  BY <1>4, <1>5 DEF SubmitReport

LEMMA AwaitReceiptStep == ASSUME RepInv, NEW j \in Jobs, AwaitReceipt(j) PROVE RepInv'
<1> DEFINE stage == IF job[j].hasWork THEN "beat" ELSE "save"
<1>1. /\ job[j].pc = "wait"
      /\ UNCHANGED <<started, active, chain, fresh, contribution, solved, latest, mined,
                     reverted, late, crashed>>
  BY DEF AwaitReceipt
<1>2. job \in [Jobs -> JobRecord] /\ job[j] \in JobRecord /\ Knows(j) /\ mempool \in Seq(Report)
  BY DEF RepInv, Typed, ServiceTyped, WorldTyped, JobsKnow
<1>3. WorldTyped' /\ RowsAreConfirmed'
  <2>1. faults' \in 0..MaxFaults
    BY FaultType DEF RepInv, Typed, WorldTyped, AwaitReceipt
  <2> QED
    BY <1>1, <2>1, SameRows DEF RepInv, Typed, WorldTyped, Confirmed, chain
<1>4. CASE EndReport(j, FALSE)
  BY <1>1, <1>3, <1>4, EndReportStep DEF AtWork, chain
<1>5. CASE Receipt(ReportOf(j)) /\ Continue(j, stage)
  <2>1. mempool = <<>> /\ job[j].tasks \subseteq Confirmed
    <3>1. mempool # <<>> => Len(mempool) \in DOMAIN mempool
      BY <1>2
    <3> QED
      BY <1>1, <1>2, <1>5, <3>1 DEF Knows, Receipt, Pending
  <2>2. UNCHANGED <<elapsed, isRunning, agentTasks, absent, misspelt, settled>> /\ Goto(j, stage)
    BY <1>5 DEF Continue
  <2>3. PICK r \in JobRecord :
           /\ job' = [job EXCEPT ![j] = r]
           /\ r.pc = stage /\ r.agent = job[j].agent /\ r.tasks = job[j].tasks
           /\ r.read = job[j].read /\ r.round = job[j].round
           /\ r.todo = job[j].todo /\ r.failed = job[j].failed
    <3>1. stage \in Stages
      BY DEF Stages
    <3> HIDE DEF stage
    <3> QED
      BY <1>2, <2>2, <3>1, GotoRecord
  <2>4. r.pc \in {"beat", "save"}
    BY <2>3
  <2>5. job'[j] = r => Knows(j)'
    BY <1>1, <1>2, <2>1, <2>2, <2>3, <2>4, SameUnder, KnownKeys
       DEF Knows, AtWork, HasRead, Confirmed, chain
  <2>6. Memory' /\ Sent' /\ latest' \in [Keys -> SUBSET Tasks]
    BY <1>1, <2>2, SameMemory, SameSent DEF RepInv, Typed, TasksTyped, chain
  <2> QED
    BY <1>1, <1>3, <2>2, <2>3, <2>4, <2>5, <2>6, StageStep DEF fate
<1> QED
  BY <1>4, <1>5 DEF AwaitReceipt

LEMMA SendHeartbeatStep == ASSUME RepInv, NEW j \in Jobs, SendHeartbeat(j) PROVE RepInv'
<1>1. /\ job[j].pc = "beat" /\ Goto(j, "save")
      /\ UNCHANGED <<started, elapsed, isRunning, agentTasks, active, epoch, worked,
                     mempool, fresh, contribution, history>>
  BY DEF SendHeartbeat
<1>2. /\ job \in [Jobs -> JobRecord] /\ job[j] \in JobRecord /\ Knows(j)
      /\ job[j].agent \in Keys
  BY <1>1 DEF RepInv, Typed, ServiceTyped, JobsKnow, Knows, AtWork
<1>3. WorldTyped' /\ RowsAreConfirmed'
  <2>1. faults' \in 0..MaxFaults /\ alive' \subseteq Agents
    BY <1>2, FaultType, KeysOf DEF RepInv, Typed, WorldTyped, SendHeartbeat
  <2> QED
    BY <1>1, <2>1, SameRows DEF RepInv, Typed, WorldTyped, Confirmed, history, fate
<1>4. PICK r \in JobRecord :
         /\ job' = [job EXCEPT ![j] = r]
         /\ r.pc = "save" /\ r.agent = job[j].agent /\ r.tasks = job[j].tasks
         /\ r.read = job[j].read /\ r.round = job[j].round
         /\ r.todo = job[j].todo /\ r.failed = job[j].failed
  BY <1>1, <1>2, GotoRecord DEF Stages
<1>5. job'[j] = r => Knows(j)'
  BY <1>1, <1>2, <1>4, SameUnder, KnownKeys DEF Knows, AtWork, HasRead, Confirmed, history, fate
<1>6. Memory' /\ Sent' /\ latest' \in [Keys -> SUBSET Tasks]
  BY <1>1, SameMemory, SameSent DEF RepInv, Typed, TasksTyped, history, fate
<1> QED
  BY <1>1, <1>3, <1>4, <1>5, <1>6, StageStep DEF history

\* The row is saved after the receipt: its tasks are on chain, or their report failed there.
LEMMA SaveContributionStep ==
  ASSUME RepInv, NEW j \in Jobs, SaveContributionToDB(j) PROVE RepInv'
<1>1. /\ job[j].pc = "save" /\ EndReport(j, TRUE)
      /\ UNCHANGED <<started, active, chain, fresh, solved, latest, mined, reverted, late,
                     crashed>>
  BY DEF SaveContributionToDB
<1>2. /\ job[j] \in JobRecord /\ Knows(j)
      /\ job[j].agent \in Keys /\ AgentOf(job[j].agent) \in Agents
      /\ contribution \in [Agents -> [Epochs -> SUBSET Tasks]]
      /\ job[j].tasks \subseteq Confirmed
  BY <1>1, KeysOf DEF RepInv, Typed, ServiceTyped, WorldTyped, JobsKnow, Knows, AtWork
<1>3. CASE UNCHANGED contribution
  <2>1. WorldTyped'
    <3>1. faults' \in 0..MaxFaults
      BY FaultType DEF RepInv, Typed, WorldTyped, SaveContributionToDB
    <3> QED
      BY <1>1, <1>3, <3>1 DEF RepInv, Typed, WorldTyped, chain
  <2>2. RowsAreConfirmed'
    BY <1>1, <1>3, SameRows DEF RepInv, Confirmed
  <2> QED
    BY <1>1, <2>1, <2>2, EndReportStep DEF AtWork, chain
<1>4. CASE /\ contribution' =
                [contribution EXCEPT ![AgentOf(job[j].agent)][job[j].epoch] = job[j].tasks]
           /\ UNCHANGED faults
  <2>1. job[j].epoch \in Epochs /\ job[j].tasks \in SUBSET Tasks
    BY <1>2 DEF JobRecord
  <2>2. contribution' \in [Agents -> [Epochs -> SUBSET Tasks]]
    BY <1>2, <1>4, <2>1
  <2>3. WorldTyped'
    BY <1>1, <1>4, <2>2 DEF RepInv, Typed, WorldTyped, chain
  <2>4. RowsAreConfirmed'
    <3> SUFFICES ASSUME NEW a \in Agents, NEW e \in Epochs
                 PROVE  contribution'[a][e] \subseteq Confirmed
      BY <1>1 DEF RowsAreConfirmed, Confirmed
    <3>1. contribution[a][e] \subseteq Confirmed
      BY DEF RepInv, RowsAreConfirmed, Confirmed
    <3>2. contribution'[a][e] = contribution[a][e] \/ contribution'[a][e] = job[j].tasks
      BY <1>2, <1>4
    <3> QED
      BY <1>2, <3>1, <3>2
  <2> QED
    BY <1>1, <2>3, <2>4, EndReportStep DEF AtWork, chain
<1> QED
  BY <1>3, <1>4 DEF SaveContributionToDB

-----------------------------------------------------------------------------
LEMMA InvStep == RepInv /\ [Next]_vars => RepInv'
<1> SUFFICES ASSUME RepInv, [Next]_vars PROVE RepInv'
  OBVIOUS
<1>1. ASSUME NEW j \in Jobs, Tick(j) \/ ReadBlock(j) \/ ReadBlockFails(j) PROVE RepInv'
  BY <1>1, TickStep, ReadBlockStep, ReadBlockFailsStep
<1>2. ASSUME NEW j \in Jobs, ReadEpochAndTasks(j) \/ ReadStats(j) \/ SubmitReport(j)
      PROVE  RepInv'
  BY <1>2, ReadEpochAndTasksStep, ReadStatsStep, SubmitReportStep
<1>3. ASSUME NEW j \in Jobs, AwaitReceipt(j) \/ SendHeartbeat(j) \/ SaveContributionToDB(j)
      PROVE  RepInv'
  BY <1>3, AwaitReceiptStep, SendHeartbeatStep, SaveContributionStep
<1>4. ASSUME NEW a \in Agents,
             \/ RecordTask(a) \/ ProcessTokens(a) \/ HeartbeatTimeout(a)
             \/ TouchRow(a) \/ RowAges(a) \/ SponsorHeartbeat(a)
      PROVE  RepInv'
  BY <1>4, RecordTaskStep, ProcessTokensStep, HeartbeatTimeoutStep, RowStep,
     SponsorHeartbeatStep
<1>5. ASSUME NEW k \in Listed, Hear(k) \/ Silence(k) PROVE RepInv'
  BY <1>5, HearStep, SilenceStep
<1>6. CASE AdvanceEpoch \/ AdvanceBlock \/ Mine \/ Restart
  BY <1>6, AdvanceEpochStep, AdvanceBlockStep, MineStep, RestartStep
<1>7. CASE UNCHANGED vars
  <2>1. elapsed' \in Int /\ elapsed' <= MaxElapsed
    BY <1>7, ElapsedTyped DEF vars, service
  <2>2. WorldTyped'
    BY <1>7, ElapsedTyped DEF vars, chain, WorldTyped
  <2> QED
    BY <1>7, <2>1, <2>2, WorldStep DEF vars, service, chain
<1> QED
  BY <1>1, <1>2, <1>3, <1>4, <1>5, <1>6, <1>7 DEF Next, Work

LEMMA Invariance == Spec => []RepInv
<1>1. Init => RepInv
  BY InvInit
<1>2. RepInv /\ [Next]_vars => RepInv'
  BY InvStep
<1> QED
  BY <1>1, <1>2, PTL DEF Spec

\* A stale snapshot never follows a newer one: only SubmitReport sends, and what the
\* job holds contains the last report or is younger than all of it.
LEMMA StepReports ==
  RepInv /\ [Next]_vars =>
    \A a \in Keys : latest[a] \subseteq latest'[a] \/ latest[a] \cap latest'[a] = {}
<1> SUFFICES ASSUME RepInv, [Next]_vars, NEW a \in Keys, latest'[a] # latest[a]
             PROVE  latest[a] \subseteq latest'[a] \/ latest[a] \cap latest'[a] = {}
  OBVIOUS
<1>1. ASSUME NEW j \in Jobs, SubmitReport(j)
      PROVE  latest[a] \subseteq latest'[a] \/ latest[a] \cap latest'[a] = {}
  <2>1. latest \in [Keys -> SUBSET Tasks]
    BY DEF RepInv, Typed, TasksTyped
  <2>2. /\ job[j].pc = "send" /\ Knows(j)
        /\ latest' = [latest EXCEPT ![job[j].agent] = job[j].tasks]
    BY <1>1 DEF RepInv, JobsKnow, SubmitReport
  <2>3. job[j].agent = a /\ latest'[a] = job[j].tasks
    BY <2>1, <2>2
  <2> QED
    BY <2>2, <2>3 DEF Knows, HasRead, AtWork
<1>2. ASSUME NEW j \in Jobs,
             \/ Tick(j) \/ ReadBlock(j) \/ ReadBlockFails(j) \/ ReadEpochAndTasks(j)
             \/ ReadStats(j) \/ AwaitReceipt(j) \/ SendHeartbeat(j)
             \/ SaveContributionToDB(j)
      PROVE  UNCHANGED latest
  BY <1>2 DEF Tick, ReadBlock, ReadBlockFails, ReadEpochAndTasks, ReadStats,
              AwaitReceipt, SendHeartbeat, SaveContributionToDB, history
<1>3. ASSUME \/ \E b \in Agents : \/ RecordTask(b) \/ ProcessTokens(b) \/ HeartbeatTimeout(b)
                                  \/ TouchRow(b) \/ RowAges(b) \/ SponsorHeartbeat(b)
             \/ \E k \in Listed : Hear(k) \/ Silence(k)
      PROVE  UNCHANGED latest
  BY <1>3 DEF RecordTask, ProcessTokens, Hear, Silence, HeartbeatTimeout, TouchRow, RowAges,
              SponsorHeartbeat, history
<1>4. CASE AdvanceEpoch \/ AdvanceBlock \/ Mine \/ Restart \/ UNCHANGED vars
  BY <1>4 DEF AdvanceEpoch, AdvanceBlock, Mine, Restart, vars, history
<1> QED
  BY <1>1, <1>2, <1>3, <1>4 DEF Next, Work

-----------------------------------------------------------------------------
\* checkAndReportContributions and the task memory keep their shapes.
THEOREM ReporterTypeCorrect == Spec => []TypeOK
  BY Invariance, InvHasTypes, PTL

\* A recorded task is in memory or was lost in one of the five ways.
THEOREM NoOtherLoss == Spec => []LossIsExplained
<1>1. RepInv => LossIsExplained
  BY DEF RepInv
<1> QED
  BY <1>1, Invariance, PTL

\* What was on chain when resetEpochData ran is not on its way again.
THEOREM SettledStaysSettled == Spec => []SettledNeverResent
  BY Invariance, InvSettled, PTL

\* saveContributionToDB writes no task whose report has not left the mempool.
THEOREM RowsConfirmed == Spec => []RowsAreConfirmed
<1>1. RepInv => RowsAreConfirmed
  BY DEF RepInv
<1> QED
  BY <1>1, Invariance, PTL

\* The reports under a key, one after the other, grow or start anew.
THEOREM ReportsFollow == Spec => ReportsGrow
<1>1. RepInv /\ [Next]_vars =>
        [\A k \in Keys :
           \/ latest[k] \subseteq latest'[k]
           \/ latest[k] \cap latest'[k] = {}]_vars
  BY StepReports
<1> QED
  BY <1>1, Invariance, PTL DEF Spec, ReportsGrow, Keys, Spellings

-----------------------------------------------------------------------------
\* The flag is set only while an invocation is at work, which will clear it.
FlagIsHeld == isRunning => \E j \in Jobs : job[j].pc # "idle"

\* A job that goes on to another stage, or to another agent, still holds the flag.
LEMMA GoesOnHeld ==
  ASSUME RepInv, NEW j \in Jobs, NEW stage \in Stages \ {"idle"}, Goto(j, stage)
  PROVE  FlagIsHeld'
<1>1. job'[j].pc = stage
  BY DEF RepInv, Typed, ServiceTyped, JobRecord, Goto
<1> QED
  BY <1>1 DEF FlagIsHeld

LEMMA NextAgentHeld ==
  ASSUME RepInv, NEW j \in Jobs, NEW r \in JobRecord, NEW todo \in SUBSET Keys,
         NextAgent(j, r, todo)
  PROVE  FlagIsHeld'
<1>1. job'[j].pc = "epoch"
  BY DEF RepInv, Typed, ServiceTyped, JobRecord, NextAgent
<1> QED
  BY <1>1 DEF FlagIsHeld

LEMMA FinishHeld == ASSUME NEW j \in Jobs, Finish(j) PROVE FlagIsHeld'
  BY DEF Finish, FlagIsHeld

LEMMA EndReportHeld ==
  ASSUME RepInv, NEW j \in Jobs, NEW ok \in BOOLEAN, EndReport(j, ok)
  PROVE  FlagIsHeld'
<1>1. job[j] \in JobRecord
  BY DEF RepInv, Typed, ServiceTyped
<1>2. CASE job[j].todo # {}
  <2>1. PICK failed \in BOOLEAN : NextAgent(j, [job[j] EXCEPT !.failed = failed], job[j].todo)
    BY <1>1, <1>2 DEF EndReport, JobRecord
  <2>2. [job[j] EXCEPT !.failed = failed] \in JobRecord /\ job[j].todo \in SUBSET Keys
    BY <1>1 DEF JobRecord
  <2> QED
    BY <2>1, <2>2, NextAgentHeld
<1>3. CASE job[j].todo = {}
  BY <1>3, FinishHeld DEF EndReport
<1> QED
  BY <1>2, <1>3

LEMMA FlagStep ==
  ASSUME RepInv, FlagIsHeld, Next
  PROVE  FlagIsHeld'
<1>1. ASSUME UNCHANGED <<isRunning, job>> PROVE FlagIsHeld'
  BY <1>1 DEF FlagIsHeld
<1>2. CASE \/ \E a \in Agents : \/ RecordTask(a) \/ ProcessTokens(a) \/ HeartbeatTimeout(a)
                                \/ TouchRow(a) \/ RowAges(a) \/ SponsorHeartbeat(a)
           \/ \E k \in Listed : Hear(k) \/ Silence(k)
           \/ AdvanceEpoch \/ AdvanceBlock \/ Mine
  BY <1>1, <1>2 DEF RecordTask, ProcessTokens, Hear, Silence, HeartbeatTimeout,
     TouchRow, RowAges, SponsorHeartbeat, AdvanceEpoch, AdvanceBlock, Mine, service
<1>3. CASE Restart
  BY <1>3 DEF Restart, FlagIsHeld
<1>4. ASSUME NEW j \in Jobs, Tick(j) PROVE FlagIsHeld'
  BY <1>4, GoesOnHeld DEF Tick, Stages
<1>5. ASSUME NEW j \in Jobs, ReadBlock(j) PROVE FlagIsHeld'
  <2>1. CASE Finish(j)
    BY <2>1, FinishHeld
  <2>2. CASE NextAgent(j, [job[j] EXCEPT !.elapsed = elapsed, !.round = active], active)
    <3>1. job'[j].pc = "epoch"
      BY <2>2 DEF NextAgent, RepInv, Typed, ServiceTyped, JobRecord
    <3> QED
      BY <3>1 DEF FlagIsHeld
  <2> QED
    BY <1>5, <2>1, <2>2 DEF ReadBlock
<1>6. ASSUME NEW j \in Jobs, ReadBlockFails(j) PROVE FlagIsHeld'
  BY <1>6, FinishHeld DEF ReadBlockFails
<1>7. ASSUME NEW j \in Jobs, ReadEpochAndTasks(j) PROVE FlagIsHeld'
  <2>1. CASE EndReport(j, FALSE)
    BY <2>1, EndReportHeld
  <2>2. CASE ~EndReport(j, FALSE)
    <3>1. job[j] \in JobRecord /\ job \in [Jobs -> JobRecord]
      BY DEF RepInv, Typed, ServiceTyped
    <3>2. job' = [job EXCEPT ![j] =
                   [@ EXCEPT !.pc = "stats", !.epoch = epoch,
                             !.tasks = TasksUnder(job[j].agent),
                             !.read = job[j].read \cup {job[j].agent}]]
      BY <1>7, <2>2, Zenon DEF ReadEpochAndTasks
    <3>3. job'[j].pc = "stats"
      BY <3>1, <3>2 DEF JobRecord
    <3> QED
      BY <3>3 DEF FlagIsHeld
  <2> QED
    BY <2>1, <2>2
<1>8. ASSUME NEW j \in Jobs, ReadStats(j) PROVE FlagIsHeld'
  <2>1. job[j] \in JobRecord /\ job \in [Jobs -> JobRecord]
    BY DEF RepInv, Typed, ServiceTyped
  <2>2. PICK w : job' = [job EXCEPT ![j] = [@ EXCEPT !.pc = "send", !.hasWork = w]]
    BY <1>8, Zenon DEF ReadStats
  <2>3. job'[j].pc = "send"
    BY <2>1, <2>2 DEF JobRecord
  <2> QED
    BY <2>3 DEF FlagIsHeld
<1>9. ASSUME NEW j \in Jobs, SubmitReport(j) \/ AwaitReceipt(j) PROVE FlagIsHeld'
  <2>1. CASE EndReport(j, FALSE)
    BY <2>1, EndReportHeld
  <2>2. CASE ~EndReport(j, FALSE)
    <3>1. PICK stage \in Stages \ {"idle"} : Goto(j, stage)
      BY <1>9, <2>2 DEF SubmitReport, AwaitReceipt, Continue, Stages
    <3> QED
      BY <3>1, GoesOnHeld
  <2> QED
    BY <2>1, <2>2
<1>10. ASSUME NEW j \in Jobs, SendHeartbeat(j) PROVE FlagIsHeld'
  BY <1>10, GoesOnHeld DEF SendHeartbeat, Stages
<1>11. ASSUME NEW j \in Jobs, SaveContributionToDB(j) PROVE FlagIsHeld'
  BY <1>11, EndReportHeld DEF SaveContributionToDB
<1> QED
  BY <1>2, <1>3, <1>4, <1>5, <1>6, <1>7, <1>8, <1>9, <1>10, <1>11 DEF Next, Work

\* The job never locks itself out (checkAndReportContributions and its finally): whatever
\* call fails for whichever agent, and however invocations overlap, isRunning is set only
\* while one of them is at work, and never while two are.
THEOREM FlagNeverStuck ==
  Spec => [](/\ isRunning <=> \E j \in Jobs : job[j].pc # "idle"
             /\ \A i, j \in Jobs : job[i].pc # "idle" /\ job[j].pc # "idle" => i = j)
<1>1. Init => FlagIsHeld
  BY DEF Init, FlagIsHeld
<1>2. RepInv /\ FlagIsHeld /\ [Next]_vars => FlagIsHeld'
  BY FlagStep DEF vars, service, FlagIsHeld
<1>3. RepInv /\ FlagIsHeld =>
        /\ isRunning <=> \E j \in Jobs : job[j].pc # "idle"
        /\ \A i, j \in Jobs : job[i].pc # "idle" /\ job[j].pc # "idle" => i = j
  BY DEF RepInv, OneRuns, FlagIsHeld
<1> QED
  BY <1>1, <1>2, <1>3, Invariance, PTL DEF Spec

=============================================================================

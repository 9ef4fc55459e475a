# A verification project for plumise-oracle

The oracle of the Plumise network is one NestJS process.  It takes usage reports
and registrations from inference agents over HTTP, keeps them in a database, and
sends contributions, heartbeats and epoch distributions to the `RewardPool`
contract, which pays the agents.  What matters is that nobody is paid for work
not done, that no work is lost, and that every epoch is paid once.  The hard part
is that every operation is a chain of awaits (RPC calls, queries, receipts)
between which other requests, intervals and chain events run, and that half of
the state lives in `Map`s a restart empties.

This directory holds TLA+ models of that code, the TLC runs that check them on
small instances, and TLAPS proofs for all instances.  Paths below are relative to
the repository's `src/`.

## Inventory

| Part | State it keeps | Operations | Talks to |
| --- | --- | --- | --- |
| `MetricsService` | three Maps (last tokens, requests, timestamp of a wallet), table `inference_metrics` | `recordMetrics`, `onModuleInit` | NodesService, ProofService, ScorerService, pipeline table, contract epoch |
| `NodesService` | table `agent_nodes`, Map of registration times | register, sponsor, `ensureNodeRegistered`, `updateNodeMetricReport`, `markInactiveNodes`, `updateNodeScore`, checks of a report | chain, MetricsService, ReporterService, MonitorService |
| `ProofService` | table `inference_proofs` | `saveProof`, verification against the metrics | metrics table |
| `ScorerService` | Maps of tasks and uptimes | `recordTask`, `recordUptime`, `getAgentScore`, `resetEpochData` | called by challenge, metrics, reporter |
| `ReporterService` | `lastReportBlock`, `isRunning`, table `contributions` | the report interval and its round over the agents | scorer, monitor, contract |
| `DistributorService` | `lastCheckedEpoch`, `isRunning` | the distribution interval | contract, SyncService |
| `SyncService` | tables `agents`, `epochs`, `contributions`, `network_stats` | `syncEpoch`, `syncAgents`, `ensurePrecompileAgent`, `initialSync` | contract |
| `MonitorService` | Map of agents | merge of heartbeats, timeouts, sponsored claims | contract, NodesService, SyncService |
| `ChallengeService` | current challenge, table `challenges` | create, expire, event listeners | contract, scorer |
| `PipelineService` | table `pipeline_assignments` | register, ready, `assignLayers`, `removeStaleNodes` | cluster, gateway |
| `ClusterService` | Maps of clusters and of offline members; the cluster columns of `pipeline_assignments` | `rebalanceClusters`, `formClusters`, `getNodeAssignment` | PipelineService's table, `agent_nodes` |
| `ModelRegistryService` | models and hashes | create, update, add hash | - |
| `WatcherService` | flag `isWatching`, the subscription, table `agents` | block listener with reconnects, one handler per precompile | chain, SyncService |
| `ChainService`, `ApiController`, bootstrap | - | RPC client, queries, wiring | - |

What makes each part correct, and what is hard about it:

* **MetricsService.** Agents send cumulative counters; the oracle credits
  differences and takes a smaller counter for a reset.  Credit must never exceed
  the work done, nor fall short of a saved report, although reports are lost,
  repeated and reordered, agents reset, saves fail and the process dies between
  any two awaits.  Two reports of one wallet may be in flight together.
* **ReporterService and ScorerService.** A round reads the tasks of one agent
  after another, with transactions in between, and then clears the memory of
  all.  Tasks must be neither lost nor sent twice, and no failed call may cost a
  task.
* **DistributorService and SyncService.** Each epoch is paid once, after its end,
  after its rewards are synced, although receipts come late, intervals overlap
  and the process restarts; the tables must not claim more than the contract.
* **NodesService, PipelineService, ClusterService.** Rows are read, changed and
  saved whole with awaits in between, so that one operation may undo another;
  the split of a model's layers must cover every layer once.
* **MonitorService, WatcherService, SyncService.** Four writers share the rows of
  `agents`.  Blocks are missed while a subscription is down and handled twice when
  two are alive; placeholders are saved over rows that came about meanwhile; views
  merged from two sources disagree; transactions are sent by the agent or for it.  A
  registered agent must not be missing without a reason, and its row must come to
  show what the chain has of it.
* **ChallengeService.** Events are missed while a subscription is down.

`PROJECT.json` lists the hazards one by one, each at its line, with the
properties that watch it or the reason why none does yet.

## The modules

### MetricsService (`src/modules/metrics/metrics.service.ts`)

One in-flight HTTP request is a handler `h \in Handlers`; `req[h]` says where it
stands, and each action is the code between two awaits of `recordMetrics`:

| Action | Code |
| --- | --- |
| `Admit`, `Reject` | `ensureNodeRegistered`, the token limit, the timestamp guard |
| `ReadEpoch`, `ReadRow` | `getCurrentEpoch`, `findOne` |
| `Accumulate` | reset detection, deltas, the three Maps |
| `Save`, `SaveFails` | `metricsRepo.save`; the INSERT meets the unique key on (wallet, epoch) |
| `UpdateNodeMetricReport`, `TouchAssignment` | the node, then the pipeline row and the uptime, each with its own failure |
| `SaveProof`, `VerifyProof`, `MarkVerified`, `Answer` | `saveProof` for each proof of the report: the insert, the check against the row, the mark |
| `Restart`, `RestartUnrestored` | the process dies; `onModuleInit`, or its catch |

`tracked` is the three Maps together (they are written in one step), `row` the
metrics table.  The agents sign reports into `sent`, from where any report is
delivered at any time and any number of times.  `work` and `credited`, `booked`
and `forgotten` are history: what was really done, and what the oracle credited.

`UsageLedger` is the abstract promise: a report is credited at most once, in the
order of the timestamps, never beyond the work done when it was signed.
`MetricsService` is checked to implement it (`ImplementsLedger`, with `signed` a
projection of `sent` and `lost` the wallets a restart forgot).  `MetricsInvariant`
states the inductive invariant; `MetricsService_proofs` proves it, the refinement, and
what holds of restarts and of proofs.

A report carries a list of proofs, and nothing relates what they claim to its counters:
`proof.service.ts:87` is what turns a greater claim down.  `ProofsSound` is what that
check and the loop around it give: a verified proof fits the row of its agent, every
stored proof is of a saved report, and none is stored twice, though its report may be
delivered again after a crash in the middle of the loop.  It says nothing of the *sum*:
the check looks at one proof at a time, so the verified tokens of an epoch may exceed
its metrics, which `scorer.service.ts:169` and `PROOF_INTEGRATION.md` count with.
`ProofLists` bounds the lists a report may carry, `MaxProven` the reports that do; the
lists of the runs hold claims within and beyond the row, and a dummy.

Abstracted: the data of latency, uptime and token rates; the signature check (only
signed reports exist) and its 60 s window (any report may be redelivered, which
includes all the window lets through); the save of a row is atomic, as no other
writer of it exists but another handler; an unregistered wallet's rejection
changes nothing; the status `slashed` is left out.  A save of the dying process
that commits after the new process has read the table is not modelled.

### ContributionReporter (`reporter.service.ts`, `scorer.service.ts`)

An invocation of the interval is a job `j \in Jobs` (two may exist, which is what
`isRunning` is for).  `ReadBlock` is `checkAndReportContributions`, the next five
actions the awaits of `reportAgentContribution`, `EndReport` the loop of
`reportAllContributions` with `resetEpochData` at its end.  `RecordTask` is the
contract's event, `Hear` and `Silence` change `getActiveAgents`.  The contract is
external: transactions are mined in the order they were sent, or revert.

The Maps are keyed by strings and an agent has two, its `SolverKey` and its `NodeKey`:
the contract's event and the agent registry spell addresses with a checksum
(`challenge.service.ts:70`, `monitor.service.ts:41`), the node table has them in lower
case (`monitor.service.ts:51-64`).  The round goes through the keys of the monitor's
Map, so an agent known both ways is reported twice, and `TasksUnder` finds tasks under
the `SolverKey` only (`scorer.service.ts:127`).  `Listed` bounds the keys the monitor may
list.  The chain and the tables do not tell the spellings apart.

Two services keep an agent alive on the chain.  `SendHeartbeat` is the reporter's own,
for an agent that has worked; `SponsorHeartbeat` is `sendSponsoredHeartbeats` of
`PipelineService` (`pipeline.service.ts:483-514`), for every agent with a pipeline row
touched in the last ten minutes (`fresh`), whether it has worked or not.  Any usage
report touches the row (`metrics.service.ts:208`).  `IdleAgentsFade` is about both
senders: an agent without work whose row is no longer touched falls silent.  One whose
usage reports go on without new tokens is kept alive, whatever the comment at
`reporter.service.ts:137` says of idle agents.

The histories say what became of a task: `mined`, `reverted`, `late` (recorded
after the round had read its agent), `absent` (its agent was not in the round),
`misspelt` (its agent was there under the `NodeKey` only), `crashed` and `settled` (on
chain when the memory was cleared).  `LossIsExplained` says that there is no sixth way.
Three of the ways are the code's own: a report that reverts has a receipt and counts as
a success (`reporter.service.ts:133`; the comment at `:73` says that tasks are cleared
"if ALL reports succeeded"), tasks solved behind the round's back are cleared at its
end, and so are those of an agent the round knows from the node table only: its report
says zero tasks, succeeds, and the memory is cleared.  Where no agent registry is
configured every agent is of this kind, and no task ever reaches the contract.

All faults share one budget, `MaxFaults`; `MaxTasks`, `MaxJobs`, `MaxEvents`,
`MaxElapsed` and `MaxEpoch` bound the rest.

Abstracted: blocks are counted since the last report only; agents are visited in
any order; the rows of `sendSponsoredHeartbeats` are read anew for each agent (in the
code once, seconds before the last of them); the uptimes and the score written to the node are left out, since
nothing here reads them; the nonces of transactions, which all services share,
are not modelled.

### Distributor (`distributor.service.ts`, `sync.service.ts`)

A job again is one invocation of the interval.  `ReadEpoch` is
`checkAndDistributeRewards`, the next six actions `distributeEpochRewards` (each
failure goes to its catch, which is why `Conclude` advances `lastCheckedEpoch`
all the same), and the last four the two `syncEpoch` calls, each a read and a
save.  `Mine` and `RivalDistributes` (anybody may have the contract pay an epoch)
are external.  `synced` holds the epochs whose `syncRewards` was mined with whatever
status, since the code awaits the receipt and does not look at it
(`distributor.service.ts:83`).

`outrun` holds the epochs whose successor ended before the job had checked them,
`attempted` those `distributeEpochRewards` was called for.  `OnlyOutrunSkipped` says
that of the epochs that end while the job is watching only the outrun ones are
passed over; that these are, and that an attempt that failed is not repeated, is
what the code does (`distributor.service.ts:45-47`).

Abstracted: the copy of the contributions is one step that succeeds or fails; the
reads of one `syncEpoch` are one read; a failed read and a failed write of the
same copy have the same effect.  `lastCheckedEpoch = 0` stands for "not checked
yet" as it does in the code, so epoch 0 needs no case of its own.

### PipelineService and LayerSplit (`pipeline.service.ts`)

One model's rows of `pipeline_assignments`.  A request in flight, a registration
or a readiness, and the removal job are the processes; each has a stage, the
message it works on, the entity it holds between read and save, and, inside
`assignLayers`, the rows still to be saved.

| Action | Code |
| --- | --- |
| `SignRegistration`, `SignReady`, `Silence`, `Touch` | the nodes; the usage report that touches `updatedAt` |
| `Admit` | the guard on the timestamp, at the start of `registerNode` and `markReady` |
| `FindRow`, `SaveRow` | `findOne` with all that goes before it; the save, which inserts or writes the row whole |
| `FindDuplicate` | the retry after "Duplicate entry" |
| `ReadActive`, `SaveShare` | `assignLayers`: the read with the split, then one save per node |
| `Answer` | the last read, and the write of the timestamp Map |
| `FindStale`, `DeleteStale` | `removeStaleNodes` |
| `Restart` | the process dies, the Maps are empty |

`LayerSplit` is the proportional split as a function.  `Store` is what
`Repository.save` does: it writes every column of the entity over whatever the row
has become, inserts it again if the row is gone, and leaves `updatedAt` when
nothing differs.  `disturbed` and `settled` are histories which the properties use
to say when they promise something.  `assignLayers` visits the nodes in the order of
their age (`ByAge`); of nodes of one age any may come first, as the query leaves it.

Abstracted: endpoints, devices and benchmarks; VRAM or RAM is a weight; the chain
calls before the first read are part of it, and may fail with it; signatures (only
signed messages exist) and the 60 s window.  The gateway's events and `getTopology`
change nothing.  Division in floating point may turn an exact half down, the model
rounds it up.

### ClusterService (`cluster.service.ts`)

The clusters of one model on one LAN, over the table they share with PipelineService,
which knows nothing of clusters.  An invocation of the cron job is a job
`j \in Jobs`; two exist when a run outlasts its interval, which nothing in the code
prevents.  (The job's pattern, `*/120` in the field of seconds, fires at second 0
of every minute: one unit of time is a minute.)

| Action | Code |
| --- | --- |
| `Join`, `Leave`, `Tick` | the nodes and the clock |
| `ReadNodes` | the queries of `formClustersForModel` |
| `Decide` | `findExistingCluster`, `shouldReformCluster` with its marks, the choice of the fastest nodes with enough memory |
| `Upsert` | one `upsertClusterAssignment`; after the last one, the entry in the Map |
| `Fail` | a read or save that throws: `formClusters` catches it, and the run is over |
| `ReadRow`, `FindDuplicate` | `registerNode` or `markReady` reads the row it will save; a registration that cannot insert reads again |
| `RemoveRows` | the delete of `removeStaleNodes`, of members' rows too; it goes on to `assignLayers` |
| `ReadActive` | `assignLayers` reads the recent rows and splits the layers over them, clusters or not |
| `SaveRow`, `GiveUp` | one save of an entity read before, cluster columns and all; an error, or nothing to do |
| `Restart` | the process dies; the Maps are empty, the rows stay |

`Portion`, `Capped` and `LayersUpTo` are the split of the layers by speed with the
cap by memory, as functions (`LayerSplit` has the rounding).  Nothing is ever
removed from the Map of clusters and `findExistingCluster` answers the oldest entry,
so the model keeps the oldest and the newest.  `Peers` is what `getNodeAssignment`
tells a coordinator.  `Selections` are the fastest nodes in the order of their speed, as
many as the memory takes; of nodes of one speed any may come first.

The operations of PipelineService are the variable `pipe`: what is still to be saved, and
the entities as they were read.  Its guards, failures and other columns are in
`PipelineService`; here stands what it does to the columns of a cluster.  After a removal
or a registration `assignLayers` gives the members of a cluster shares by VRAM or RAM
instead of speed, beyond the cap by memory and beside the shares it has not come to;
and a registration or a readiness may put back columns that a formation has replaced
since.  So no row is safe, and what can be promised is that ClusterService's own work is
right wherever it was the last to change a row: `rewritten` remembers the nodes of which
PipelineService was.  `SharesFit` is stated for the others, `RememberedIsWhole` for
clusters with no such member (other nodes' stale copies are not exempted: they must not
bring anybody into the cluster), and `ReplacedInTheEnd` for all.

Three facts of the code shape the properties.  What the cap takes from the last
member is given to nobody, so `RememberedIsWhole` allows a gap at the end.  Marks of
offline members are never cleared.  Only the oldest entry is asked whether it lacks
a member, so `ReplacedInTheEnd` speaks of that one.

Abstracted: `getAvailableMemory` answers the same for every node and less than any
model needs, so a lone node never gets a cluster and `ensureStandaloneAssignment`
is not reached; the ports and addresses; the reads of a run that come before its
first decision are one step; a row without a cluster is like no row, its shares being
PipelineService's matter; the capacity a node registers is a constant.  Several models share no rows (a node has one row for
each), and several LANs no clusters.

### NodesService (`nodes.service.ts`, with `monitor.service.ts` and the callers)

The rows of `agent_nodes`, and what four kinds of operation do to them await by
await.  A request in flight (a registration or a usage report) and the reporter's
round are the processes; each holds the entity it read until it saves it whole.

| Action | Code |
| --- | --- |
| `Admit`, `CheckChain`, `Receipt`, `SaveNode` | `registerNode`, with `isAgentRegisteredOnChain` and `sponsorAgentRegistration` |
| `Mine`, `MineOrphan` | the precompile 0x21; a transaction whose request was refused may still be mined |
| `StartReport`, `InsertNode`, `FindReporter`, `SaveReport` | `ensureNodeRegistered` and `updateNodeMetricReport`, as `recordMetrics` calls them |
| `StartRound`, `FindScored`, `SaveScore` | `updateNodeScore`, for the agents `getActiveAgents` lists |
| `Refresh` | `monitorAgents` with `getActiveNodes` and `detectInactiveAgents` |
| `MarkInactive` | `markInactiveNodes`, one statement |
| `SignRegistration`, `Silence`, `Tick`, `Restart` | the nodes, the clock, the process |

Time is counted in units of five minutes, which no request outlasts: a node is
inactive at age 2 (`HEARTBEAT_TIMEOUT_MS`, ten minutes), an agent is off the list at
age 1, and no registration signed before a tick is accepted after it (its window is
a minute).  A row's endpoint and capabilities are the number of the registration
they came from, 0 for the defaults of `ensureNodeRegistered`.

Whether a deployment names an `AgentRegistry` contract is the constant
`RegistryConfigured`.  Without one `isAgentRegisteredOnChain` answers yes to every
wallet (`nodes.service.ts:73-76`; the same in `pipeline.service.ts`), nothing is ever
sponsored, and whoever signs gets a row; `RowsOnlyForAgents` is therefore a claim about
deployments that configure the contract, which is the one the run has.  The other
properties do not depend on it, and their theorems hold for both.

`settled` is the history that says when `RegistrationKept` promises something: from a
registration saved with nothing else in flight for its node, until two of its
registrations are in flight at once, two operations hold its row at once, or a
restart forgets a registration that can be delivered again.  In each of those cases
the code really lets the older data win.

Abstracted: the score and the benchmark; the status `slashed`, which nobody writes;
`updateNodeHeartbeat`, which nobody calls; signatures.

### AgentsTable (`watcher.service.ts`, `monitor.service.ts`, `sync.service.ts`)

The rows of table `agents` and their four writers.  A heartbeat is a number that
grows with each heartbeat of its source.

| Action | Code |
| --- | --- |
| `Register`, `Heartbeat`, `VerifyInference` | transactions to the precompiles, of the agent or sponsored by the oracle, delivered to every subscription that is alive |
| `ContractHeartbeat`, `NodeHeartbeat` | the registry contract and the node table |
| `InitialSync` | the agents' part of `initialSync` |
| `ReadContract`, `ReadNodes` | `monitorAgents`: the Map takes the contract's agents, then the active nodes |
| `SyncAgents` | `syncAgents`, one save; a failed one ends it |
| `SubscriptionError`, `StartWatching` | `onError` with its timer of five seconds, `startWatching` |
| `Beneficiary`, `Addressee` | the agent that each handler takes a transaction to be about |
| `ProcessTransaction`, `FindForHeartbeat`, `FindForInference`, `WriteAgent` | `processBlock` and the handlers of the precompiles |
| `ReportUsage` | `ensurePrecompileAgent`, as `recordMetrics` calls it |
| `Restart` | the process dies and starts again |

The registry's agents are kept under their checksummed address and the nodes under
their lowercase one, so an agent that is both has two entries in the Map, and the
later one overwrites the row of the first in every cycle; `RegistryShown` is
therefore stated for agents without a node.  `Put` is what a read leaves in the Map: a
known key stays where it is and takes the newer entry (`Newer`), the others come last.  A handler reads the chain's record
before it reads the row, and blocks do not wait for each other; `settled` says that
the newest heartbeat was saved with no other handler at work.

`handleAgentRegister` looks for a beneficiary only in an input longer than 194 + 64
characters and the capabilities (`watcher.service.ts:178-183`).  The oracle's own sponsored
registrations, from `sponsorRegisterAgent` and `sponsorAgentRegistration`, have exactly
258 and no capabilities, so the handler takes them to be about `tx.from`, the oracle;
`handleAgentHeartbeat` never looks further than `tx.from`.  `Addressee` models both, by
length: such a transaction ends without a row for its agent (with one for the oracle, if
the oracle is an agent itself), although nothing was lost.  `MissingIsExplained` is
therefore stated for the agents that registered themselves; the sponsored ones get
their row from `ensurePrecompileAgent`, their own heartbeat, or the monitor's cycle.

Abstracted: statuses, stakes and metadata (the row is its heartbeat and who wrote it
last); claims of rewards, which are only logged; the network statistics.  A word that
is not an address, such as the number of capabilities, is `Nobody` for a handler.
The monitor's cycles follow on each other, although `monitorAgents` has no flag that
would keep a cycle longer than its interval from overlapping the next.

## The runs

| Run | Question | Bounds |
| --- | --- | --- |
| `metrics_accounting` | Is credit bounded by work, do rows only grow, does the handler implement the ledger, does the inductive invariant hold? Are proofs verified only within the row, and stored once? | one wallet, 3 reports, the first with one proof or two, 2 epochs; a reset, a failed read, a failed save and a restart |
| `metrics_crash` | Is nothing booked ever lost, and is the newest report booked in the end? | 3 reports, 2 epochs, 2 restarts, one of them with a failed recovery |
| `metrics_race` | Can two racing first reports both order a reset? | two overlapping requests, both counters, a restart, a spell of silence |
| `metrics_interleaved` | violation: the timestamp guard and overlapping requests | two requests, 2 reports |
| `metrics_new_epoch_restart` | violation: recovery after the epoch has changed | one handler, 2 reports, a restart |
| `reporter` | Which tasks may be lost or sent again? Does any wait for ever, do heartbeats of idle agents stop? | 2 agents, one listed under either or both of its keys and processing tokens, one never listed; 2 tasks, 2 jobs, 2 epochs, 3 events; one fault of any kind |
| `distributor` | Is any epoch paid twice, early, out of order or passed over without a reason, and is the last one settled? | 2 jobs, 3 epochs after epoch 0, each of the seven faults once |
| `pipeline` | Is every layer held once, does readiness last? | 2 nodes of equal weight, 3 layers, 2 requests and the removal job, 3 messages; a silent node, a failure or restart |
| `pipeline_shares` | violation: the last share as the remainder | 4 nodes, 32 layers, weights 1 and 24, one request |
| `cluster` | Does a cluster hold each layer once, is what the process remembers true, is a broken cluster replaced? | 3 nodes of speeds 9, 1 and 0, 5 layers, any two nodes have the memory and none alone, 2 runs; age and grace of a minute; a leave, a failure, an overlap and a restart, or any one of these with one operation of PipelineService, which finds one node recent, or two, or all, in one order of creation |
| `nodes` | Do only agents of the chain get rows, is a registration kept, does the status follow the agent's life? | one node, 2 requests and the score round, 2 registrations, one fault of any kind |
| `agents` | Is an agent that registered itself missing without a reason, is a heartbeat taken back, does the watcher recover? | one agent, 2 handlers, 3 events, one fault of any kind |

Why the bounds are enough to mean something: a wrong credit needs a baseline, a
report against it and a second one out of order or after a restart, that is three
reports and one fault; an agent's second epoch is where a row and the Maps part.
Tasks can only be lost between two reads of a round or under a key it does not have, so
two keys of one agent, an agent with none and two tasks show every order.  An epoch is skipped or repeated between two consecutive
distributions, so three epochs suffice, and two jobs are what `isRunning` is to
keep apart.  Wallets share no state but the handlers, and neither do nodes or
agents of their tables; the proofs show every safety property for any number of them,
so only liveness depends on these sizes.  Two nodes and three messages are the least with
which a node can register, be joined by another and say it is ready while an older
message of it is still under way.  A cluster takes two nodes, a replacement a third
one; speeds of 9, 1 and 0 make every branch of the split happen (a share capped by the
memory, a share rounded up to one layer, the weight 1 for a node without a benchmark).
Equal capacities are what rows have that ClusterService inserts; with them a split
of `assignLayers` over one or two of these nodes gives a node more than its memory holds.
Two requests and a round are three holders of one row, one more than a lost update
takes; two registrations are an old and a new one.  Every property has a mutant in
`PROJECT.json`, a plausible bug of the code under which its run fails.

The `metrics_*` and `pipeline*` runs set `CHECK_DEADLOCK FALSE`: when every agent has
signed its last message and the faults are spent the system may really be at rest.
In the other runs an interval always fires again.

### Fairness

* `MetricsService!FairSpec`: a request whose await is over is resumed (the event
  loop), and the newest report is delivered again until it is accepted or
  replaced (agents report periodically; `Admit` is fair per wallet).  Epochs,
  faults and agents' work are not forced.
* `ContributionReporter!FairSpec`, `Distributor!FairSpec`: the interval fires
  again (`setInterval`), each job is resumed, and the chain mines.  Weak fairness
  suffices everywhere: only the `isRunning` flag disables a job's start, and its
  holder always finishes.  The distributor's epochs also advance.
* `ClusterService!FairSpec`: minutes pass, and the cron job fires when no run is left
  or a run goes on.  A run that starts beside another one is a fault, never forced.
* `NodesService!FairSpec`: weak fairness for the awaits of each request, the mining
  of its transaction, the score round and the two intervals.  Strong fairness for two
  things other operations interrupt: time passes (a tick waits until nothing is in
  flight, as no request outlasts its five minutes), and each living agent reports
  again and again although requests of others may take the last free handler.
* `AgentsTable!FairSpec`: the monitor's interval, the watcher's timer, and the awaits
  of each handler.

Fault actions are never forced.

## What the violations show

Three runs end in a violation of something a comment or the README says
(`PROJECT.json`, `findings`, with the quotes):

1. The strict timestamp check does not stop an older report that is in flight
   together with a newer one: the check runs before the awaits and the Maps are
   written after them.
2. The recovery "prevents double-counting" only for wallets with a row in the
   current epoch.
3. With four nodes, shares rounded up leave the last node a negative remainder.

More departures of the code from its documents are built into properties that hold:
reverted reports count as successes (`LossIsExplained`, the history `reverted`), an
epoch that ends while another ends before the next check is not distributed
(`OnlyOutrunSkipped`, the history `outrun`), and the watcher never sees that "the agent
address is set as beneficiary" (`chain.service.ts:190`) of a sponsored registration
(`MissingIsExplained`, the history `sponsored`).

## The proofs

### MetricsService

`MetricsService_proofs` proves, for all wallets, handlers, counters, bounds and
numbers of faults:

* `TypeCorrect`: `Spec => []TypeOK`, with overlapping requests or without;
* `InductiveInvariant`: `~Overlap /\ Spec => []IInv`;
* `CreditNeverExceedsWork`: `~Overlap /\ Spec => []NoOverCredit`;
* `RowsNeverShrink`: `~Overlap /\ Spec => RowsOnlyGrow`.

Assumptions: `TokensAssumption` (tokens are among the counters) and
`BoundsAssumption` (the bounds are natural numbers), both in `MetricsService`.
`~Overlap` is needed: `metrics_interleaved` is the counterexample without it.

The argument.  `NoOverCredit` is not inductive: nothing in it says what the Maps
may hold.  `IInv` adds that every wallet has two reports (or the empty one it
started from), `a`, which the Maps saw last, and `d`, which a row stored last;
`d` is `a` or older, and the credit is at most the work of `d`.  Any two reports
are `Apart`: the difference the handler would credit from the older to the newer
is at most the work done between them, resets included.  So crediting the
difference from `a` to a newer report `m` and making `d` that report keeps the
bound.  A restart sets `a` back to `d`, when the newest row is that of the current
epoch (else the wallet is `forgotten`); a failed save leaves `a` ahead of `d`,
which loses credit and never adds any.  `HandlersKnow` carries this through the
awaits: what a request knows at `save` was computed from Maps and a row nobody
has touched since, because no second request of the wallet is in flight
(`OneAtATime`).

It also proves the refinement, `HandlerImplementsLedger`:
`~Overlap /\ Spec => ImplementsLedger`.  A signed report is a `Sign` (work and time
grow, by `ReportsBehind`), a save is a `Credit` (its amount and its place in the order
are what `Knows` says at `save`) or, for a forgotten wallet, a `CreditUnbound`; a
restart is a `LoseBaselines`; every other step stutters.

And four more invariants, each with the assumptions it needs:

| Theorem | `Spec =>` | Assumes |
| --- | --- | --- |
| `OneOrderOnly` | `[]OneResetOrder` | nothing: overlapping requests are allowed |
| `CrashRestoresBaseline` | `[]BaselineSurvivesRestart` | `~Overlap`, no save fails |
| `ProofsAlwaysSound` | `[]ProofsSound` | `~Overlap` |
| `SavedIsCovered` | `[]BookedIsCovered` | `~Overlap`, no save fails, no agent resets |

"No save fails" is `MaxFaults["write"] = 0`, "no agent resets" `MaxFaults["reset"] = 0`;
the runs that check these invariants have the same.  A request that has saved its first
row keeps that row present, and the unique key stops the next INSERT (`SavedShown`).
`Restorable` says that a wallet's newest row is its baseline unless a request of it is
`Pending` between the Maps and the save, and that this save will not meet the key.
`ProofInv` says that the proofs stored of a report in flight are those up to the one it
is at, that what is about to be marked fits, and that the row a request saves has no
fewer tokens than the one it replaces, so that what fits goes on fitting; by `IInv` no
proof is stored of a report whose row is yet to be saved.
Without resets the counters of reports rise (`Rises`), and the Maps and every row hold
those of some report (`Sources`).  On top of it `Covered` says that
the credit has reached the Maps, all rows and every booked report, or will with the
save that is pending (`WillCover`).

### NodesService

`NodesService_proofs` proves, for any number of nodes, requests, registrations and
faults:

* `NodesTypeCorrect`: `Spec => []TypeOK`;
* `OnlyAgentsHaveRows`: `Spec => []RowsOnlyForAgents` (which promises something when
  `RegistryConfigured`);
* `RegistrationsLast`: `Spec => []RegistrationKept`.

Assumption: `NodesAssumption` (the score round is not a request, no node is called
`Nobody`, `RegistryConfigured` is a Boolean, the bounds are natural numbers).

The argument.  That rows are of agents the chain knows is not inductive: a step that
saves an entity says nothing of the answer that led to it.  `RowsInv` adds that every
entity in hand is of an agent the check lets pass (`AllSound`: one the chain knows, or
anyone without a registry), which holds where the
entity is made: a registration makes one only after the chain, asked before or after
the sponsored transaction, has said yes, a report after the same question, and a
score of a row that is there.  A failed query says no, and the chain never forgets an
agent, so an entity stays sound through any number of awaits, ticks and saves of
others, and a transaction mined late only adds agents.

That a settled node's row keeps its newest registration (`RegistrationKept`) says
nothing of the operations that will save the row next.  `KeptInv` adds, for every
settled node (`Kept`): at most one operation has its row in hand and, unless a
registration made it, with the row's registration in it; at most one registration is
under way, and it is no older than the row's; and no older one will be accepted
(`Guarded`), because the Map refuses it or because none that can still be delivered is
older.  The last part is what a restart needs, which empties the Map; and `Numbered`
says that the registrations in flight are numbers their nodes have signed, so that
what a node signs next is newer.  The save of a registration leaves a node settled
only if nothing else is in flight for it; every other save puts back the registration
that was there.

### Distributor

`Distributor_proofs` proves, for any number of epochs, overlapping intervals and
faults:

* `DistributorTypeCorrect`: `Spec => []TypeOK`;
* `NeverSentTwice`: `Spec => DistributionsAscend`;
* `SyncComesFirst`: `Spec => []SyncedBeforeDistributed`;
* `RowsTellTheTruth`: `Spec => []RowsTruthful`;
* `OnlyOutrunPassedOver`: `Spec => []OnlyOutrunSkipped`;
* `FlagNeverStuck`: `isRunning` is set exactly while an invocation is at work, and never
  are two at work.

Assumption: `BoundsAssumption` (the bounds are natural numbers).

The argument.  `isRunning` keeps the jobs apart (`OneRuns`), and a step either leaves
its job at work or clears the flag with it (`FlagIsHeld`), so no failed call locks the
service out.  Hence what the working job read at its start still holds at its end.
Whatever was sent for distribution is for an epoch before `lastCheckedEpoch` or was sent by the job that is about to set it
(`SubmittedBefore`), and the epoch that job found is later than `lastCheckedEpoch`
for as long as it works: the next epoch to be sent is later than all before it.
Transactions are mined in the order they were sent, so when the receipt of the sync is
there the sync has been mined.  `OnlyLastWaits` is what makes the skipped epochs
explained: an epoch that ended under the job's eyes, was not outrun and has not been
attempted is the last one to have ended, and the job has yet to check it.

### ContributionReporter

`ContributionReporter_proofs` proves, for any number of agents, tasks, overlapping
intervals, epochs and faults:

* `ReporterTypeCorrect`: `Spec => []TypeOK`;
* `NoOtherLoss`: `Spec => []LossIsExplained`;
* `SettledStaysSettled`: `Spec => []SettledNeverResent`;
* `RowsConfirmed`: `Spec => []RowsAreConfirmed`;
* `ReportsFollow`: `Spec => ReportsGrow`;
* `FlagNeverStuck`, as for the distributor.

Assumption: `BoundsAssumption` (the bounds are natural numbers, and the interval is at
least one block).

The argument runs over keys, not agents: what `TasksUnder` finds under a `NodeKey` is
empty, so the agents whose tasks a cleared memory loses unreported are exactly those of
`NodeOnly` and `Missing`.  None of the four properties is inductive: each speaks of what
is on chain or in memory, and the steps that write there act on a snapshot taken several awaits
before.  `Knows` is what that snapshot is worth.  The tasks a job holds are a part of its
agent's memory, and what has come to that memory since is `late`; a job that waits
for a receipt finds its report last in the mempool, or mined; a job past the receipt
finds the mempool empty.  As long as nothing has failed, every agent of the round is
read, still to do, or in hand, and of the agents done with everything in memory is
on chain or late.  So when the last agent succeeds the memory can be cleared: what
is lost is late, or of an agent outside the round.  At that time nothing is in the
mempool, not even a report whose receipt was given up earlier in the process's life
or before a restart, for it was sent before the report just confirmed; what is sent
later comes from the empty memory, which `settled` no longer meets (`Memory`).
`Memory` also orders an agent's reports: the last one is a part of what is in memory
or older than all of it.

### LayerSplit and PipelineService

`LayerSplit_proofs` proves, for any weights and any number of layers,

* `SplitCovers`: the shares are ranges of naturals, and every layer is inside exactly
  one of them.

The split is a recursive function of the number of nodes.  What such a function sums up
to is proved from the least element of a set of naturals (`LeastNat`, `NatInd`): the
theorems of the library that take an operator cannot be used here, but a set of
naturals can stand in for it.

`PipelineService_proofs` proves, for any finite set of nodes and any number of requests,
messages, layers and faults:

* `Inductive`: `Spec => []IInv`;
* `TypeCorrect`: `Spec => []TypeOK`;
* `LayersCoveredAlways`: `Spec => []LayersCovered`;
* `ReadyLasts`: `Spec => []ReadyLastsAlone`.

Assumption: `BoundsAssumption` (finitely many nodes, at least one layer, the bounds are
natural numbers).

The argument.  The properties speak of a service at rest, so the invariant has to say
what holds in between.  `Alone`: while nothing has overlapped, an entity in hand is still
its row with the message's changes, so the save undoes nothing.  `Covered`: while
`settled` there are a set of nodes, every fresh one among them, and a share for each of
them, such that each layer is in exactly one share (`SplitCovers` gives them when
`ReadActive` splits), and each share is in the table already or among those the
operation has yet to save.  So the last `SaveShare` leaves a table that covers the
layers.  The share of a node that falls silent stays in its row until the removal job
splits anew, which is why `LayersCovered` speaks of times without a silent node.
`ReadyKept`: while undisturbed, the operation in flight has a newer timestamp than the
Map, and once a node's last message is a readiness, or is answered, every registration it has sent is at
most as new as the Map's, so none that could clear `ready` will be admitted.

### ClusterService

`ClusterService_proofs` proves, for any finite sets of nodes, of runs and of operations of
PipelineService, any speeds, capacities, memory, number of layers and faults:

* `UpToGrows`: the shares of a cluster follow on one another within the layers, none
  exceeds a node's memory, and they end with the last layer or with what the last member
  can hold;
* `Inductive`: `Spec => []IInv`;
* `TypeCorrect`: `Spec => []TypeOK`;
* `SharesAlwaysFit`: `Spec => []SharesFit`;
* `RememberedWhole`: `Spec => []RememberedIsWhole`.

Assumptions: `ClusterAssumption` (finite sets, bounds that are natural numbers, and no
node with the memory for the whole model, the case of `formClustersForModel` modelled) and
`NoEntryAssumption` (the value for "no entry" is not an entry).  `Orders` may be all sequences
of different nodes.

The argument.  Two rows of one cluster can only be told apart by who wrote them.
`Forming` gives every run that writes rows an id of its own, `Own` says that no row has
this id but those the run has written, and these are as `RowOf` says, one member each --
of the rows not in `rewritten`.  A new id is one that no row, no run, no entry and no copy
still to be saved has; there always is one, by counting (`FreshIdIs`).  Hence rows of one cluster come from one run and their layers from one
split, whatever other runs overwrite meanwhile.  A step of PipelineService changes no other
row (`WritesInv`), and what it reads or writes bears an id only if the row or the copy did
before: that is how `Kept` survives, which says that only members of the cluster being
formed, and of the newest, are named by its id (`Named`), in the table or in a copy.  `Whole` is the part that needs an
undisturbed process: there is one run, what it has written stays, and until it writes
the newest entry's rows are in the table, each of them that is not in `rewritten`.

### AgentsTable

`AgentsTable_proofs` proves, for any finite set of agents and any number of handlers,
events and faults:

* `Inductive`: `Spec => []IInv`;
* `TypeCorrect`: `Spec => []TypeOK`;
* `MissingExplained`: `Spec => []MissingIsExplained`;
* `HandledShown`: `Spec => []HandledHeartbeatShown`;
* `AlwaysReconnects`: `Spec => [](subs = 0 => ~isWatching /\ timers > 0)`.

Assumption: `AgentsAssumption` (finitely many agents, none of them, nor the oracle, called
`Nobody`, the bounds are natural numbers).  The oracle may be one of the agents or not.

The argument.  `TypeOK` says that the Map has one entry for each key, and `PutKeeps` that
what `updateAgentInfo` does to it keeps that so.  `MissingIsExplained` is carried by
`Handling`: a handler that found a row will find it again, for rows stay, so it writes the row of its
agent or its agent is `lost`; and by `OwnAddressee`, which computes the lengths, a
handler takes what an agent sends to be about that agent.  `Settled` says what the next write may be: of a settled agent
the row is there, at most one handler is at work for it, and that one does not hold the
placeholder of `ensurePrecompileAgent`, which would set the heartbeat back.
`AlwaysReconnects` is the safety behind `WatcherRecovers`: without a subscription a timer is
due, and the flag will not make it return early.

Each of these proofs has one step per action of `Next`, and under it one per part of the
invariant that the action disturbs.

### Left to TLC

All liveness (`EventuallyBooked`, `NoTaskWaitsForever`, `IdleAgentsFade`,
`LastEpochSettled`, `ReplacedInTheEnd`, `SilentGoesInactive`, `TimedOutComesBack`,
`WatcherRecovers`, `RegistryShown`), for fairness and ENABLED are beyond TLAPS, and the
three violations.  Every invariant and every action property of the runs is proved.

## Not modelled

* `ModelRegistryService`: administrative calls on two tables that nothing else in the
  process reads; each is one check and one statement under a unique key.
* `ChallengeService`, but for the event that records a task: creating a challenge is
  an interval that sends a transaction when the contract has no open one.
* `ApiController` reads tables and the chain, and changes nothing.
* `ChainService`, the logger, the bootstrap code and the migrations: wiring and I/O.
  The calls of `ChainService` appear as the steps of their callers, with the failures
  they may have; the nonces of transactions, which all services share, do not.
* Score formulas, network statistics, and the initial copies of epochs and
  contributions, which no code reads back.
* Whose shares should win where `PipelineService` and `ClusterService` write the same rows:
  no document says it.  `ClusterService` has the cluster columns under both services, and
  claims nothing of a row that `PipelineService` was the last to change.

## Plan

1. `RewardCycle`: reporter and distributor over one `contributions` table and one
   epoch, for late rows and for reports mined in the next epoch.
2. `ChallengeService`: creation, and the times of creation a restart forgets.
3. Theorems: what `UsageLedger` promises by itself, and the safety behind the remaining
   liveness properties.

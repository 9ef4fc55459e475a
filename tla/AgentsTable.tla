----------------------------- MODULE AgentsTable -----------------------------
(***************************************************************************)
(* The agents table and who writes it: the monitor's cycle, which copies   *)
(* the registry contract and the node table through the Map of             *)
(* MonitorService; initialSync at start-up; ensurePrecompileAgent; and the *)
(* watcher, which handles the precompile transactions of every block its   *)
(* subscriptions deliver.                                                  *)
(*                                                                         *)
(* A heartbeat is a number that grows with each heartbeat of its source.   *)
(* What getActiveAgents makes of the Map is in NodesService.               *)
(***************************************************************************)
EXTENDS Integers, Sequences, FiniteSets, SequencesExt

CONSTANTS
  Agents,     \* by lowercase address
  Handlers,   \* blocks and usage reports that may be in hand at once
  Oracle,     \* whose wallet sends the sponsored transactions
  Nobody,
  MaxEvents,  \* bound: what happens to the agents
  MaxFaults   \* bound: reads and saves that fail, subscription errors, restarts

ASSUME AgentsAssumption ==
  /\ IsFiniteSet(Agents) /\ Nobody \notin Agents \cup {Oracle}
  /\ MaxEvents \in Nat /\ MaxFaults \in Nat

VARIABLES
  contract,   \* registry contract: heartbeat of an active agent, 0 for none
  meta,       \* the precompiles' record: heartbeat, 0 for none
  node,       \* heartbeat of the agent's node, 0 for none
  events,     \* how many things happened to the agents
  map,        \* MonitorService.agents, in its order
  cycle,      \* initialSync, then the monitor's cycle
  row,        \* table agents
  isWatching, \* WatcherService.isWatching
  timers,     \* calls of startWatching that are due
  subs,       \* subscriptions that deliver blocks
  inbox,      \* transactions of blocks delivered, one for each subscription
  handler,    \* the transactions and the reports in hand
  sponsored,  \* history: agents that the oracle registered
  lost,       \* history: agents of a transaction not delivered, or not handled
  seen,       \* history: the newest heartbeat a handler saved
  settled,    \* history: agents whose newest heartbeat was saved with no other
              \* handler at work for them, and no other writer since
  faults

world   == <<contract, meta, node, events>>
monitor == <<map, cycle>>
watcher == <<isWatching, timers, subs>>
blocks  == <<inbox, handler>>
history == <<sponsored, lost, seen, settled>>
vars    == <<world, monitor, row, watcher, blocks, history, faults>>

Kinds  == {"register", "heartbeat", "verify"}
Txs    == [kind: Kinds, from: Agents \cup {Oracle}, agent: Agents]
Beats  == 0..MaxEvents
NoRow  == [source |-> "none", beat |-> 0]
Idle   == [pc |-> "idle", agent |-> Nobody, beat |-> 0]
Entries == [agent: Agents, source: {"contract", "node"}, beat: Beats]

Missing(a)    == row[a] = NoRow
At(h, stage)  == handler[h].pc = stage
Free(h)       == At(h, "idle")
Working(a)    == {h \in Handlers : handler[h].agent = a}
Stop(h)       == handler' = [handler EXCEPT ![h] = Idle]
Goto(h, stage) == handler' = [handler EXCEPT ![h].pc = stage]
Take(h, stage, a, beat) ==
  handler' = [handler EXCEPT ![h] = [pc |-> stage, agent |-> a, beat |-> beat]]
Fault         == faults > 0 /\ faults' = faults - 1
Lose(agents)  == lost' = lost \cup agents

(***************************************************************************)
(* The world.  Registrations, heartbeats and verified inferences are the   *)
(* precompiles' transactions; a block without a live subscription is never *)
(* processed.                                                              *)
(***************************************************************************)
Event == events < MaxEvents /\ events' = events + 1

Deliver(kind, from, a) ==
  /\ Event
  /\ inbox' = [inbox EXCEPT ![[kind |-> kind, from |-> from, agent |-> a]] = @ + subs]
  /\ Lose(IF subs = 0 THEN {a} ELSE {})
  /\ UNCHANGED <<contract, node, monitor, row, watcher, handler, seen, settled, faults>>

\* The agent registers itself, or the oracle registers it as the beneficiary.
Register(a, from) ==
  /\ meta[a] = 0
  /\ meta' = [meta EXCEPT ![a] = 1]
  /\ sponsored' = IF from = a THEN sponsored ELSE sponsored \cup {a}
  /\ Deliver("register", from, a)

Heartbeat(a, from) ==
  /\ meta[a] > 0
  /\ meta' = [meta EXCEPT ![a] = @ + 1]
  /\ Deliver("heartbeat", from, a)
  /\ UNCHANGED sponsored

VerifyInference(a) ==
  /\ meta[a] > 0
  /\ Deliver("verify", a, a)
  /\ UNCHANGED <<meta, sponsored>>

ContractHeartbeat(a) ==
  /\ Event
  /\ contract' = [contract EXCEPT ![a] = @ + 1]
  /\ UNCHANGED <<meta, node, monitor, row, watcher, blocks, history, faults>>

\* A usage report brings the node of a precompile agent about, or its heartbeat forward.
NodeHeartbeat(a) ==
  /\ Event
  /\ meta[a] > 0
  /\ node' = [node EXCEPT ![a] = @ + 1]
  /\ UNCHANGED <<contract, meta, monitor, row, watcher, blocks, history, faults>>

(***************************************************************************)
(* MonitorService and SyncService.  (Of the Map's entries the registry's   *)
(* have the checksummed address for key, the nodes' the lowercase one: an  *)
(* agent of both has two.)                                                 *)
(***************************************************************************)
Write(a, new) == /\ row' = [row EXCEPT ![a] = new]
                 /\ settled' = settled \ {a}

\* initialSync, once: getAllAgents, then getAgent and a save for each.
InitialSync(a) ==
  /\ cycle.pc = "initial" /\ a \in cycle.todo
  /\ cycle' = [cycle EXCEPT !.todo = @ \ {a}]
  /\ \/ Write(a, [source |-> "contract", beat |-> contract[a]]) /\ UNCHANGED faults
     \/ Fault /\ UNCHANGED <<row, settled>>
  /\ UNCHANGED <<world, map, watcher, blocks, sponsored, lost, seen>>

Same(e, f) == e.agent = f.agent /\ e.source = f.source

\* Mutant: what the Map has of an agent stays.
OnlyNew(old, new) == FALSE
\* updateAgentInfo takes any other heartbeat, the nodes' a newer one.
Replaces(old, new) ==
  IF new.source = "contract" THEN new.beat # old.beat ELSE new.beat > old.beat

\* The newer of two entries of one key.
Newer(old, new) == IF Replaces(old, new) THEN new ELSE old

\* Mutant: an agent that is reported again gets a new entry.
Appended(m, new) == m \o SetToSeq(new)

\* A Map with entries, one for each of their keys, put in it: a known key stays where
\* it is, the others come last.
Put(m, new) ==
  [i \in DOMAIN m |-> IF \E e \in new : Same(m[i], e)
                      THEN Newer(m[i], CHOOSE e \in new : Same(m[i], e))
                      ELSE m[i]]
  \o SetToSeq({e \in new : \A i \in DOMAIN m : ~Same(m[i], e)})

EntriesOf(agents, source, beat) ==
  {[agent |-> a, source |-> source, beat |-> beat[a]] : a \in agents}

\* getActiveAgents and updateAgentInfo for each (an entry depends on its own agent only,
\* so they are read at once); a read that fails leaves the entry, or all, as it was.
\* (Cycles follow on each other here.  In the code nothing keeps one that outlasts the
\* interval from overlapping the next.)
ReadContract ==
  /\ cycle.pc \in {"initial", "idle"} /\ cycle.todo = {}
  /\ LET active == {a \in Agents : contract[a] > 0}
     IN  \/ map' = Put(map, EntriesOf(active, "contract", contract)) /\ UNCHANGED faults
         \/ /\ Fault
            /\ \E some \in SUBSET active \ {active} :
                 map' = Put(map, EntriesOf(some, "contract", contract))
  /\ cycle' = [cycle EXCEPT !.pc = "nodes"]
  /\ UNCHANGED <<world, row, watcher, blocks, history>>

\* The active among the nodes, or none when the read fails; the Map as it then is
\* goes to syncAgents.
ReadNodes ==
  /\ cycle.pc = "nodes"
  /\ \E nodes \in SUBSET {a \in Agents : node[a] > 0} :
       map' = Put(map, EntriesOf(nodes, "node", node))
  /\ cycle' = [cycle EXCEPT !.pc = "save", !.snapshot = map']
  /\ UNCHANGED <<world, row, watcher, blocks, history, faults>>

\* syncAgents: one after the other; a save that fails ends it.
SyncAgents ==
  /\ cycle.pc = "save"
  /\ \/ /\ cycle.snapshot # <<>>
        /\ LET e == Head(cycle.snapshot)
           IN  Write(e.agent, [source |-> e.source, beat |-> e.beat])
        /\ cycle' = [cycle EXCEPT !.snapshot = Tail(@)]
        /\ UNCHANGED faults
     \/ /\ cycle.snapshot = <<>> /\ cycle' = [cycle EXCEPT !.pc = "idle"]
        /\ UNCHANGED <<row, settled, faults>>
     \/ /\ Fault
        /\ cycle' = [cycle EXCEPT !.pc = "idle", !.snapshot = <<>>]
        /\ UNCHANGED <<row, settled>>
  /\ UNCHANGED <<world, map, watcher, blocks, sponsored, lost, seen>>

(***************************************************************************)
(* WatcherService: the subscription.                                       *)
(***************************************************************************)
\* Mutant: the flag stays.
StaysSet == TRUE

FlagAfterError == FALSE

\* onError.  The subscription may be dead, or deliver again; nobody ends it.
SubscriptionError ==
  /\ subs > 0
  /\ Fault
  /\ isWatching' = FlagAfterError
  /\ timers' = timers + 1
  /\ subs' \in {subs - 1, subs}
  /\ UNCHANGED <<world, monitor, row, blocks, history>>

\* startWatching, five seconds later.
StartWatching ==
  /\ timers > 0
  /\ \/ /\ isWatching
        /\ timers' = timers - 1
        /\ UNCHANGED <<isWatching, subs, faults>>
     \/ /\ ~isWatching
        /\ isWatching' = TRUE
        /\ subs' = subs + 1
        /\ timers' = timers - 1
        /\ UNCHANGED faults
     \/ ~isWatching /\ Fault /\ UNCHANGED watcher
  /\ UNCHANGED <<world, monitor, row, blocks, history>>

(***************************************************************************)
(* processBlock and the handlers, several blocks at once.  getAgentMeta    *)
(* answers for the latest block.  A claim of rewards is only logged.       *)
(***************************************************************************)
\* The characters of a registration's input: "0x", then the words for the name, the
\* model and the number of capabilities, and the beneficiary of a sponsored one.  (With
\* capabilities, InputLength and MinLength grow by the same number of words.)
Word            == 64
MinLength       == 2 + 3 * Word
InputLength(tx) == IF tx.from = tx.agent THEN MinLength ELSE MinLength + Word

\* The address in the last word: the beneficiary, or else the number of capabilities.
LastWord(tx) == IF tx.from = tx.agent THEN Nobody ELSE tx.agent

\* Mutant: every input ends in a beneficiary.
LastAlways(tx) == IF InputLength(tx) >= MinLength THEN LastWord(tx) ELSE tx.from

\* The targetAddress of handleAgentRegister.  (No input has more than one word to spare:
\* it is always the sender.)
Beneficiary(tx) == IF InputLength(tx) > MinLength + Word THEN LastWord(tx) ELSE tx.from

\* The agent that a handler takes a transaction to be about.
Addressee(tx) ==
  CASE tx.kind = "register"  -> Beneficiary(tx)
    [] tx.kind = "heartbeat" -> tx.from
    [] tx.kind = "verify"    -> tx.agent

Known(a) == a \in Agents /\ meta[a] > 0

Begin(h, stage, a) ==
  /\ Take(h, stage, a, meta[a])
  /\ settled' = IF Working(a) = {} THEN settled ELSE settled \ {a}

\* An addressee without a record and a failed read end it here.
ProcessTransaction(h, tx) ==
  /\ Free(h) /\ inbox[tx] > 0
  /\ inbox' = [inbox EXCEPT ![tx] = @ - 1]
  /\ \/ /\ Known(Addressee(tx))
        /\ Begin(h, IF tx.kind = "register" THEN "save" ELSE tx.kind, Addressee(tx))
        /\ UNCHANGED <<lost, faults>>
     \/ /\ ~Known(Addressee(tx))
        /\ UNCHANGED <<handler, settled, lost, faults>>
     \/ /\ Fault /\ Lose({tx.agent})
        /\ UNCHANGED <<handler, settled>>
  /\ UNCHANGED <<world, monitor, row, watcher, sponsored, seen>>

\* Of a usage report, ensurePrecompileAgent when it finds no row.
ReportUsage(h, a) ==
  /\ Free(h) /\ meta[a] > 0 /\ Missing(a)
  /\ Begin(h, "ensure", a)
  /\ UNCHANGED <<world, monitor, row, watcher, inbox, sponsored, lost, seen, faults>>

\* findOne of a heartbeat's agent: its row is updated, or made of the chain's record.
FindForHeartbeat(h) ==
  /\ At(h, "heartbeat")
  /\ Goto(h, IF Missing(handler[h].agent) THEN "save" ELSE "update")
  /\ UNCHANGED <<world, monitor, row, watcher, inbox, history, faults>>

\* A verified inference only makes sure that there is a row.  (Of the two reads before
\* the placeholder is saved, the second, since rows stay.)
FindForInference(h) ==
  /\ At(h, "verify")
  /\ IF Missing(handler[h].agent) THEN Goto(h, "ensure") ELSE Stop(h)
  /\ UNCHANGED <<world, monitor, row, watcher, inbox, history, faults>>

\* Mutant: the heartbeat of an existing row is kept.
Touched(old, beat) == old

\* update writes the heartbeat and the status.
Updated(old, beat) == [old EXCEPT !.beat = beat]

\* The row a handler writes (save inserts or updates it): the record of the chain, its heartbeat, or the placeholder
\* of ensurePrecompileAgent.
Handled(h) ==
  LET a == handler[h].agent
  IN  CASE At(h, "save")   -> [source |-> "meta", beat |-> handler[h].beat]
        [] At(h, "update") -> Updated(row[a], handler[h].beat)
        [] At(h, "ensure") -> [source |-> "ensured", beat |-> 0]

WriteAgent(h) ==
  LET a     == handler[h].agent
      alone == Working(a) = {h} /\ ~At(h, "ensure")
  IN  /\ At(h, "save") \/ At(h, "update") \/ At(h, "ensure")
      /\ Stop(h)
      /\ \/ /\ row' = [row EXCEPT ![a] = Handled(h)]
            /\ settled' = IF alone THEN settled \cup {a} ELSE settled
            /\ seen' = IF alone THEN [seen EXCEPT ![a] = handler[h].beat] ELSE seen
            /\ UNCHANGED <<lost, faults>>
         \/ /\ Fault /\ Lose({a})
            /\ UNCHANGED <<row, settled, seen>>
  /\ UNCHANGED <<world, monitor, watcher, inbox, sponsored>>

-----------------------------------------------------------------------------
\* A process that starts: the watcher subscribes, initialSync reads the contract.
Restart ==
  /\ Fault
  /\ map' = <<>>
  /\ cycle' = [pc |-> "initial", todo |-> {a \in Agents : contract[a] > 0},
               snapshot |-> <<>>]
  /\ isWatching' = TRUE /\ timers' = 0 /\ subs' = 1
  /\ Lose({a \in Agents : Working(a) # {} \/ \E tx \in Txs : tx.agent = a /\ inbox[tx] > 0})
  /\ inbox' = [tx \in Txs |-> 0]
  /\ handler' = [h \in Handlers |-> Idle]
  /\ UNCHANGED <<world, row, sponsored, seen, settled>>

Init ==
  /\ contract = [a \in Agents |-> 0]
  /\ meta = [a \in Agents |-> 0]
  /\ node = [a \in Agents |-> 0]
  /\ events = 0
  /\ map = <<>>
  /\ cycle = [pc |-> "initial", todo |-> {}, snapshot |-> <<>>]
  /\ row = [a \in Agents |-> NoRow]
  /\ isWatching = TRUE /\ timers = 0 /\ subs = 1
  /\ inbox = [tx \in Txs |-> 0]
  /\ handler = [h \in Handlers |-> Idle]
  /\ sponsored = {} /\ lost = {}
  /\ seen = [a \in Agents |-> 0]
  /\ settled = {}
  /\ faults = MaxFaults

Monitor ==
  \/ \E a \in Agents : InitialSync(a)
  \/ ReadContract \/ ReadNodes \/ SyncAgents

Handle(h) ==
  \/ \E tx \in Txs : ProcessTransaction(h, tx)
  \/ FindForHeartbeat(h) \/ FindForInference(h) \/ WriteAgent(h)

Next ==
  \/ \E a \in Agents :
       \/ \E from \in {a, Oracle} : Register(a, from) \/ Heartbeat(a, from)
       \/ VerifyInference(a) \/ ContractHeartbeat(a) \/ NodeHeartbeat(a)
  \/ Monitor
  \/ SubscriptionError \/ StartWatching
  \/ \E h \in Handlers : Handle(h) \/ \E a \in Agents : ReportUsage(h, a)
  \/ Restart

Spec == Init /\ [][Next]_vars

\* The interval and the timer fire, and handlers come to an end.
FairSpec ==
  /\ Spec
  /\ WF_vars(Monitor) /\ WF_vars(StartWatching)
  /\ \A h \in Handlers : WF_vars(Handle(h))

-----------------------------------------------------------------------------
\* The values; and the Map has one entry for each of its keys.
TypeOK ==
  /\ contract \in [Agents -> Beats]
  /\ meta \in [Agents -> Beats] /\ node \in [Agents -> Beats]
  /\ events \in 0..MaxEvents
  /\ map \in Seq(Entries)
  /\ \A i, j \in DOMAIN map : Same(map[i], map[j]) => i = j
  /\ cycle.pc \in {"initial", "idle", "nodes", "save"}
  /\ cycle.todo \subseteq Agents /\ cycle.snapshot \in Seq(Entries)
  /\ row \in [Agents -> [source: {"none", "contract", "node", "meta", "ensured"}, beat: Beats]]
  /\ isWatching \in BOOLEAN /\ timers \in Nat /\ subs \in Nat
  /\ inbox \in [Txs -> Nat]
  /\ handler \in [Handlers -> [pc: {"idle", "save", "heartbeat", "verify", "update", "ensure"},
                               agent: Agents \cup {Nobody}, beat: Beats]]
  /\ sponsored \subseteq Agents /\ lost \subseteq Agents /\ settled \subseteq Agents
  /\ seen \in [Agents -> Beats]
  /\ faults \in 0..MaxFaults

\* An agent that registered itself with a precompile has its row as soon as nothing that
\* it sent is in hand, unless a block came while no subscription was alive, or a handler
\* failed.  (One that the oracle registered may have none, with nothing lost: the watcher
\* takes the transaction to be about the oracle.)
MissingIsExplained ==
  \A a \in Agents \ sponsored :
    /\ meta[a] > 0 /\ Missing(a) /\ Working(a) = {}
    /\ \A tx \in Txs : tx.from = a /\ tx.agent = a => inbox[tx] = 0
    => a \in lost

\* The row shows the heartbeat that was handled last, until two handlers work for the
\* agent at once or the monitor writes what the contract or the node table has of it:
\* blocks delivered twice, placeholders and verified inferences take nothing back.
HandledHeartbeatShown == \A a \in settled : row[a].beat = seen[a]

\* The watcher does not stay without a subscription, however its errors, its timers
\* and its restarts follow on each other.
WatcherRecovers == (subs = 0) ~> (subs > 0)

\* The row of an agent that is active in the registry and has no node comes to show
\* the registry's heartbeat for good, whatever the watcher makes of it on the way.
RegistryShown ==
  \A a \in Agents :
    <>[](contract[a] > 0 /\ node[a] = 0) =>
      <>[](row[a] = [source |-> "contract", beat |-> contract[a]])
=============================================================================

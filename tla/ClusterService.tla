--------------------------- MODULE ClusterService ---------------------------
(***************************************************************************)
(* The clusters of one model on one LAN: ClusterService.rebalanceClusters, *)
(* the rows it writes in table pipeline_assignments, and what it remembers *)
(* of the clusters it has formed; and PipelineService, which writes the    *)
(* same rows without knowing of clusters.                                  *)
(*                                                                         *)
(* A rebalance reads the eligible nodes, awaits, looks up the cluster it   *)
(* remembers and, unless that cluster is to be kept, writes the row of one *)
(* member of a new cluster after another.  The Map of clusters is written  *)
(* at the end and nothing is ever removed from it: findExistingCluster     *)
(* answers the oldest entry, so of all entries the model keeps the oldest  *)
(* and the newest.                                                         *)
(***************************************************************************)
EXTENDS Integers, Sequences, FiniteSets, Functions, LayerSplit

CONSTANTS
  Nodes,       \* by lowercase address
  Jobs,        \* runs of the cron job that may exist at once
  Operations,  \* operations of PipelineService that may be in flight at once
  Speed,       \* benchmarkTokPerSec of each node
  Capacity,    \* what assignLayers weighs each node by: its VRAM or RAM, or 1
  Layers,      \* MODEL_LAYERS of the model
  Required,    \* MODEL_MEMORY_REQUIREMENTS of the model
  Orders,      \* bound: the nodes assignLayers may find recent, in order of creation
  NodeMemory,  \* what getAvailableMemory answers for every node
  MinAge,      \* CLUSTER_MIN_AGE_MS, in minutes
  Grace,       \* NODE_OFFLINE_GRACE_MS, in minutes
  Never,       \* no timestamp
  NoCluster,   \* no entry in the Map
  Budgets      \* bound: how often each kind of fault may occur in a behaviour

\* leave: a node is silent for ten minutes, opts out or changes its LAN; failure: a
\* read or a save of a run fails; overlap: a run outlasts the minute; restart: the
\* process dies; pipeline: PipelineService has something to do.
FaultKinds == {"leave", "failure", "overlap", "restart", "pipeline"}

\* (No single node has the memory: ensureStandaloneAssignment is never reached.)
ASSUME ClusterAssumption ==
  /\ IsFiniteSet(Nodes) /\ IsFiniteSet(Jobs) /\ IsFiniteSet(Operations)
  /\ Speed \in [Nodes -> Nat]
  /\ Capacity \in [Nodes -> Nat \ {0}]
  /\ Layers \in Nat \ {0}
  /\ NodeMemory \in Nat \ {0}
  /\ Required \in Nat /\ NodeMemory < Required
  /\ MinAge \in Nat /\ Grace \in Nat
  /\ Orders \subseteq {nodes \in Seq(Nodes) : nodes # <<>> /\ IsInjective(nodes)}
  /\ Budgets \subseteq [FaultKinds -> Nat]

VARIABLES
  eligible,   \* nodes that are active, recent, willing and on the LAN
  row,        \* table pipeline_assignments: the cluster columns of each node's row
  oldest,     \* the first entry of the Map clusters, with its age
  newest,     \* the last entry of the Map
  offline,    \* nodeOfflineTimestamps: minutes since, up to Grace
  job,        \* the runs in flight
  pipe,       \* the operations of PipelineService in flight
  rewritten,  \* history: nodes whose row PipelineService was the last to change
  disturbed,  \* history: since the process started two runs overlapped or a
              \* formation failed half-way
  faults

cache == <<oldest, newest, offline>>
table == <<row, rewritten>>
vars  == <<eligible, table, cache, job, pipe, disturbed, faults>>

Ids     == 1..(Cardinality(Nodes) * (Cardinality(Operations) + 1) + Cardinality(Jobs) + 3)
Modes   == {"standalone", "coordinator", "rpc-server"}
Row     == [cluster: Ids \cup {0}, mode: Modes, first: Nat, last: Nat]
\* No row, or one that is in no cluster (its shares are PipelineService's matter).
NoRow   == [cluster |-> 0, mode |-> "standalone", first |-> 0, last |-> 0]
Stages  == {"idle", "decide", "upsert"}
Entry   == [id: Ids, members: Seq(Nodes), age: 0..MinAge]

\* A run between two runs, one that has read the nodes, and one that has written the
\* rows of so many members of its new cluster.
Idle            == [pc |-> "idle", nodes |-> {}, id |-> 0, members |-> <<>>, written |-> 0]
Deciding(nodes) == [pc |-> "decide", nodes |-> nodes, id |-> 0, members |-> <<>>, written |-> 0]
Writing(id, members, written) ==
  [pc |-> "upsert", nodes |-> {}, id |-> id, members |-> members, written |-> written]

\* An operation between two, one that is to save entities it has read (a registration
\* goes on to assignLayers), and one that has come to assignLayers.
Phases  == {"idle", "register", "layers", "save"}
Copies(nodes) == [n \in Nodes |-> IF n \in nodes THEN row[n] ELSE NoRow]
NoCopies      == [n \in Nodes |-> NoRow]
Resting       == [pc |-> "idle", todo |-> <<>>, entity |-> NoCopies]
Splitting     == [pc |-> "layers", todo |-> <<>>, entity |-> NoCopies]
Saving(phase, todo, entity) == [pc |-> phase, todo |-> todo, entity |-> entity]

ASSUME NoEntryAssumption == NoCluster \notin Entry

Quiet   == \A j \in Jobs : job[j].pc = "idle"
Stop(j) == job' = [job EXCEPT ![j] = Idle]
Spend(kind) == /\ faults[kind] > 0
               /\ faults' = [faults EXCEPT ![kind] = @ - 1]

(***************************************************************************)
(* How the layers are shared: in proportion to the speeds, rounded, at     *)
(* least one layer, no more than are left, and no more than the memory of  *)
(* a node can hold.                                                        *)
(***************************************************************************)
Weight(n)  == IF Speed[n] = 0 THEN 1 ELSE Speed[n]
MemoryCap  == (NodeMemory * Layers) \div Required
Larger(a, b)  == IF a > b THEN a ELSE b
Smaller(a, b) == IF a < b THEN a ELSE b

\* The share of a member that is not the last, with so many layers left.
Portion(members, i, left) ==
  LET total == Sum([k \in DOMAIN members |-> Weight(members[k])])[Len(members)]
  IN  Smaller(Larger(1, Round(Layers * Weight(members[i]), total)), left)

\* Mutant: the memory is not looked at.
Uncapped(count) == count

Capped(count) == IF count > MemoryCap THEN Larger(1, MemoryCap) ELSE count

\* The layers given to the first i members.  Mutant: the last share is rounded like
\* the others.
RoundedUpTo(members) ==
  LET upTo[i \in 0..Len(members)] ==
        IF i = 0 THEN 0 ELSE upTo[i - 1] + Portion(members, i, Layers)
  IN  upTo

LayersUpTo(members) ==
  LET upTo[i \in 0..Len(members)] ==
        IF i = 0 THEN 0
        ELSE LET left == Layers - upTo[i - 1]
             IN  upTo[i - 1] + Capped(IF i = Len(members) THEN left
                                      ELSE Portion(members, i, left))
  IN  upTo

(***************************************************************************)
(* The nodes and the time.                                                 *)
(***************************************************************************)
Join(n) ==
  /\ n \notin eligible
  /\ eligible' = eligible \cup {n}
  /\ UNCHANGED <<table, cache, job, pipe, disturbed, faults>>

Leave(n) ==
  /\ n \in eligible
  /\ Spend("leave")
  /\ eligible' = eligible \ {n}
  /\ UNCHANGED <<table, cache, job, pipe, disturbed>>

\* A minute passes.
Older(age, limit) == IF age \in Nat /\ age < limit THEN age + 1 ELSE age

Tick ==
  /\ oldest' = IF oldest = NoCluster THEN NoCluster
               ELSE [oldest EXCEPT !.age = Older(@, MinAge)]
  /\ offline' = [n \in Nodes |-> Older(offline[n], Grace)]
  /\ UNCHANGED <<eligible, table, newest, job, pipe, disturbed, faults>>

(***************************************************************************)
(* rebalanceClusters.                                                      *)
(***************************************************************************)
ReadNodes(j) ==
  /\ job[j].pc = "idle"
  /\ IF Quiet THEN UNCHANGED <<disturbed, faults>>
              ELSE Spend("overlap") /\ disturbed' = TRUE
  /\ job' = [job EXCEPT ![j] = Deciding(eligible)]
  /\ UNCHANGED <<eligible, table, cache, pipe>>

\* findExistingCluster: the Map answers in the order of insertion.
ExistingCluster == oldest

\* The members of the remembered cluster that were not read, in their order, and
\* of these the ones whose timestamp is old enough.
Missing(nodes) == SelectSeq(ExistingCluster.members, LAMBDA m : m \notin nodes)
LongGone(m)    == offline[m] = Grace

\* Mutant: a cluster is kept while any member of it is left.
ReformsIfDeserted(nodes) ==
  \/ oldest = NoCluster
  \/ oldest.age = MinAge /\ Len(Missing(nodes)) = Len(oldest.members)

\* shouldReformCluster, if there is a cluster to ask about.
Reforms(nodes) ==
  \/ ExistingCluster = NoCluster
  \/ /\ ExistingCluster.age = MinAge
     /\ Missing(nodes) # <<>>
     /\ \A i \in DOMAIN Missing(nodes) : LongGone(Missing(nodes)[i])

\* The first missing member that is not long gone is marked, if it has no mark.
Mark(nodes) ==
  LET unripe == IF ExistingCluster = NoCluster THEN <<>>
                ELSE SelectSeq(Missing(nodes), LAMBDA m : ~LongGone(m))
  IN  offline' = IF /\ unripe # <<>> /\ ExistingCluster.age = MinAge
                    /\ offline[Head(unripe)] = Never
                 THEN [offline EXCEPT ![Head(unripe)] = 0] ELSE offline

Needed == CHOOSE k \in 1..Required :
            k * NodeMemory >= Required /\ (k - 1) * NodeMemory < Required

\* The fastest nodes, fastest first, as many as it takes.  (Of equally fast ones the
\* order of the query's answer decides.)
Selections(nodes) ==
  {s \in Injection(1..Needed, nodes) :
     /\ \A i, k \in 1..Needed : i < k => Speed[s[i]] >= Speed[s[k]]
     /\ \A i \in 1..Needed, n \in nodes \ Range(s) : Speed[s[i]] >= Speed[n]}

Enough(nodes) == Cardinality(nodes) * NodeMemory >= Required

\* randomBytes: an identifier nobody has, nor will have again.
Used == {row[n].cluster : n \in Nodes} \cup {job[j].id : j \in Jobs}
        \cup {c.id : c \in {oldest, newest} \ {NoCluster}}
        \cup {pipe[o].entity[n].cluster : o \in Operations, n \in Nodes}

FreshId == LET free == Ids \ Used IN CHOOSE id \in free : \A other \in free : id <= other

Decide(j) ==
  LET nodes == job[j].nodes
  IN  /\ job[j].pc = "decide"
      /\ IF nodes = {} THEN UNCHANGED offline ELSE Mark(nodes)
      /\ IF Reforms(nodes) /\ Enough(nodes)
         THEN \E members \in Selections(nodes) :
                job' = [job EXCEPT ![j] = Writing(FreshId, members, 0)]
         ELSE Stop(j)
      /\ UNCHANGED <<eligible, table, oldest, newest, pipe, disturbed, faults>>

\* upsertClusterAssignment, and after the last of them the entry in the Map.
\* Mutant: a coordinator that stays in its mode as a member of a later cluster.
RowWithOldMode(j, i) ==
  LET members == job[j].members
      old     == row[members[i]].mode
  IN  [cluster |-> job[j].id,
       mode  |-> IF old # "standalone" THEN old
                 ELSE IF i = 1 THEN "coordinator" ELSE "rpc-server",
       first |-> LayersUpTo(members)[i - 1],
       last  |-> LayersUpTo(members)[i]]

MemberRow(j, i) ==
  LET members == job[j].members
  IN  [cluster |-> job[j].id,
       mode  |-> IF i = 1 THEN "coordinator" ELSE "rpc-server",
       first |-> LayersUpTo(members)[i - 1],
       last  |-> LayersUpTo(members)[i]]

Remember(j) ==
  LET info == [id |-> job[j].id, members |-> job[j].members, age |-> 0]
  IN  /\ oldest' = IF oldest = NoCluster THEN info ELSE oldest
      /\ newest' = info

Upsert(j) ==
  LET members == job[j].members
      i       == job[j].written + 1
  IN  /\ job[j].pc = "upsert"
      /\ row' = [row EXCEPT ![members[i]] = MemberRow(j, i)]
      /\ rewritten' = rewritten \ {members[i]}
      /\ IF i = Len(members)
         THEN Remember(j) /\ Stop(j)
         ELSE /\ job' = [job EXCEPT ![j] = Writing(job[j].id, members, i)]
              /\ UNCHANGED <<oldest, newest>>
      /\ UNCHANGED <<eligible, offline, pipe, disturbed, faults>>

\* A read or a save fails: formClusters catches it and the run is over.
Fail(j) ==
  /\ job[j].pc # "idle"
  /\ Spend("failure")
  /\ Stop(j)
  /\ disturbed' = (disturbed \/ job[j].written > 0)
  /\ UNCHANGED <<eligible, table, cache, pipe>>

(***************************************************************************)
(* PipelineService on the same table (its guards, failures and the rest of *)
(* its columns are in PipelineService).  A save writes every column of an  *)
(* entity that was read before, those of the cluster among them.           *)
(***************************************************************************)
\* registerNode or markReady reads the row of its node.
ReadRow(o, n) ==
  /\ pipe[o].pc = "idle"
  /\ Spend("pipeline")
  /\ \E phase \in {"register", "save"} :
       pipe' = [pipe EXCEPT ![o] = Saving(phase, <<n>>, Copies({n}))]
  /\ UNCHANGED <<eligible, table, cache, job, disturbed>>

\* removeStaleNodes deletes rows nobody has written for ten minutes.
RemoveRows(o, nodes) ==
  /\ pipe[o].pc = "idle"
  /\ Spend("pipeline")
  /\ \E n \in nodes : row[n] # NoRow
  /\ row' = [n \in Nodes |-> IF n \in nodes THEN NoRow ELSE row[n]]
  /\ rewritten' = rewritten \cup {n \in nodes : row[n] # NoRow}
  /\ pipe' = [pipe EXCEPT ![o] = Splitting]
  /\ UNCHANGED <<eligible, cache, job, disturbed>>

\* The entities of assignLayers: rows that have a share of all layers, whoever is in
\* a cluster or not, in proportion to the weights.
Assigned(active) ==
  LET shares   == Split([i \in DOMAIN active |-> Capacity[active[i]]], Layers)
      share(n) == shares[CHOOSE i \in DOMAIN active : active[i] = n]
  IN  [n \in Nodes |->
         IF n \notin Range(active) \/ row[n].cluster = 0 THEN NoRow
         ELSE [row[n] EXCEPT !.first = share(n).first, !.last = share(n).last]]

ReadActive(o) ==
  /\ pipe[o].pc = "layers"
  /\ \E active \in Orders :
       pipe' = [pipe EXCEPT ![o] = Saving("save", active, Assigned(active))]
  /\ UNCHANGED <<eligible, table, cache, job, disturbed, faults>>

AfterSave(o) ==
  LET todo   == Tail(pipe[o].todo)
      entity == [pipe[o].entity EXCEPT ![Head(pipe[o].todo)] = NoRow]
  IN  IF pipe[o].pc = "register" THEN Splitting
      ELSE IF todo = <<>> THEN Resting ELSE Saving("save", todo, entity)

SaveRow(o) ==
  LET n == Head(pipe[o].todo)
  IN  /\ pipe[o].pc \in {"register", "save"}
      /\ row' = [row EXCEPT ![n] = pipe[o].entity[n]]
      /\ rewritten' = IF row[n] = pipe[o].entity[n] THEN rewritten ELSE rewritten \cup {n}
      /\ pipe' = [pipe EXCEPT ![o] = AfterSave(o)]
      /\ UNCHANGED <<eligible, cache, job, disturbed, faults>>

\* A registration found no row, and cannot insert one by now: it reads the row.
FindDuplicate(o) ==
  LET n == Head(pipe[o].todo)
  IN  /\ pipe[o].pc = "register" /\ pipe[o].entity[n] = NoRow /\ row[n] # NoRow
      /\ pipe' = [pipe EXCEPT ![o] = Saving("register", <<n>>, Copies({n}))]
      /\ UNCHANGED <<eligible, table, cache, job, disturbed, faults>>

\* A call fails, or there is no recent row.
GiveUp(o) ==
  /\ pipe[o].pc # "idle"
  /\ pipe' = [pipe EXCEPT ![o] = Resting]
  /\ UNCHANGED <<eligible, table, cache, job, disturbed, faults>>

Restart ==
  /\ Spend("restart")
  /\ oldest' = NoCluster /\ newest' = NoCluster
  /\ offline' = [n \in Nodes |-> Never]
  /\ job' = [j \in Jobs |-> Idle]
  /\ pipe' = [o \in Operations |-> Resting]
  /\ disturbed' = FALSE
  /\ UNCHANGED <<eligible, table>>

-----------------------------------------------------------------------------
Init ==
  /\ eligible = {}
  /\ row = [n \in Nodes |-> NoRow]
  /\ oldest = NoCluster /\ newest = NoCluster
  /\ offline = [n \in Nodes |-> Never]
  /\ job = [j \in Jobs |-> Idle]
  /\ pipe = [o \in Operations |-> Resting]
  /\ rewritten = {}
  /\ disturbed = FALSE
  /\ faults \in Budgets

Run(j) == Decide(j) \/ Upsert(j)

Pipeline(o) ==
  \/ \E n \in Nodes : ReadRow(o, n)
  \/ \E nodes \in SUBSET Nodes : RemoveRows(o, nodes)
  \/ ReadActive(o) \/ SaveRow(o) \/ FindDuplicate(o) \/ GiveUp(o)

Next ==
  \/ \E n \in Nodes : Join(n) \/ Leave(n)
  \/ Tick
  \/ \E j \in Jobs : ReadNodes(j) \/ Run(j) \/ Fail(j)
  \/ \E o \in Operations : Pipeline(o)
  \/ Restart

Fires(j) == Quiet /\ ReadNodes(j)

Spec == Init /\ [][Next]_vars

\* Time passes, the cron job fires again when it is over, and its awaits end.
FairSpec ==
  /\ Spec
  /\ WF_vars(Tick)
  /\ WF_vars(\E j \in Jobs : Fires(j) \/ Run(j))

-----------------------------------------------------------------------------
TypeOK ==
  /\ eligible \subseteq Nodes
  /\ row \in [Nodes -> Row] /\ rewritten \subseteq Nodes
  /\ \A n \in Nodes \ rewritten : row[n].last <= Layers
  /\ {oldest, newest} \subseteq Entry \cup {NoCluster}
  /\ oldest = NoCluster <=> newest = NoCluster
  /\ offline \in [Nodes -> 0..Grace \cup {Never}]
  /\ \A j \in Jobs :
       /\ job[j].pc \in Stages
       /\ job[j].nodes \subseteq Nodes
       /\ job[j].id \in Ids \cup {0}
       /\ job[j].members \in Seq(Nodes)
       /\ job[j].pc = "upsert" => job[j].written \in 0..Len(job[j].members) - 1
  /\ \A o \in Operations :
       /\ pipe[o].pc \in Phases
       /\ pipe[o].todo \in Seq(Nodes) /\ pipe[o].entity \in [Nodes -> Row]
       /\ pipe[o].pc \in {"register", "save"} => pipe[o].todo # <<>>
  /\ disturbed \in BOOLEAN
  /\ faults \in [FaultKinds -> Nat]

Holds(n, l) == row[n].first <= l /\ l < row[n].last

\* Two nodes that are told the same cluster never hold the same layer, and none
\* holds more than its memory: whatever the speeds, while a cluster is being
\* formed, after a formation that failed, and when two runs overlap.  But only as
\* far as PipelineService has not changed a row since: assignLayers knows neither
\* clusters nor their memory.
SharesFit ==
  \A n \in Nodes \ rewritten : row[n].cluster # 0 =>
    /\ row[n].last - row[n].first <= Larger(1, MemoryCap)
    /\ \A o \in Nodes \ (rewritten \cup {n}) : row[o].cluster = row[n].cluster =>
         \A l \in 0..Layers - 1 : ~(Holds(n, l) /\ Holds(o, l))

\* getNodeAssignment: the peers a coordinator is told to use.
Peers(n) == {m \in Nodes : row[m].cluster = row[n].cluster /\ row[m].mode = "rpc-server"}
Team(n)  == {n} \cup Peers(n)

\* "Source of truth is DB, this is cache": in a process in which no two runs
\* overlapped and no formation broke off, the newest cluster remembered is what its
\* coordinator is told, and its layers are shared without a gap, but for what exceeds
\* the memory of the last member -- whatever rows the processes before have left,
\* and whatever stale copies PipelineService has saved of rows of other nodes; of
\* the members' own rows it may not have been the last to change one.
RememberedIsWhole ==
  Quiet /\ ~disturbed /\ newest # NoCluster /\ Range(newest.members) \cap rewritten = {} =>
    LET members == newest.members
        n       == Len(members)
    IN  /\ row[members[1]].mode = "coordinator"
        /\ Team(members[1]) = Range(members)
        /\ row[members[1]].first = 0
        /\ \A i \in 1..n - 1 : row[members[i]].last = row[members[i + 1]].first
        /\ \/ row[members[n]].last = Layers
           \/ row[members[n]].last - row[members[n]].first = Larger(1, MemoryCap)

\* A coordinator has peers with it that are all there and have the memory.
Served == \E n \in eligible :
  row[n].mode = "coordinator" /\ Peers(n) \subseteq eligible /\ Enough(Team(n))

EnoughLeft == \E team \in SUBSET eligible : Enough(team)

\* The cluster that findExistingCluster answers lacks a member, or there is none.
Incomplete == oldest = NoCluster \/ ~(Range(oldest.members) \subseteq eligible)

\* While enough nodes are left and the oldest cluster of the process lacks a member
\* for good, a cluster of nodes that are there comes about again and again:
\* whatever runs failed or overlapped, and whatever rows were left over, removed or
\* overwritten by PipelineService.
ReplacedInTheEnd == <>[](EnoughLeft /\ Incomplete) => []<>Served
=============================================================================

-------------------------- MODULE PipelineService --------------------------
(***************************************************************************)
(* The pipeline of one model: PipelineService with the rows of table       *)
(* pipeline_assignments, the nodes that sign registrations and readiness,  *)
(* the network, and the job that removes silent nodes.                     *)
(*                                                                         *)
(* Every operation reads rows, awaits, and saves them whole: what another  *)
(* operation wrote in between is overwritten.  Every await is a step       *)
(* boundary.  A registration ends with assignLayers, which splits the      *)
(* layers of the model over all nodes heard of in the last ten minutes.    *)
(***************************************************************************)
EXTENDS Integers, Sequences, FiniteSets, LayerSplit

CONSTANTS
  Nodes,       \* by lowercase address
  Requests,    \* requests the process may have in flight at once
  Cleaner,     \* the job of removeStaleNodes
  NoMessage,   \* what an idle process holds
  Layers,      \* MODEL_LAYERS of the model
  Weights,     \* the capacities (VRAM or RAM) a node may register with
  MaxSent,     \* bound: the messages signed by all nodes
  MaxFaults    \* bound: how often each kind of fault occurs

\* silence: a node is not heard of for ten minutes; failure: a call to the chain,
\* a read or a save fails, or the process dies.
FaultKinds == {"silence", "failure"}
Kinds      == {"register", "ready"}

ASSUME BoundsAssumption ==
  /\ IsFiniteSet(Nodes)
  /\ Cleaner \notin Requests
  /\ Layers \in Nat \ {0}
  /\ Weights \subseteq Nat \ {0}
  /\ MaxSent \in Nat
  /\ MaxFaults \in [FaultKinds -> Nat]

VARIABLES
  row,        \* table pipeline_assignments; id 0: no row
  fresh,      \* nodes whose row has a recent updatedAt
  ids,        \* the last id given to a row (rows are sorted by creation)
  seen,       \* lastRegistrationTimestamp and lastReadyTimestamp
  process,    \* the requests in flight, and the cleaner
  clock,      \* messages signed by each node
  sent,       \* the messages; delivered in any order, any number of times
  answered,   \* history: timestamp of a node's last message answered a success
  disturbed,  \* history: two operations overlapped, a call failed or the process
              \* restarted
  settled,    \* history: the layers were split with nothing else in flight, and
              \* since then nothing overlapped or failed and no node came back
              \* after the ten minutes
  faults

table   == <<row, fresh, ids>>
agents  == <<clock, sent>>
history == <<disturbed, settled>>
vars    == <<table, seen, process, agents, answered, history, faults>>

Processes == Requests \cup {Cleaner}
Message == [kind: Kinds, node: Nodes, ts: Nat, weight: Weights \cup {0}]
Row     == [id: Nat, ready: BOOLEAN, weight: Weights \cup {0}, first: Nat, last: Nat]
NoRow   == [id |-> 0, ready |-> FALSE, weight |-> 0, first |-> 0, last |-> 0]
Stages  == {"idle", "find", "save", "findAgain", "saveAgain", "delete",
            "layers", "assign", "answer"}
Idle    == [pc |-> "idle", msg |-> NoMessage, entity |-> NoRow, todo |-> <<>>]

Present(n) == row[n].id # 0
Stale      == {n \in Nodes : Present(n) /\ n \notin fresh}
Busy(p)    == process[p].pc # "idle"
Quiet      == \A p \in Processes : ~Busy(p)
Goto(p, stage) == process' = [process EXCEPT ![p].pc = stage]
\* Go on without the entities at hand.
Proceed(p, stage) ==
  process' = [process EXCEPT ![p] = [Idle EXCEPT !.pc = stage, !.msg = process[p].msg]]
Spend(kind) == /\ faults[kind] > 0
               /\ faults' = [faults EXCEPT ![kind] = @ - 1]
Fail        == Spend("failure") /\ disturbed' = TRUE /\ settled' = FALSE
Fine        == UNCHANGED <<history, faults>>

(***************************************************************************)
(* The nodes and the time.                                                 *)
(***************************************************************************)
Sign(n, m) ==
  /\ Cardinality(sent) < MaxSent
  /\ clock' = [clock EXCEPT ![n] = @ + 1]
  /\ sent' = sent \cup {m}
  /\ UNCHANGED <<table, seen, process, answered, history, faults>>

SignRegistration(n) ==
  \E w \in Weights :
    Sign(n, [kind |-> "register", node |-> n, ts |-> clock[n] + 1, weight |-> w])

\* A node is ready when its registration has been answered.
SignReady(n) ==
  /\ clock[n] > 0 /\ answered[n] = clock[n]
  /\ Sign(n, [kind |-> "ready", node |-> n, ts |-> clock[n] + 1, weight |-> 0])

\* (No request takes ten minutes, so a node with one in flight does not grow stale.)
Silence(n) ==
  /\ n \in fresh
  /\ \A p \in Requests : Busy(p) => process[p].msg.node # n
  /\ Spend("silence")
  /\ fresh' = fresh \ {n}
  /\ UNCHANGED <<row, ids, seen, process, agents, answered, history>>

\* recordMetrics: a usage report is a sign of life.
Touch(n) ==
  /\ n \in Stale
  /\ fresh' = fresh \cup {n}
  /\ settled' = FALSE
  /\ UNCHANGED <<row, ids, seen, process, agents, answered, disturbed, faults>>

(***************************************************************************)
(* assignmentRepo.save writes every column of an entity that was read (or  *)
(* made) before.  Without a row of its id it inserts, which the unique key *)
(* on the node may forbid; a save that changes nothing leaves updatedAt.   *)
(* (A registration's memory sizes are numbers, those of a row strings, so  *)
(* that saving a registration always changes something.)                   *)
(***************************************************************************)
Duplicate(n, entity) == Present(n) /\ row[n].id # entity.id

Store(n, entity, dirty) ==
  LET id == IF entity.id = 0 THEN ids + 1 ELSE entity.id
  IN  /\ ~Duplicate(n, entity)
      /\ row' = [row EXCEPT ![n] = [entity EXCEPT !.id = id]]
      /\ fresh' = IF dirty \/ row' # row THEN fresh \cup {n} ELSE fresh
      /\ ids' = IF entity.id = 0 THEN id ELSE ids

(***************************************************************************)
(* registerNode and markReady.                                             *)
(***************************************************************************)
\* Mutant: no guard against replays.
AcceptsReplays(m) == TRUE

Accepts(m) == m.ts > seen[m.kind][m.node]

Start(p, record) ==
  /\ process' = [process EXCEPT ![p] = record]
  /\ disturbed' = (disturbed \/ ~Quiet)
  /\ settled' = (settled /\ Quiet)

Stop(p) == process' = [process EXCEPT ![p] = Idle]

Admit(p, m) ==
  /\ ~Busy(p)
  /\ Accepts(m)
  /\ Start(p, [Idle EXCEPT !.pc = "find", !.msg = m])
  /\ UNCHANGED <<table, seen, agents, answered, faults>>

\* The row as the message changes it.
Changed(old, m) ==
  IF m.kind = "register" THEN [old EXCEPT !.weight = m.weight, !.ready = FALSE]
                         ELSE [old EXCEPT !.ready = TRUE]

\* (With the signature, isAgentRegisteredOnChain and sponsorRegisterAgent before.)
FindRow(p) ==
  LET m   == process[p].msg
      old == row[m.node]
  IN  /\ process[p].pc = "find"
      /\ \/ /\ m.kind = "register" \/ Present(m.node)
            /\ process' = [process EXCEPT ![p].pc = "save", ![p].entity = Changed(old, m)]
            /\ Fine
         \/ /\ m.kind = "ready" /\ ~Present(m.node)
            /\ Stop(p) /\ Fine
         \/ Stop(p) /\ Fail
      /\ UNCHANGED <<table, seen, agents, answered>>

SaveRow(p) ==
  LET m == process[p].msg
  IN  /\ process[p].pc \in {"save", "saveAgain"}
      /\ \/ /\ Store(m.node, process[p].entity, m.kind = "register")
            /\ Proceed(p, IF m.kind = "register" THEN "layers" ELSE "answer")
            /\ settled' = (settled /\ (m.kind = "ready" => m.node \in fresh))
            /\ UNCHANGED <<disturbed, faults>>
         \/ /\ Duplicate(m.node, process[p].entity)
            /\ IF m.kind = "register" /\ process[p].pc = "save"
               THEN Proceed(p, "findAgain") ELSE Stop(p)
            /\ Fine /\ UNCHANGED table
         \/ Stop(p) /\ Fail /\ UNCHANGED table
      /\ UNCHANGED <<seen, agents, answered>>

\* The duplicate is read and updated instead, if it is still there.
FindDuplicate(p) ==
  LET m == process[p].msg
  IN  /\ process[p].pc = "findAgain"
      /\ \/ /\ IF Present(m.node)
               THEN process' = [process EXCEPT ![p].pc = "saveAgain",
                                               ![p].entity = Changed(row[m.node], m)]
               ELSE Goto(p, "layers")
            /\ Fine
         \/ Stop(p) /\ Fail
      /\ UNCHANGED <<table, seen, agents, answered>>

(***************************************************************************)
(* assignLayers.  It catches its own errors, so that a failed save leaves  *)
(* the rest of the nodes as they were, and the caller goes on.             *)
(***************************************************************************)
Active == {n \in Nodes : Present(n) /\ n \in fresh}

\* Mutant: the split does not look whether there is a node.
NeverEmpty == FALSE

NoneActive == Active = {}

\* The active nodes, oldest first.
ByAge ==
  {nodes \in [1..Cardinality(Active) -> Active] :
     \A i, j \in DOMAIN nodes : i < j => row[nodes[i]].id < row[nodes[j]].id}

\* The rows of nodes, with their new shares.
Assignment(nodes) ==
  LET shares == Split([i \in DOMAIN nodes |-> row[nodes[i]].weight], Layers)
  IN  [i \in DOMAIN nodes |->
         [node |-> nodes[i],
          entity |-> [row[nodes[i]] EXCEPT !.first = shares[i].first,
                                           !.last = shares[i].last]]]

AfterLayers(p) == IF p = Cleaner THEN Stop(p) ELSE Proceed(p, "answer")

ReadActive(p) ==
  /\ process[p].pc = "layers"
  /\ \/ /\ ~NoneActive
        /\ \E nodes \in ByAge :
             process' = [process EXCEPT ![p].pc = "assign", ![p].todo = Assignment(nodes)]
        /\ settled' = \A o \in Processes \ {p} : ~Busy(o)
        /\ UNCHANGED <<disturbed, faults>>
     \/ NoneActive /\ AfterLayers(p) /\ Fine
     \/ AfterLayers(p) /\ Fail
  /\ UNCHANGED <<table, seen, agents, answered>>

SaveShare(p) ==
  LET next == Head(process[p].todo)
      rest == Tail(process[p].todo)
  IN  /\ process[p].pc = "assign"
      /\ \/ /\ Store(next.node, next.entity, FALSE)
            /\ IF rest = <<>> THEN AfterLayers(p)
                              ELSE process' = [process EXCEPT ![p].todo = rest]
            /\ Fine
         \/ Duplicate(next.node, next.entity) /\ AfterLayers(p) /\ Fine /\ UNCHANGED table
         \/ AfterLayers(p) /\ Fail /\ UNCHANGED table
      /\ UNCHANGED <<seen, agents, answered>>

\* The Maps are written when all is done (a registration reads its row once more).
Answer(p) ==
  LET m == process[p].msg
  IN  /\ process[p].pc = "answer"
      /\ Stop(p)
      /\ \/ /\ seen' = [seen EXCEPT ![m.kind][m.node] = m.ts]
            /\ answered' = [answered EXCEPT ![m.node] = m.ts]
            /\ Fine
         \/ m.kind = "register" /\ Fail /\ UNCHANGED <<seen, answered>>
      /\ UNCHANGED <<table, agents>>

(***************************************************************************)
(* removeStaleNodes.                                                       *)
(***************************************************************************)
FindStale ==
  /\ ~Busy(Cleaner)
  /\ Stale # {}
  /\ Start(Cleaner, [Idle EXCEPT !.pc = "delete"])
  /\ UNCHANGED <<table, seen, agents, answered, faults>>

\* Mutant: the layers of the removed nodes stay with nobody.
NoNewSplit == Stop(Cleaner)

AfterRemoval == Goto(Cleaner, "layers")

DeleteStale ==
  /\ process[Cleaner].pc = "delete"
  /\ \/ /\ row' = [n \in Nodes |-> IF n \in Stale THEN NoRow ELSE row[n]]
        /\ IF Stale = {} THEN Stop(Cleaner) ELSE AfterRemoval
        /\ Fine
     \/ Stop(Cleaner) /\ Fail /\ UNCHANGED row
  /\ UNCHANGED <<fresh, ids, seen, agents, answered>>

Restart ==
  /\ Fail
  /\ seen' = [k \in Kinds |-> [n \in Nodes |-> 0]]
  /\ process' = [p \in Processes |-> Idle]
  /\ UNCHANGED <<table, agents, answered>>

-----------------------------------------------------------------------------
Init ==
  /\ row = [n \in Nodes |-> NoRow]
  /\ fresh = {}
  /\ ids = 0
  /\ seen = [k \in Kinds |-> [n \in Nodes |-> 0]]
  /\ process = [p \in Processes |-> Idle]
  /\ clock = [n \in Nodes |-> 0]
  /\ sent = {}
  /\ answered = [n \in Nodes |-> 0]
  /\ disturbed = FALSE
  /\ settled = FALSE
  /\ faults = MaxFaults

Handle(p) ==
  \/ FindRow(p) \/ SaveRow(p) \/ FindDuplicate(p)
  \/ ReadActive(p) \/ SaveShare(p) \/ Answer(p)

Clean == FindStale \/ DeleteStale

Next ==
  \/ \E n \in Nodes : SignRegistration(n) \/ SignReady(n) \/ Silence(n) \/ Touch(n)
  \/ \E p \in Requests, m \in sent : Admit(p, m)
  \/ \E p \in Processes : Handle(p)
  \/ Clean
  \/ Restart

Spec == Init /\ [][Next]_vars

-----------------------------------------------------------------------------
TypeOK ==
  /\ row \in [Nodes -> Row]
  /\ ids \in Nat /\ \A n \in Nodes : row[n].id <= ids
  /\ fresh \subseteq Nodes
  /\ seen \in [Kinds -> [Nodes -> Nat]]
  /\ \A p \in Processes :
       /\ process[p].pc \in Stages
       /\ process[p].msg \in Message \cup {NoMessage}
       /\ process[p].entity \in Row
       /\ process[p].todo \in Seq([node: Nodes, entity: Row])
       /\ process[p].pc = "assign" <=> process[p].todo # <<>>
  /\ clock \in [Nodes -> 0..MaxSent]
  /\ sent \subseteq Message
  /\ answered \in [Nodes -> 0..MaxSent]
  /\ history \in BOOLEAN \X BOOLEAN
  /\ faults \in [FaultKinds -> Nat]

Holds(n, l) == Present(n) /\ row[n].first <= l /\ l < row[n].last

\* At rest, with no node silent, every layer of the model is held by exactly one
\* node, if the layers were last split by a registration or a removal that ran
\* alone: whatever overlaps, failures and restarts came before, and whoever
\* joined or left, it leaves neither a gap nor an overlap.
LayersCovered ==
  settled /\ Quiet /\ Stale = {} /\ fresh # {} =>
    \A l \in 0..Layers - 1 : \E n \in Nodes :
      Holds(n, l) /\ \A o \in Nodes : Holds(o, l) => o = n

\* A node whose last word was that it is ready, and was answered so, is ready,
\* whatever older messages of it are delivered again or late, and whatever the
\* other nodes do -- while operations come one at a time and no call fails.
ReadyLastsAlone ==
  ~disturbed => \A m \in sent :
    /\ m.kind = "ready" /\ m.ts = clock[m.node] /\ answered[m.node] = m.ts
    /\ Present(m.node)
    => row[m.node].ready

\* The documentation of the pipeline: the layers are assigned in proportion, the
\* last node taking the remainder.  Every share is a range, if an empty one.
SharesAreRanges ==
  \A n \in Nodes : row[n].first <= row[n].last
=============================================================================

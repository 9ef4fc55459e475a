------------------------- MODULE NodesService_proofs -------------------------
(***************************************************************************)
(* For any number of nodes, requests, registrations and faults: the types  *)
(* of the node table and of the operations on it, that no row is ever      *)
(* written for an agent the chain does not know, when a registry is        *)
(* configured, and that a row keeps the newest registration of its node.   *)
(***************************************************************************)
EXTENDS NodesService, TLAPS

Operation == [pc: Stages, node: Nodes \cup {Nobody}, ts: 0..MaxSent, entity: Entities]

Saving == {"save", "insert", "saveReport", "saveScore"}

\* What an operation r may be, when the check lets the wallets known pass: whatever works
\* has a node, what saves holds a row, and a row is held for a wallet that passes only.
Sound(r, known) ==
  /\ r \in Operation
  /\ r.entity # NoRow <=> r.pc \in Saving
  /\ r.pc # "idle" => r.node \in Nodes
  /\ r.entity # NoRow => r.node \in known

AllSound ==
  /\ process \in [Processes -> Operation]
  /\ \A p \in Processes : Sound(process[p], Known)

Tables ==
  /\ row \in [Nodes -> Entities]
  /\ lastTs \in [Nodes -> 0..MaxSent] /\ answered \in [Nodes -> 0..MaxSent]
  /\ watched \in [Nodes -> 0..MonitorTimeout]
  /\ listed \subseteq Nodes /\ onChain \subseteq Nodes /\ orphans \subseteq Nodes
  /\ alive \subseteq Nodes /\ settled \subseteq Nodes
  /\ signed \in [Nodes -> 0..MaxSent]
  /\ deliverable \in [Nodes -> SUBSET (1..MaxSent)]
  /\ faults \in 0..MaxFaults

Sponsored ==
  /\ tx \in [Requests -> {"none", "pending", "success", "reverted"}]
  /\ \A h \in Requests : tx[h] # "none" => process[h].pc = "receipt"

\* The inductive strengthening of RowsOnlyForAgents: the rows in hand are of agents too.
RowsInv == Tables /\ AllSound /\ Sponsored /\ RowsOnlyForAgents

LEMMA InvHasTypes == RowsInv => TypeOK
  BY DEF RowsInv, Tables, AllSound, Sponsored, TypeOK, Sound, Operation, Saving, At

LEMMA NoRowIsNone == NoRow \in Entities /\ NoRow \notin Row
  BY DEF Entities, NoRow, Row

LEMMA NewRow ==
  ASSUME NEW d \in 0..MaxSent
  PROVE  [status |-> "active", data |-> d, beat |-> 0] \in Row
  BY DEF Row, Ages, Timeout

LEMMA IdleIsSound == ASSUME NEW known PROVE Sound(Idle, known)
  BY NodesAssumption, NoRowIsNone DEF Sound, Idle, Operation, Stages, Saving

\* What a report makes of a row is a row.
LEMMA RevivedIsRow == ASSUME NEW e \in Row PROVE Revived(e) \in Row
<1> DEFINE touched == [e EXCEPT !.beat = 0]
<1>1. touched \in Row
  BY DEF Row, Ages, Timeout
<1>2. [touched EXCEPT !.status = "active"] \in Row
  <2> HIDE DEF touched
  <2> QED
    BY <1>1 DEF Row
<1> QED
  BY <1>2 DEF Revived

\* Growing older by five minutes.
LEMMA OlderType ==
  ASSUME NEW oldest \in Nat, NEW age \in 0..oldest
  PROVE  Older(age, oldest) \in 0..oldest
  BY DEF Older

LEMMA FaultType == ASSUME Tables, Fault PROVE faults' \in 0..MaxFaults
  BY NodesAssumption DEF Fault, Tables

LEMMA RegisteredType ==
  ASSUME Tables, NEW n, NEW answer \in BOOLEAN, Registered(n, answer)
  PROVE  faults' \in 0..MaxFaults /\ (answer => n \in Known)
  BY FaultType DEF Registered, Tables

LEMMA OverlapsType ==
  ASSUME Tables, NEW n, Overlaps(n) PROVE settled' \subseteq Nodes
  BY DEF Overlaps, Tables

\* The chain may come to know more agents.
LEMMA StaysSound ==
  ASSUME AllSound, UNCHANGED process, onChain \subseteq onChain'
  PROVE  AllSound'
  BY DEF AllSound, Sound, Known

\* One process goes on with operation r.
LEMMA OneProcess ==
  ASSUME AllSound, NEW p \in Processes, NEW r, Sound(r, Known),
         process' = [process EXCEPT ![p] = r], UNCHANGED onChain
  PROVE  AllSound'
<1>1. \A q \in Processes : process'[q] = IF q = p THEN r ELSE process[q]
  BY DEF AllSound
<1>2. process' \in [Processes -> Operation]
  BY DEF AllSound, Sound
<1> QED
  BY <1>1, <1>2 DEF AllSound, Known

\* The same with the transactions: a request that had one waits for it, or drops it.
LEMMA OneSponsored ==
  ASSUME AllSound, Sponsored, NEW p \in Processes, NEW r,
         process' = [process EXCEPT ![p] = r],
         UNCHANGED tx,
         process[p].pc = "receipt" => r.pc = "receipt"
  PROVE  Sponsored'
<1>1. \A q \in Processes : process'[q] = IF q = p THEN r ELSE process[q]
  BY DEF AllSound
<1> QED
  BY <1>1 DEF Sponsored, Processes

LEMMA InvInit == Init => RowsInv
<1> SUFFICES ASSUME Init PROVE RowsInv
  OBVIOUS
<1>1. Tables
  BY NodesAssumption, NoRowIsNone DEF Init, Tables, MonitorTimeout
<1>2. AllSound
  BY IdleIsSound DEF Init, AllSound, Sound
<1>3. Sponsored
  BY DEF Init, Sponsored
<1>4. RowsOnlyForAgents
  BY DEF Init, RowsOnlyForAgents, Present
<1> QED
  BY <1>1, <1>2, <1>3, <1>4 DEF RowsInv

\* Processes are named by Requests and the scorer.
LEMMA RequestsRun == Requests \subseteq Processes /\ Scorer \in Processes
  BY DEF Processes

\* An operation given up.
LEMMA StopStep ==
  ASSUME AllSound, Sponsored, NEW p \in Processes, process[p].pc # "receipt",
         Stop(p), UNCHANGED <<tx, onChain>>
  PROVE  AllSound' /\ Sponsored'
  BY IdleIsSound, OneProcess, OneSponsored DEF Stop

\* An operation that takes hold of a row of an agent, or lets go of one.
LEMMA HoldStep ==
  ASSUME AllSound, NEW p \in Processes, process[p].pc # "idle",
         NEW stage \in Stages \ {"idle"}, NEW entity \in Entities, Hold(p, stage, entity),
         entity # NoRow <=> stage \in Saving,
         entity # NoRow => process[p].node \in Known,
         UNCHANGED onChain
  PROVE  AllSound'
<1> DEFINE r == [pc |-> stage, node |-> process[p].node, ts |-> process[p].ts,
                 entity |-> entity]
<1>1. process[p] \in Operation /\ Sound(process[p], Known)
  BY DEF AllSound
<1>2. Sound(r, Known)
  BY <1>1 DEF Sound, Operation
<1>3. process' = [process EXCEPT ![p] = r]
  BY DEF Hold
<1> QED
  BY <1>2, <1>3, OneProcess

LEMMA HoldSponsored ==
  ASSUME AllSound, Sponsored, NEW p \in Processes, process[p].pc # "receipt",
         NEW stage, NEW entity, Hold(p, stage, entity), UNCHANGED tx
  PROVE  Sponsored'
  BY OneSponsored DEF Hold
\* A row saved for an agent of the chain.
LEMMA SaveStep ==
  ASSUME RowsInv, NEW n \in Nodes, NEW e \in Entities, n \in Known,
         row' = [row EXCEPT ![n] = e], UNCHANGED onChain
  PROVE  row' \in [Nodes -> Entities] /\ RowsOnlyForAgents'
  BY DEF Known, RowsInv, Tables, RowsOnlyForAgents, Present

\* Rows that stay, while the chain forgets nobody.
LEMMA SameRows ==
  ASSUME RowsInv, UNCHANGED row, onChain \subseteq onChain'
  PROVE  RowsOnlyForAgents'
  BY DEF RowsInv, RowsOnlyForAgents, Present

\* Rows of which only the contents change.
LEMMA ChangedRows ==
  ASSUME RowsInv, row' \in [Nodes -> Entities], UNCHANGED onChain,
         \A n \in Nodes : row[n] = NoRow => row'[n] = NoRow
  PROVE  RowsOnlyForAgents'
  BY DEF RowsInv, RowsOnlyForAgents, Present

LEMMA FailedStep ==
  ASSUME RowsInv, NEW p \in Processes, process[p].pc # "receipt", Failed(p)
  PROVE  RowsInv'
<1> USE DEF RowsInv
<1>1. Tables'
  BY FaultType DEF Failed, Tables, memory, chain, agents
<1>2. AllSound' /\ Sponsored'
  BY StopStep DEF Failed, chain
<1>3. RowsOnlyForAgents'
  BY SameRows DEF Failed, chain
<1> QED
  BY <1>1, <1>2, <1>3

LEMMA SaveHeldStep ==
  ASSUME RowsInv, NEW p \in Processes, process[p].pc \in {"saveReport", "saveScore"},
         SaveHeld(p)
  PROVE  RowsInv'
<1> USE DEF RowsInv
<1>1. /\ process[p].node \in Nodes /\ process[p].node \in Known
      /\ process[p].entity \in Entities
  BY DEF AllSound, Sound, Operation, Saving
<1>2. row' \in [Nodes -> Entities] /\ RowsOnlyForAgents'
  BY <1>1, SaveStep DEF SaveHeld, chain
<1>3. Tables'
  BY <1>2 DEF SaveHeld, Tables, memory, chain, agents
<1>4. AllSound' /\ Sponsored'
  BY StopStep DEF SaveHeld, chain
<1> QED
  BY <1>2, <1>3, <1>4

\* The row of a registration is held once the chain has answered that it knows the agent.
LEMMA FindNodeStep ==
  ASSUME RowsInv, NEW h \in Requests, process[h].pc \in {"check", "receipt"},
         Registered(process[h].node, TRUE), FindNode(h), UNCHANGED onChain
  PROVE  AllSound' /\ faults' \in 0..MaxFaults /\ settled' \subseteq Nodes
<1> USE DEF RowsInv
<1>1. process[h].node \in Known /\ faults' \in 0..MaxFaults
  BY RegisteredType
<1>2. h \in Processes /\ process[h].ts \in 0..MaxSent
  BY DEF Processes, AllSound, Operation
<1> DEFINE entity == [status |-> "active", data |-> process[h].ts, beat |-> 0]
<1>3. entity \in Entities /\ entity # NoRow
  BY <1>2, NewRow, NoRowIsNone DEF Entities
<1>4. Hold(h, "save", entity)
  BY DEF FindNode
<1> HIDE DEF entity
<1>5. AllSound'
  BY <1>1, <1>2, <1>3, <1>4, HoldStep DEF Stages, Saving
<1>6. settled' \subseteq Nodes
  BY OverlapsType DEF FindNode
<1> QED
  BY <1>1, <1>5, <1>6

LEMMA AdmitStep ==
  ASSUME RowsInv, NEW h \in Requests, NEW n \in Nodes, NEW ts \in deliverable[n],
         Admit(h, n, ts)
  PROVE  RowsInv'
<1> USE DEF RowsInv
<1> DEFINE r == [pc |-> "check", node |-> n, ts |-> ts, entity |-> NoRow]
<1>1. h \in Processes /\ ts \in 0..MaxSent
  BY NodesAssumption DEF Processes, Tables
<1>2. Sound(r, Known)
  BY <1>1, NoRowIsNone DEF Sound, Operation, Stages, Saving
<1>3. process' = [process EXCEPT ![h] = r] /\ process[h].pc = "idle"
  BY DEF Admit, Busy
<1>4. AllSound' /\ Sponsored'
  BY <1>1, <1>2, <1>3, OneProcess, OneSponsored DEF Admit, chain
<1>5. Tables'
  BY DEF Admit, Tables, memory, chain, agents
<1> QED
  BY <1>4, <1>5, SameRows DEF Admit, chain

LEMMA CheckChainStep ==
  ASSUME RowsInv, NEW h \in Requests, CheckChain(h)
  PROVE  RowsInv'
<1> USE DEF RowsInv
<1>1. h \in Processes /\ process[h].pc = "check"
  BY DEF CheckChain, At, Processes
<1>2. CASE Failed(h)
  BY <1>1, <1>2, FailedStep
<1>3. CASE /\ Registered(process[h].node, TRUE) /\ FindNode(h) /\ UNCHANGED tx
           /\ UNCHANGED <<row, memory, onChain, orphans, agents, answered>>
  <2>1. AllSound' /\ faults' \in 0..MaxFaults /\ settled' \subseteq Nodes
    BY <1>1, <1>3, FindNodeStep
  <2>2. Sponsored'
    BY <1>1, <1>3, HoldSponsored DEF FindNode
  <2>3. Tables'
    BY <1>3, <2>1 DEF Tables, memory, agents
  <2> QED
    BY <1>3, <2>1, <2>2, <2>3, SameRows
<1>4. CASE /\ Registered(process[h].node, FALSE) /\ SendSponsored(h) /\ UNCHANGED settled
           /\ UNCHANGED <<row, memory, onChain, orphans, agents, answered>>
  <2> DEFINE r == [process[h] EXCEPT !.pc = "receipt"]
  <2>1. Sound(r, Known) /\ r.pc = "receipt"
    BY <1>1 DEF AllSound, Sound, Operation, Stages, Saving
  <2>2. process' = [process EXCEPT ![h] = r]
    BY <1>4 DEF SendSponsored, Goto
  <2> HIDE DEF r
  <2>3. AllSound'
    BY <1>1, <1>4, <2>1, <2>2, OneProcess
  <2>4. Sponsored'
    BY <1>1, <1>4, <2>1, <2>2 DEF Sponsored, SendSponsored, AllSound, Processes
  <2>5. Tables'
    BY <1>4, RegisteredType DEF Tables, memory, agents
  <2> QED
    BY <1>4, <2>3, <2>4, <2>5, SameRows
<1> QED
  BY <1>2, <1>3, <1>4 DEF CheckChain

\* A request that stops waiting for its transaction.
LEMMA DropsSponsored ==
  ASSUME AllSound, Sponsored, NEW h \in Requests, NEW r,
         process' = [process EXCEPT ![h] = r],
         tx' = [tx EXCEPT ![h] = "none"]
  PROVE  Sponsored'
<1>1. \A q \in Requests : process'[q] = IF q = h THEN r ELSE process[q]
  BY DEF AllSound, Processes
<1> QED
  BY <1>1 DEF Sponsored

LEMMA ReceiptStep ==
  ASSUME RowsInv, NEW h \in Requests, Receipt(h)
  PROVE  RowsInv'
<1> USE DEF RowsInv
<1>1. /\ h \in Processes /\ process[h].pc = "receipt" /\ process[h].node \in Nodes
      /\ tx' = [tx EXCEPT ![h] = "none"]
      /\ UNCHANGED <<row, memory, onChain, agents, answered>>
  BY DEF Receipt, At, Processes, AllSound, Sound
<1>2. CASE Registered(process[h].node, TRUE) /\ FindNode(h) /\ UNCHANGED orphans
  <2>1. AllSound' /\ faults' \in 0..MaxFaults /\ settled' \subseteq Nodes
    BY <1>1, <1>2, FindNodeStep
  <2>2. Sponsored'
    BY <1>1, <1>2, DropsSponsored DEF FindNode, Hold
  <2>3. Tables'
    BY <1>1, <1>2, <2>1 DEF Tables, memory, agents
  <2> QED
    BY <1>1, <2>1, <2>2, <2>3, SameRows
<1>3. CASE /\ Stop(h) /\ UNCHANGED settled
           /\ faults' \in 0..MaxFaults /\ orphans' \subseteq Nodes
  <2>1. AllSound'
    BY <1>1, <1>3, IdleIsSound, OneProcess DEF Stop
  <2>2. Sponsored'
    BY <1>1, <1>3, DropsSponsored DEF Stop
  <2>3. Tables'
    BY <1>1, <1>3 DEF Tables, memory, agents
  <2> QED
    BY <1>1, <2>1, <2>2, <2>3, SameRows
<1> QED
  BY <1>1, <1>2, <1>3, RegisteredType, FaultType DEF Receipt, Tables

LEMMA SaveNodeStep ==
  ASSUME RowsInv, NEW h \in Requests, SaveNode(h)
  PROVE  RowsInv'
<1> USE DEF RowsInv
<1> DEFINE n == process[h].node
<1>1. /\ h \in Processes /\ process[h].pc = "save" /\ n \in Nodes /\ n \in Known
      /\ process[h].entity \in Entities /\ process[h].ts \in 0..MaxSent
  BY DEF SaveNode, At, Processes, AllSound, Sound, Operation, Saving
<1>2. CASE Failed(h)
  BY <1>1, <1>2, FailedStep
<1>3. CASE ~Failed(h)
  <2>1. /\ row' = [row EXCEPT ![n] = process[h].entity]
        /\ lastTs' = [lastTs EXCEPT ![n] = process[h].ts]
        /\ answered' = [answered EXCEPT ![n] = Larger(@, process[h].ts)]
        /\ settled' = settled \cup {n} \/ settled' = settled
        /\ Stop(h)
        /\ UNCHANGED <<watched, listed, chain, agents, faults>>
    BY <1>3 DEF SaveNode
  <2> HIDE DEF n
  <2>2. row' \in [Nodes -> Entities] /\ RowsOnlyForAgents'
    BY <1>1, <2>1, SaveStep DEF chain
  <2>3. Larger(answered[n], process[h].ts) \in 0..MaxSent
    BY <1>1 DEF Larger, Tables
  <2>4. Tables'
    BY <1>1, <2>1, <2>2, <2>3 DEF Tables, chain, agents
  <2>5. AllSound' /\ Sponsored'
    BY <1>1, <2>1, StopStep DEF chain
  <2> QED
    BY <2>2, <2>4, <2>5
<1> QED
  BY <1>2, <1>3

LEMMA StartReportStep ==
  ASSUME RowsInv, NEW h \in Requests, NEW n \in Nodes, StartReport(h, n)
  PROVE  RowsInv'
<1> USE DEF RowsInv
<1>1. h \in Processes /\ n \in Known /\ faults' \in 0..MaxFaults
  BY RegisteredType DEF StartReport, Processes
<1> DEFINE fresh == [status |-> "active", data |-> 0, beat |-> 0]
           r == [pc |-> IF Creates(n) THEN "insert" ELSE "saveReport", node |-> n,
                 ts |-> 0, entity |-> IF Creates(n) THEN fresh ELSE Revived(row[n])]
<1>2. fresh \in Row
  BY NodesAssumption, NewRow
<1>3. ~Creates(n) => Revived(row[n]) \in Row
  BY RevivedIsRow DEF Creates, Present, Tables, Entities
<1> HIDE DEF fresh
<1>4. Sound(r, Known)
  BY <1>1, <1>2, <1>3, NoRowIsNone, NodesAssumption
     DEF Sound, Operation, Stages, Saving, Entities
<1>5. process' = [process EXCEPT ![h] = r] /\ process[h].pc = "idle"
  BY DEF StartReport, Busy, fresh
<1> HIDE DEF r
<1>6. AllSound' /\ Sponsored'
  BY <1>1, <1>4, <1>5, OneProcess, OneSponsored DEF StartReport, chain
<1>7. Tables'
  BY <1>1, OverlapsType DEF StartReport, Tables, memory, chain, agents
<1> QED
  BY <1>6, <1>7, SameRows DEF StartReport, chain

LEMMA InsertNodeStep ==
  ASSUME RowsInv, NEW h \in Requests, InsertNode(h)
  PROVE  RowsInv'
<1> USE DEF RowsInv
<1>1. /\ h \in Processes /\ process[h].pc = "insert"
      /\ process[h].node \in Nodes /\ process[h].node \in Known
      /\ process[h].entity \in Entities
  BY DEF InsertNode, At, Processes, AllSound, Sound, Operation, Saving
<1>2. Hold(h, "findReporter", NoRow)
  BY DEF InsertNode
<1>3. AllSound' /\ Sponsored'
  BY <1>1, <1>2, NoRowIsNone, HoldStep, HoldSponsored DEF InsertNode, chain, Stages, Saving
<1>4. row' \in [Nodes -> Entities] /\ RowsOnlyForAgents'
  <2>1. CASE UNCHANGED row
    BY <2>1, SameRows DEF InsertNode, chain, Tables
  <2>2. CASE row' = [row EXCEPT ![process[h].node] = process[h].entity]
    BY <1>1, <2>2, SaveStep DEF InsertNode, chain
  <2> QED
    BY <2>1, <2>2 DEF InsertNode
<1>5. Tables'
  BY <1>4, FaultType DEF InsertNode, Tables, memory, chain, agents
<1> QED
  BY <1>3, <1>4, <1>5

\* A row that is found is of an agent the chain knows, and stays so while it is in hand.
LEMMA FoundStep ==
  ASSUME RowsInv, NEW p \in Processes, process[p].pc \in {"findReporter", "findScored"},
         NEW stage \in {"saveReport", "saveScore"},
         NEW entity, Found(process[p].node) => entity \in Row,
         IF Found(process[p].node) THEN Hold(p, stage, entity) ELSE Stop(p),
         Overlaps(process[p].node),
         UNCHANGED <<row, memory, chain, agents, answered, faults>>
  PROVE  RowsInv'
<1> USE DEF RowsInv
<1>1. process[p].node \in Nodes
  BY DEF AllSound, Sound
<1>2. AllSound' /\ Sponsored'
  <2>1. CASE Found(process[p].node)
    <3>1. process[p].node \in Known
      BY <1>1, <2>1 DEF Known, Found, RowsOnlyForAgents
    <3> QED
      BY <2>1, <3>1, NoRowIsNone, HoldStep, HoldSponsored DEF chain, Stages, Saving, Entities
  <2>2. CASE ~Found(process[p].node)
    BY <2>2, StopStep DEF chain
  <2> QED
    BY <2>1, <2>2
<1>3. Tables'
  BY OverlapsType DEF Tables, memory, chain, agents
<1> QED
  BY <1>2, <1>3, SameRows DEF chain

LEMMA FoundIsRow ==
  ASSUME RowsInv, NEW n \in Nodes, Found(n) PROVE row[n] \in Row
  BY DEF RowsInv, Tables, Found, Present, Entities

LEMMA FindReporterStep ==
  ASSUME RowsInv, NEW h \in Requests, FindReporter(h)
  PROVE  RowsInv'
<1>1. h \in Processes /\ process[h].pc = "findReporter" /\ process[h].node \in Nodes
  BY DEF FindReporter, At, Processes, RowsInv, AllSound, Sound
<1>2. CASE Failed(h)
  BY <1>1, <1>2, FailedStep
<1>3. CASE ~Failed(h)
  <2> DEFINE entity == Revived(row[process[h].node])
  <2>1. Found(process[h].node) => entity \in Row
    BY <1>1, FoundIsRow, RevivedIsRow
  <2>2. /\ IF Found(process[h].node) THEN Hold(h, "saveReport", entity) ELSE Stop(h)
        /\ Overlaps(process[h].node)
        /\ UNCHANGED <<row, memory, chain, agents, answered, faults>>
    BY <1>3 DEF FindReporter
  <2> HIDE DEF entity
  <2> QED
    BY <1>1, <2>1, <2>2, FoundStep
<1> QED
  BY <1>2, <1>3

LEMMA FindScoredStep ==
  ASSUME RowsInv, FindScored
  PROVE  RowsInv'
<1>1. /\ Scorer \in Processes /\ process[Scorer].pc = "findScored"
      /\ process[Scorer].node \in Nodes
  BY DEF FindScored, At, Processes, RowsInv, AllSound, Sound
<1>2. CASE Failed(Scorer)
  BY <1>1, <1>2, FailedStep
<1>3. CASE ~Failed(Scorer)
  BY <1>1, <1>3, FoundIsRow, FoundStep DEF FindScored
<1> QED
  BY <1>2, <1>3

LEMMA SaveReportStep ==
  ASSUME RowsInv, NEW h \in Requests, SaveReport(h)
  PROVE  RowsInv'
  BY FailedStep, SaveHeldStep DEF SaveReport, At, Processes

LEMMA SaveScoreStep ==
  ASSUME RowsInv, SaveScore
  PROVE  RowsInv'
  BY FailedStep, SaveHeldStep DEF SaveScore, At, Processes

LEMMA StartRoundStep ==
  ASSUME RowsInv, NEW n \in Nodes, StartRound(n)
  PROVE  RowsInv'
<1> USE DEF RowsInv
<1> DEFINE r == [pc |-> "findScored", node |-> n, ts |-> 0, entity |-> NoRow]
<1>1. Sound(r, Known)
  BY NodesAssumption, NoRowIsNone DEF Sound, Operation, Stages, Saving
<1>2. /\ Scorer \in Processes /\ process[Scorer].pc = "idle"
      /\ process' = [process EXCEPT ![Scorer] = r]
  BY DEF StartRound, Busy, Processes
<1> HIDE DEF r
<1>3. AllSound' /\ Sponsored'
  BY <1>1, <1>2, OneProcess, OneSponsored DEF StartRound, chain
<1>4. Tables'
  BY DEF StartRound, Tables, memory, chain, agents
<1> QED
  BY <1>3, <1>4, SameRows DEF StartRound, chain

(***************************************************************************)
(* The agents, the time, the chain and the monitor.                        *)
(***************************************************************************)
LEMMA ProcessesStay ==
  ASSUME RowsInv, UNCHANGED <<process, tx>>, onChain \subseteq onChain'
  PROVE  AllSound' /\ Sponsored'
  BY StaysSound DEF RowsInv, Sponsored

LEMMA AgentsStep ==
  ASSUME RowsInv, NEW n \in Nodes, SignRegistration(n) \/ Silence(n)
  PROVE  RowsInv'
<1> USE DEF RowsInv
<1>1. UNCHANGED <<row, process, onChain, tx>>
  BY DEF SignRegistration, Silence, chain
<1>2. CASE SignRegistration(n)
  <2>1. signed[n] + 1 \in 1..MaxSent
    BY <1>2, NodesAssumption DEF SignRegistration, Tables
  <2>2. Tables'
    BY <1>2, <2>1 DEF SignRegistration, Tables, memory, chain
  <2> QED
    BY <1>1, <2>2, ProcessesStay, SameRows
<1>3. CASE Silence(n)
  <2>1. Tables'
    BY <1>3, FaultType DEF Silence, Tables, memory, chain
  <2> QED
    BY <1>1, <2>1, ProcessesStay, SameRows
<1> QED
  BY <1>2, <1>3

LEMMA MineStep ==
  ASSUME RowsInv, NEW h \in Requests, Mine(h)
  PROVE  RowsInv'
<1> USE DEF RowsInv
<1>1. process[h].pc = "receipt" /\ process[h].node \in Nodes
  BY DEF Mine, Sponsored, AllSound, Sound, Processes
<1>2. /\ onChain \subseteq onChain' /\ onChain' \subseteq Nodes /\ faults' \in 0..MaxFaults
      /\ UNCHANGED <<row, memory, process, orphans, agents, answered, settled>>
  BY <1>1, FaultType DEF Mine, Tables
<1>3. Tables'
  BY <1>2 DEF Tables, memory, agents
<1>4. AllSound'
  BY <1>2, StaysSound
<1>5. Sponsored'
  BY <1>1, <1>2 DEF Mine, Sponsored
<1> QED
  BY <1>2, <1>3, <1>4, <1>5, SameRows

LEMMA MineOrphanStep ==
  ASSUME RowsInv, NEW n \in Nodes, MineOrphan(n)
  PROVE  RowsInv'
<1> USE DEF RowsInv
<1>1. Tables'
  BY DEF MineOrphan, Tables, memory, agents
<1> QED
  BY <1>1, ProcessesStay, SameRows DEF MineOrphan

LEMMA TickStep ==
  ASSUME RowsInv, Tick
  PROVE  RowsInv'
<1> USE DEF RowsInv
<1>1. ASSUME NEW n \in Nodes, Present(n)
      PROVE  [row[n] EXCEPT !.beat = Older(@, Timeout)] \in Row
  <2>1. row[n] \in Row
    BY <1>1 DEF Present, Tables, Entities
  <2>2. Older(row[n].beat, Timeout) \in Ages
    BY <2>1, OlderType DEF Row, Ages, Timeout
  <2> QED
    BY <2>1, <2>2 DEF Row
<1>2. row' \in [Nodes -> Entities] /\ \A n \in Nodes : row[n] = NoRow => row'[n] = NoRow
  BY <1>1, NoRowIsNone DEF Tick, Entities, Present
<1>3. \A n \in Nodes : Older(watched[n], MonitorTimeout) \in 0..MonitorTimeout
  BY OlderType DEF Tables, MonitorTimeout
<1>4. Tables'
  BY <1>2, <1>3 DEF Tick, Tables, chain
<1> QED
  BY <1>2, <1>4, ProcessesStay, ChangedRows DEF Tick, chain

LEMMA RefreshStep ==
  ASSUME RowsInv, Refresh
  PROVE  RowsInv'
<1> USE DEF RowsInv
<1>1. PICK direct \in SUBSET alive :
        watched' = [n \in Nodes |-> CASE n \in direct -> 0
                                      [] n \in Active \ direct -> Newer(watched[n], row[n].beat)
                                      [] OTHER -> watched[n]]
  BY DEF Refresh
<1>2. ASSUME NEW n \in Nodes, n \in Active
      PROVE  Newer(watched[n], row[n].beat) \in 0..MonitorTimeout
  <2>1. row[n] \in Row
    BY <1>2 DEF Active, Tables, Entities, NoRow
  <2>2. row[n].beat \in Nat /\ watched[n] \in 0..MonitorTimeout
    BY <2>1 DEF Row, Ages, Timeout, Tables
  <2> QED
    BY <2>2 DEF Newer, MonitorTimeout
<1>3. \A n \in Nodes : watched'[n] \in 0..MonitorTimeout
  BY <1>1, <1>2 DEF Tables, MonitorTimeout
<1>4. watched' \in [Nodes -> 0..MonitorTimeout]
  BY <1>1, <1>3
<1>5. Tables'
  BY <1>4 DEF Refresh, Tables, chain, agents
<1> QED
  BY <1>5, ProcessesStay, SameRows DEF Refresh, chain

LEMMA MarkInactiveStep ==
  ASSUME RowsInv, MarkInactive
  PROVE  RowsInv'
<1> USE DEF RowsInv
<1>1. ASSUME NEW n \in Nodes, row[n].status = "active"
      PROVE  [row[n] EXCEPT !.status = "inactive"] \in Row
  <2>1. row[n] \in Row
    BY <1>1 DEF Tables, Entities, NoRow
  <2> QED
    BY <2>1 DEF Row
<1>2. row' \in [Nodes -> Entities]
  BY <1>1 DEF MarkInactive, Tables, Entities
<1>3. \A n \in Nodes : row[n] = NoRow => row'[n] = NoRow
  BY DEF MarkInactive, NoRow
<1>4. Tables'
  BY <1>2 DEF MarkInactive, Tables, memory, chain, agents
<1> QED
  BY <1>2, <1>3, <1>4, ProcessesStay, ChangedRows DEF MarkInactive, chain

LEMMA RestartStep ==
  ASSUME RowsInv, Restart
  PROVE  RowsInv'
<1> USE DEF RowsInv
<1>1. \A h \in Requests : tx[h] = "pending" => process[h].node \in Nodes
  BY DEF Sponsored, AllSound, Sound, Processes
<1>2. orphans' \subseteq Nodes
  BY <1>1 DEF Restart, Tables
<1>3. Tables'
  BY <1>2, FaultType, NodesAssumption DEF Restart, Tables, MonitorTimeout, agents
<1>4. AllSound' /\ Sponsored'
  BY IdleIsSound DEF Restart, AllSound, Sponsored, Sound
<1> QED
  BY <1>3, <1>4, SameRows DEF Restart

LEMMA InvStep == RowsInv /\ [Next]_vars => RowsInv'
<1> SUFFICES ASSUME RowsInv, [Next]_vars PROVE RowsInv'
  OBVIOUS
<1>1. ASSUME NEW n \in Nodes, SignRegistration(n) \/ Silence(n) \/ MineOrphan(n)
      PROVE  RowsInv'
  BY <1>1, AgentsStep, MineOrphanStep
<1>2. CASE Tick
  BY <1>2, TickStep
<1>3. ASSUME NEW h \in Requests, Mine(h)
      PROVE  RowsInv'
  BY <1>3, MineStep
<1>4. ASSUME NEW h \in Requests, Register(h)
      PROVE  RowsInv'
  BY <1>4, CheckChainStep, ReceiptStep, SaveNodeStep DEF Register
<1>5. ASSUME NEW h \in Requests, Report(h)
      PROVE  RowsInv'
  BY <1>5, InsertNodeStep, FindReporterStep, SaveReportStep DEF Report
<1>6. ASSUME NEW h \in Requests, NEW n \in Nodes, StartReport(h, n)
      PROVE  RowsInv'
  BY <1>6, StartReportStep
<1>7. ASSUME NEW h \in Requests, NEW n \in Nodes, NEW ts \in deliverable[n], Admit(h, n, ts)
      PROVE  RowsInv'
  BY <1>7, AdmitStep
<1>8. CASE Score
  BY <1>8, StartRoundStep, FindScoredStep, SaveScoreStep DEF Score
<1>9. CASE Refresh
  BY <1>9, RefreshStep
<1>10. CASE MarkInactive
  BY <1>10, MarkInactiveStep
<1>11. CASE Restart
  BY <1>11, RestartStep
<1>12. CASE UNCHANGED vars
  <2>1. Tables'
    BY <1>12 DEF vars, RowsInv, Tables, memory, chain, agents
  <2> QED
    BY <1>12, <2>1, ProcessesStay, SameRows DEF vars, RowsInv, chain
<1> QED
  BY <1>1, <1>2, <1>3, <1>4, <1>5, <1>6, <1>7, <1>8, <1>9, <1>10, <1>11, <1>12 DEF Next

LEMMA Invariance == Spec => []RowsInv
<1> QED
  BY InvInit, InvStep, PTL DEF Spec

\* The node table, the Maps, the transactions and the operations in flight keep their
\* types, however registrations, reports, scores and restarts interleave.
THEOREM NodesTypeCorrect == Spec => []TypeOK
  BY Invariance, InvHasTypes, PTL

\* With a registry configured, registerNode and ensureNodeRegistered never put an agent
\* into the table that the precompile does not know, for any number of nodes, requests,
\* lost receipts and failed queries.
THEOREM OnlyAgentsHaveRows == Spec => []RowsOnlyForAgents
<1>1. RowsInv => RowsOnlyForAgents
  BY DEF RowsInv
<1> QED
  BY <1>1, Invariance, PTL

(***************************************************************************)
(* A row keeps the newest registration that was answered, as long as       *)
(* nothing overlapped.                                                     *)
(***************************************************************************)
\* The number of the registration an operation carries is one its node has signed.
NumberedOp(r) ==
  /\ r.pc # "idle" => r.ts <= signed[r.node]
  /\ r.pc \in {"check", "receipt", "save"} => r.ts > 0
  /\ r.pc = "save" => r.entity.data = r.ts

Numbered ==
  /\ \A n \in Nodes : answered[n] <= signed[n] /\ deliverable[n] \subseteq 1..signed[n]
  /\ \A p \in Processes : NumberedOp(process[p])

\* No registration older than the one the row has will be accepted.
Guarded(n) == answered[n] <= lastTs[n] \/ \A ts \in deliverable[n] : answered[n] < ts

\* What holds of a settled node: one operation at most has its row in hand, and one
\* registration at most is under way, which is no older.
Kept(n) ==
  /\ Present(n) /\ row[n].data = answered[n]
  /\ \A p, q \in Holders(n) : p = q
  /\ \A p \in Holders(n) : process[p].pc # "save" => process[p].entity.data = answered[n]
  /\ \A g, h \in Registering(n) : g = h
  /\ \A h \in Registering(n) : answered[n] <= process[h].ts
  /\ Guarded(n)

Registrations == Numbered /\ \A n \in settled : Kept(n)

KeptInv == RowsInv /\ Registrations

\* What operation r of process p has to be, for a settled node n.
Fits(n, p, r) ==
  /\ r.entity # NoRow =>
       Holders(n) \subseteq {p} /\ (r.pc # "save" => r.entity.data = answered[n])
  /\ r.ts > 0 /\ p \in Requests =>
       Registering(n) \subseteq {p} /\ answered[n] <= r.ts

\* One process goes on with operation r; the rows keep their registration.
LEMMA MoveKeeps ==
  ASSUME KeptInv, NEW p \in Processes, NEW r, process' = [process EXCEPT ![p] = r],
         UNCHANGED <<answered, lastTs, signed, deliverable>>,
         settled' \subseteq settled, NumberedOp(r),
         \A n \in settled' : row'[n] # NoRow /\ row'[n].data = answered[n],
         \A n \in settled' : r.node = n => Fits(n, p, r)
  PROVE  Registrations'
<1> USE DEF KeptInv, Registrations
<1>1. \A q \in Processes : process'[q] = IF q = p THEN r ELSE process[q]
  BY DEF RowsInv, AllSound
<1>2. Numbered'
  BY <1>1 DEF Numbered, NumberedOp
<1>3. ASSUME NEW n \in settled' PROVE Kept(n)'
  <2>1. Kept(n) /\ (r.node = n => Fits(n, p, r))
    OBVIOUS
  <2>2. \A q \in Holders(n)' : q \in Holders(n) \/ (q = p /\ r.node = n /\ r.entity # NoRow)
    BY <1>1 DEF Holders
  <2>3. \A q \in Holders(n)' : q # p => q \in Holders(n) /\ process'[q] = process[q]
    BY <1>1, <2>2 DEF Holders
  <2>4. \A q \in Registering(n)' : q # p => q \in Registering(n) /\ process'[q] = process[q]
    BY <1>1 DEF Registering, Processes
  <2>5. p \in Holders(n)' => process'[p] = r /\ r.node = n /\ r.entity # NoRow
    BY <1>1 DEF Holders
  <2>6. p \in Registering(n)' => process'[p] = r /\ r.node = n /\ r.ts > 0 /\ p \in Requests
    BY <1>1 DEF Registering
  <2>7. \A q, s \in Holders(n)' : q = s
    BY <2>1, <2>3, <2>5 DEF Kept, Fits
  <2>8. \A q \in Holders(n)' : process'[q].pc # "save" => process'[q].entity.data = answered[n]
    BY <2>1, <2>3, <2>5 DEF Kept, Fits
  <2>9. \A g, h \in Registering(n)' : g = h
    BY <2>1, <2>4, <2>6 DEF Kept, Fits
  <2>10. \A h \in Registering(n)' : answered[n] <= process'[h].ts
    BY <2>1, <2>4, <2>6 DEF Kept, Fits
  <2>11. Guarded(n)'
    BY <2>1 DEF Kept, Guarded
  <2> QED
    BY <2>7, <2>8, <2>9, <2>10, <2>11 DEF Kept, Present
<1> QED
  BY <1>2, <1>3

\* The operations stay; a node may sign a registration, and registrations may expire.
LEMMA StillKeeps ==
  ASSUME KeptInv, UNCHANGED <<process, answered, lastTs, settled>>,
         \A n \in settled : row'[n] # NoRow /\ row'[n].data = row[n].data,
         \A n \in Nodes : signed[n] <= signed'[n] /\ signed'[n] \in 0..MaxSent,
         \A n \in Nodes : \A ts \in deliverable'[n] :
           ts \in 1..signed'[n] /\ (ts \in deliverable[n] \/ signed[n] < ts)
  PROVE  Registrations'
<1> USE DEF KeptInv, Registrations
<1>1. /\ \A n \in Nodes : /\ signed[n] \in Nat /\ signed'[n] \in Nat /\ answered[n] \in Nat
                          /\ answered[n] <= signed[n]
      /\ settled \subseteq Nodes
  BY NodesAssumption DEF RowsInv, Tables, Numbered
<1>2. ASSUME NEW p \in Processes PROVE NumberedOp(process[p])'
  <2>1. NumberedOp(process[p]) /\ Sound(process[p], Known)
    BY DEF Numbered, RowsInv, AllSound
  <2>2. process[p].pc # "idle" => process[p].node \in Nodes /\ process[p].ts \in Nat
    BY <2>1, NodesAssumption DEF Sound, Operation
  <2>3. process[p].pc # "idle" => process[p].ts <= signed'[process[p].node]
    BY <1>1, <2>1, <2>2 DEF NumberedOp
  <2> QED
    BY <2>1, <2>3 DEF NumberedOp
<1>3. Numbered'
  BY <1>1, <1>2 DEF Numbered
<1>4. ASSUME NEW n \in settled PROVE Kept(n)'
  <2>1. Guarded(n)'
    BY <1>1 DEF Kept, Guarded
  <2> QED
    BY <2>1 DEF Kept, Present, Holders, Registering
<1> QED
  BY <1>3, <1>4

LEMMA StopKeeps ==
  ASSUME KeptInv, NEW p \in Processes, Stop(p),
         UNCHANGED <<answered, lastTs, signed, deliverable, settled>>,
         \A n \in settled : row'[n] # NoRow /\ row'[n].data = answered[n]
  PROVE  Registrations'
<1>1. Idle.pc = "idle" /\ Idle.node = Nobody
  BY DEF Idle
<1>2. NumberedOp(Idle) /\ \A n \in settled : Idle.node # n
  BY <1>1, NodesAssumption DEF NumberedOp, KeptInv, RowsInv, Tables
<1> QED
  BY <1>2, MoveKeeps DEF Stop

LEMMA RowsKept ==
  ASSUME KeptInv, NEW n \in settled PROVE row[n] # NoRow /\ row[n].data = answered[n]
  BY DEF KeptInv, Registrations, Kept, Present

LEMMA FailedKeeps ==
  ASSUME KeptInv, NEW p \in Processes, Failed(p) PROVE Registrations'
  BY RowsKept, StopKeeps DEF Failed, memory, agents

\* What a report or a score saves for a settled node has the registration of its row.
LEMMA SaveHeldKeeps ==
  ASSUME KeptInv, NEW p \in Processes, process[p].pc \in {"saveReport", "saveScore"},
         SaveHeld(p)
  PROVE  Registrations'
<1>1. /\ process[p].node \in Nodes /\ process[p].entity # NoRow
      /\ row \in [Nodes -> Entities] /\ settled \subseteq Nodes
  BY DEF KeptInv, RowsInv, Tables, AllSound, Sound, Saving
<1>2. ASSUME NEW n \in settled PROVE row'[n] # NoRow /\ row'[n].data = answered[n]
  <2>1. CASE n = process[p].node
    <3>1. p \in Holders(n)
      BY <1>1, <2>1 DEF Holders
    <3>2. process[p].entity.data = answered[n]
      BY <3>1 DEF KeptInv, Registrations, Kept
    <3> QED
      BY <1>1, <2>1, <3>2 DEF SaveHeld
  <2>2. CASE n # process[p].node
    BY <1>1, <2>2, RowsKept DEF SaveHeld
  <2> QED
    BY <2>1, <2>2
<1> QED
  BY <1>2, StopKeeps DEF SaveHeld, memory, agents

\* A registration or a report that goes on with its node.
LEMMA SameNodeFits ==
  ASSUME KeptInv, NEW n \in settled, NEW p \in Processes, NEW r,
         process[p].node = n, r.ts = process[p].ts
  PROVE  r.ts > 0 /\ p \in Requests => Registering(n) \subseteq {p} /\ answered[n] <= r.ts
<1> SUFFICES ASSUME r.ts > 0, p \in Requests
             PROVE  Registering(n) \subseteq {p} /\ answered[n] <= r.ts
  OBVIOUS
<1>1. p \in Registering(n) /\ Kept(n)
  BY DEF Registering, KeptInv, Registrations
<1> QED
  BY <1>1 DEF Kept

\* A row is taken in hand: of a settled node, only if nobody else has it.
LEMMA HoldKeeps ==
  ASSUME KeptInv, NEW p \in Processes, process[p].pc # "idle",
         NEW stage \in Saving, NEW entity, Hold(p, stage, entity),
         Overlaps(process[p].node),
         stage = "save" => entity.data = process[p].ts /\ process[p].ts > 0,
         stage # "save" => entity.data = row[process[p].node].data,
         UNCHANGED <<row, answered, lastTs, signed, deliverable>>
  PROVE  Registrations'
<1> DEFINE r == [pc |-> stage, node |-> process[p].node, ts |-> process[p].ts,
                 entity |-> entity]
<1>1. process' = [process EXCEPT ![p] = r]
  BY DEF Hold
<1>2. /\ r.pc = stage /\ r.node = process[p].node /\ r.ts = process[p].ts
      /\ r.entity = entity
  OBVIOUS
<1> HIDE DEF r
<1>3. NumberedOp(r)
  BY <1>2 DEF KeptInv, Registrations, Numbered, NumberedOp, Saving
<1>4. settled' \subseteq settled
  BY DEF Overlaps
<1>5. ASSUME NEW n \in settled', r.node = n PROVE Fits(n, p, r)
  <2>1. Holders(n) = {}
    BY <1>2, <1>5 DEF Overlaps
  <2>2. stage # "save" => entity.data = answered[n]
    BY <1>2, <1>4, <1>5, RowsKept
  <2> QED
    BY <1>2, <1>4, <1>5, <2>1, <2>2, SameNodeFits DEF Fits
<1>6. \A n \in settled' : row'[n] # NoRow /\ row'[n].data = answered[n]
  BY <1>4, RowsKept
<1> QED
  BY <1>1, <1>3, <1>4, <1>5, <1>6, MoveKeeps

LEMMA FindNodeKeeps ==
  ASSUME KeptInv, NEW h \in Requests, process[h].pc \in {"check", "receipt"}, FindNode(h),
         UNCHANGED <<row, answered, lastTs, signed, deliverable>>
  PROVE  Registrations'
<1> DEFINE entity == [status |-> "active", data |-> process[h].ts, beat |-> 0]
<1>1. h \in Processes /\ process[h].ts > 0
  BY DEF Processes, KeptInv, Registrations, Numbered, NumberedOp
<1>2. /\ Hold(h, "save", entity) /\ Overlaps(process[h].node)
      /\ entity.data = process[h].ts
  BY DEF FindNode
<1> HIDE DEF entity
<1> QED
  BY <1>1, <1>2, HoldKeeps DEF Saving

\* A registration is accepted: of a settled node, when no other is under way.
LEMMA AdmitKeeps ==
  ASSUME KeptInv, NEW h \in Requests, NEW n \in Nodes, NEW ts \in deliverable[n],
         Admit(h, n, ts)
  PROVE  Registrations'
<1> DEFINE r == [pc |-> "check", node |-> n, ts |-> ts, entity |-> NoRow]
<1>1. /\ process' = [process EXCEPT ![h] = r]
      /\ UNCHANGED <<row, answered, lastTs, signed, deliverable>>
      /\ settled' \subseteq settled /\ (n \in settled' => Registering(n) = {})
      /\ lastTs[n] < ts
  BY DEF Admit, memory, agents, Accepts
<1>2. r.pc = "check" /\ r.node = n /\ r.ts = ts /\ r.entity = NoRow
  OBVIOUS
<1> HIDE DEF r
<1>3. ts \in 1..signed[n] /\ h \in Processes /\ answered[n] \in Nat /\ lastTs[n] \in Nat
      /\ signed[n] \in Nat
  BY NodesAssumption DEF KeptInv, Registrations, Numbered, Processes, RowsInv, Tables
<1>4. NumberedOp(r)
  BY <1>2, <1>3 DEF NumberedOp
<1>5. n \in settled' => answered[n] <= ts
  BY <1>1, <1>3 DEF KeptInv, Registrations, Kept, Guarded
<1>6. \A m \in settled' : r.node = m => Fits(m, h, r)
  BY <1>1, <1>2, <1>5 DEF Fits
<1>7. \A m \in settled' : row'[m] # NoRow /\ row'[m].data = answered[m]
  BY <1>1, RowsKept
<1> QED
  BY <1>1, <1>3, <1>4, <1>6, <1>7, MoveKeeps

LEMMA CheckChainKeeps ==
  ASSUME KeptInv, NEW h \in Requests, CheckChain(h) PROVE Registrations'
<1>1. h \in Processes
  BY DEF Processes
<1>2. CASE Failed(h)
  BY <1>1, <1>2, FailedKeeps
<1>3. CASE /\ At(h, "check") /\ FindNode(h)
           /\ UNCHANGED <<row, memory, onChain, orphans, agents, answered>>
  BY <1>3, FindNodeKeeps DEF At, memory, agents
<1>4. CASE /\ At(h, "check") /\ SendSponsored(h) /\ UNCHANGED settled
           /\ UNCHANGED <<row, memory, onChain, orphans, agents, answered>>
  <2> DEFINE r == [process[h] EXCEPT !.pc = "receipt"]
  <2>1. process' = [process EXCEPT ![h] = r]
    BY <1>4 DEF SendSponsored, Goto
  <2>2. process[h] \in Operation /\ process[h].pc = "check" /\ process[h].entity = NoRow
    BY <1>1, <1>4 DEF KeptInv, RowsInv, AllSound, At, Sound, Saving
  <2>3. /\ r.pc = "receipt" /\ r.node = process[h].node /\ r.ts = process[h].ts
        /\ r.entity = NoRow
    BY <2>2 DEF Operation
  <2> HIDE DEF r
  <2>4. NumberedOp(r)
    BY <1>1, <2>2, <2>3 DEF KeptInv, Registrations, Numbered, NumberedOp
  <2>5. \A n \in settled' : r.node = n => Fits(n, h, r)
    BY <1>1, <1>4, <2>3, SameNodeFits DEF Fits
  <2>6. \A n \in settled' : row'[n] # NoRow /\ row'[n].data = answered[n]
    BY <1>4, RowsKept
  <2> QED
    BY <1>1, <1>4, <2>1, <2>4, <2>5, <2>6, MoveKeeps DEF memory, agents
<1> QED
  BY <1>2, <1>3, <1>4 DEF CheckChain

LEMMA ReceiptKeeps ==
  ASSUME KeptInv, NEW h \in Requests, Receipt(h) PROVE Registrations'
<1>1. /\ h \in Processes /\ process[h].pc = "receipt"
      /\ UNCHANGED <<row, answered, lastTs, signed, deliverable>>
      /\ FindNode(h) \/ (Stop(h) /\ UNCHANGED settled)
  BY DEF Receipt, At, Processes, memory, agents
<1>2. CASE FindNode(h)
  BY <1>1, <1>2, FindNodeKeeps
<1>3. CASE Stop(h) /\ UNCHANGED settled
  BY <1>1, <1>3, RowsKept, StopKeeps
<1> QED
  BY <1>1, <1>2, <1>3

\* Of an agent that has a settled row nothing is inserted.
LEMMA InsertNodeKeeps ==
  ASSUME KeptInv, NEW h \in Requests, InsertNode(h) PROVE Registrations'
<1> DEFINE r == [pc |-> "findReporter", node |-> process[h].node,
                 ts |-> process[h].ts, entity |-> NoRow]
<1>1. /\ h \in Processes /\ process[h].pc = "insert"
      /\ process' = [process EXCEPT ![h] = r]
      /\ UNCHANGED <<answered, lastTs, signed, deliverable, settled>>
      /\ \/ row' = [row EXCEPT ![process[h].node] = process[h].entity]
         \/ row' = row
  BY DEF InsertNode, At, Processes, Hold, memory, agents
<1>2. /\ r.pc = "findReporter" /\ r.node = process[h].node /\ r.ts = process[h].ts
      /\ r.entity = NoRow
  OBVIOUS
<1> HIDE DEF r
<1>3. /\ process[h].node \in Nodes /\ process[h].entity # NoRow
      /\ row \in [Nodes -> Entities] /\ settled \subseteq Nodes
  BY <1>1 DEF KeptInv, RowsInv, Tables, AllSound, Sound, Saving
<1>4. NumberedOp(r)
  BY <1>1, <1>2 DEF KeptInv, Registrations, Numbered, NumberedOp
<1>5. ASSUME NEW n \in settled PROVE row'[n] # NoRow /\ row'[n].data = answered[n]
  <2>1. CASE n = process[h].node
    <3>1. h \in Holders(n)
      BY <1>1, <1>3, <2>1 DEF Holders
    <3>2. process[h].entity.data = answered[n]
      BY <1>1, <3>1 DEF KeptInv, Registrations, Kept
    <3> QED
      BY <1>1, <1>3, <2>1, <3>2, RowsKept
  <2>2. CASE n # process[h].node
    BY <1>1, <1>3, <2>2, RowsKept
  <2> QED
    BY <2>1, <2>2
<1>6. \A n \in settled' : r.node = n => Fits(n, h, r)
  BY <1>1, <1>2, SameNodeFits DEF Fits
<1> QED
  BY <1>1, <1>4, <1>5, <1>6, MoveKeeps

LEMMA FindReporterKeeps ==
  ASSUME KeptInv, NEW h \in Requests, FindReporter(h) PROVE Registrations'
<1>1. /\ h \in Processes /\ process[h].pc = "findReporter" /\ process[h].node \in Nodes
  BY DEF FindReporter, At, Processes, KeptInv, RowsInv, AllSound, Sound
<1>2. CASE Failed(h)
  BY <1>1, <1>2, FailedKeeps
<1>3. CASE ~Failed(h)
  <2> DEFINE entity == Revived(row[process[h].node])
             n == process[h].node
  <2>1. /\ IF Found(n) THEN Hold(h, "saveReport", entity) ELSE Stop(h)
        /\ Overlaps(n)
        /\ UNCHANGED <<row, answered, lastTs, signed, deliverable>>
    BY <1>3 DEF FindReporter, memory, agents
  <2>2. CASE Found(n)
    <3>1. entity.data = row[n].data
      <4>1. row[n] \in Row
        BY <1>1, <2>2, FoundIsRow DEF KeptInv
      <4> QED
        BY <4>1 DEF Revived, Row
    <3> HIDE DEF entity
    <3> QED
      BY <1>1, <2>1, <2>2, <3>1, HoldKeeps DEF Saving
  <2>3. CASE ~Found(n)
    <3>1. settled' \subseteq settled /\ n \notin settled
      BY <2>1, <2>3, RowsKept DEF Overlaps, Found, Present
    <3>2. settled' = settled
      BY <2>1, <3>1 DEF Overlaps
    <3> QED
      BY <1>1, <2>1, <2>3, <3>2, RowsKept, StopKeeps
  <2> QED
    BY <2>2, <2>3
<1> QED
  BY <1>2, <1>3

LEMMA FindScoredKeeps == ASSUME KeptInv, FindScored PROVE Registrations'
<1> DEFINE n == process[Scorer].node
<1>1. /\ Scorer \in Processes /\ process[Scorer].pc = "findScored" /\ n \in Nodes
  BY DEF FindScored, At, Processes, KeptInv, RowsInv, AllSound, Sound
<1>2. CASE Failed(Scorer)
  BY <1>1, <1>2, FailedKeeps
<1>3. CASE ~Failed(Scorer)
  <2>1. /\ IF Found(n) THEN Hold(Scorer, "saveScore", row[n]) ELSE Stop(Scorer)
        /\ Overlaps(n)
        /\ UNCHANGED <<row, answered, lastTs, signed, deliverable>>
    BY <1>3 DEF FindScored, memory, agents
  <2>2. CASE Found(n)
    BY <1>1, <2>1, <2>2, HoldKeeps DEF Saving
  <2>3. CASE ~Found(n)
    <3>1. settled' = settled
      BY <2>1, <2>3, RowsKept DEF Overlaps, Found, Present
    <3> QED
      BY <1>1, <2>1, <2>3, <3>1, RowsKept, StopKeeps
  <2> QED
    BY <2>2, <2>3
<1> QED
  BY <1>2, <1>3

LEMMA StartReportKeeps ==
  ASSUME KeptInv, NEW h \in Requests, NEW n \in Nodes, StartReport(h, n)
  PROVE  Registrations'
<1> DEFINE entity == IF Creates(n) THEN [status |-> "active", data |-> 0, beat |-> 0]
                                   ELSE Revived(row[n])
           r == [pc |-> IF Creates(n) THEN "insert" ELSE "saveReport", node |-> n,
                 ts |-> 0, entity |-> entity]
<1>1. /\ process' = [process EXCEPT ![h] = r] /\ h \in Processes
      /\ UNCHANGED <<row, answered, lastTs, signed, deliverable>>
      /\ settled' \subseteq settled /\ (n \in settled' => Holders(n) = {})
  BY DEF StartReport, memory, agents, Overlaps, Processes
<1>2. n \in settled => entity.data = answered[n]
  <2> SUFFICES ASSUME n \in settled PROVE entity.data = answered[n]
    OBVIOUS
  <2>1. ~Creates(n) /\ row[n].data = answered[n]
    BY RowsKept DEF Creates, Present
  <2>2. row[n] \in Row
    BY <2>1, FoundIsRow DEF Creates, Found, KeptInv
  <2>3. Revived(row[n]).data = row[n].data
    BY <2>2 DEF Revived, Row
  <2> QED
    BY <2>1, <2>3
<1>3. /\ r.pc \in {"insert", "saveReport"} /\ r.node = n /\ r.ts = 0
      /\ r.entity = entity
  OBVIOUS
<1> HIDE DEF r, entity
<1>4. NumberedOp(r)
  BY <1>3, NodesAssumption DEF NumberedOp, KeptInv, RowsInv, Tables
<1>5. \A m \in settled' : r.node = m => Fits(m, h, r)
  BY <1>1, <1>2, <1>3 DEF Fits
<1>6. \A m \in settled' : row'[m] # NoRow /\ row'[m].data = answered[m]
  BY <1>1, RowsKept
<1> QED
  BY <1>1, <1>4, <1>5, <1>6, MoveKeeps

LEMMA StartRoundKeeps ==
  ASSUME KeptInv, NEW n \in Nodes, StartRound(n) PROVE Registrations'
<1> DEFINE r == [pc |-> "findScored", node |-> n, ts |-> 0, entity |-> NoRow]
<1>1. /\ process' = [process EXCEPT ![Scorer] = r] /\ Scorer \in Processes
      /\ UNCHANGED <<row, answered, lastTs, signed, deliverable, settled>>
  BY DEF StartRound, memory, agents, Processes
<1>2. r.pc = "findScored" /\ r.node = n /\ r.ts = 0 /\ r.entity = NoRow
  OBVIOUS
<1> HIDE DEF r
<1>3. NumberedOp(r)
  BY <1>2, NodesAssumption DEF NumberedOp, KeptInv, RowsInv, Tables
<1>4. \A m \in settled' : r.node = m => Fits(m, Scorer, r)
  BY <1>2 DEF Fits
<1> QED
  BY <1>1, <1>3, <1>4, RowsKept, MoveKeeps

\* The newest registration of a node is saved, and no operation is left that has its
\* row in hand or an older registration.
LEMMA SaveNodeKeeps ==
  ASSUME KeptInv, NEW h \in Requests, SaveNode(h) PROVE Registrations'
<1>1. h \in Processes /\ process[h].pc = "save"
  BY DEF Processes, SaveNode, At
<1>2. CASE Failed(h)
  BY <1>1, <1>2, FailedKeeps
<1>3. CASE ~Failed(h)
  <2>0. PICK n \in Nodes, ts \in Nat : n = process[h].node /\ ts = process[h].ts
    BY <1>1, NodesAssumption DEF KeptInv, RowsInv, AllSound, Sound, Operation
  <2>1. /\ row' = [row EXCEPT ![n] = process[h].entity]
        /\ lastTs' = [lastTs EXCEPT ![n] = ts]
        /\ answered' = [answered EXCEPT ![n] = Larger(@, ts)]
        /\ settled' = IF Holders(n) \cup Registering(n) = {h} /\ ts >= answered[n]
                      THEN settled \cup {n} ELSE settled
        /\ process' = [process EXCEPT ![h] = Idle]
        /\ UNCHANGED <<signed, deliverable>>
    BY <1>3, <2>0 DEF SaveNode, Stop, chain, agents
  <2>2. /\ n \in Nodes /\ process[h].entity # NoRow /\ process[h].entity.data = ts
        /\ ts \in Nat /\ ts > 0 /\ ts <= signed[n] /\ answered[n] \in Nat
        /\ signed[n] \in Nat /\ answered[n] <= signed[n]
    BY <1>1, <2>0, NodesAssumption DEF KeptInv, RowsInv, Tables, AllSound, Sound, Saving,
       Registrations, Numbered, NumberedOp
  <2>3. /\ row \in [Nodes -> Entities] /\ lastTs \in [Nodes -> 0..MaxSent]
        /\ answered \in [Nodes -> 0..MaxSent]
        /\ process \in [Processes -> Operation] /\ settled \subseteq Nodes
    BY DEF KeptInv, RowsInv, Tables, AllSound
  <2>4. \A q \in Processes : process'[q] = IF q = h THEN Idle ELSE process[q]
    BY <2>1, <2>3
  <2>5. h \in Holders(n) /\ h \in Registering(n)
    BY <1>1, <2>0, <2>2 DEF Holders, Registering
  <2>6. Numbered'
    <3>1. answered'[n] <= signed[n] /\ \A m \in Nodes \ {n} : answered'[m] = answered[m]
      BY <2>1, <2>2, <2>3 DEF Larger
    <3>2. Idle.pc = "idle"
      BY DEF Idle
    <3>3. \A q \in Processes : NumberedOp(process[q])'
      BY <2>1, <2>4, <3>2 DEF KeptInv, Registrations, Numbered, NumberedOp
    <3>4. \A m \in Nodes : answered'[m] <= signed'[m] /\ deliverable'[m] \subseteq 1..signed'[m]
      BY <2>1, <3>1 DEF KeptInv, Registrations, Numbered
    <3> QED
      BY <3>3, <3>4 DEF Numbered
  <2>7. n \in settled' => Holders(n) \cup Registering(n) = {h} /\ ts >= answered[n]
    <3>1. n \in settled => /\ \A q \in Holders(n) \cup Registering(n) : q = h
                           /\ ts >= answered[n]
      BY <1>1, <2>0, <2>2, <2>5 DEF KeptInv, Registrations, Kept
    <3> QED
      BY <2>1, <2>5, <3>1
  <2>8. ASSUME n \in settled' PROVE Kept(n)'
    <3>1. answered'[n] = ts /\ lastTs'[n] = ts
      BY <2>1, <2>2, <2>3, <2>7, <2>8 DEF Larger
    <3>2. row'[n] # NoRow /\ row'[n].data = ts
      BY <2>1, <2>2, <2>3
    <3>3. \A q \in Holders(n)' \cup Registering(n)' : FALSE
      <4>1. Idle.node # n
        BY <2>2, NodesAssumption DEF Idle
      <4> QED
        BY <2>4, <2>7, <2>8, <4>1 DEF Holders, Registering, Processes
    <3>4. Guarded(n)'
      BY <2>2, <3>1 DEF Guarded
    <3> QED
      BY <3>1, <3>2, <3>3, <3>4 DEF Kept, Present
  <2>9. ASSUME NEW m \in settled', m # n PROVE Kept(m)'
    <3>1. /\ m \in settled /\ row'[m] = row[m] /\ answered'[m] = answered[m]
          /\ lastTs'[m] = lastTs[m]
      BY <2>1, <2>3, <2>9
    <3>2. /\ \A q \in Holders(m)' : q \in Holders(m) /\ process'[q] = process[q]
          /\ \A q \in Registering(m)' : q \in Registering(m) /\ process'[q] = process[q]
      <4>1. Idle.node # m
        BY <2>3, <3>1, NodesAssumption DEF Idle
      <4> QED
        BY <2>4, <4>1 DEF Holders, Registering, Processes
    <3>3. Kept(m)
      BY <3>1 DEF KeptInv, Registrations
    <3>4. Guarded(m)'
      BY <2>1, <3>1, <3>3 DEF Kept, Guarded
    <3> QED
      BY <3>1, <3>2, <3>3, <3>4 DEF Kept, Present
  <2> QED
    BY <2>6, <2>8, <2>9 DEF Registrations
<1> QED
  BY <1>2, <1>3

\* A restart ends all operations, and forgets the time of the registration of a node
\* that stays settled only if none can be delivered again.
LEMMA RestartKeeps == ASSUME KeptInv, Restart PROVE Registrations'
<1>1. /\ UNCHANGED <<row, answered, signed, deliverable>>
      /\ \A p \in Processes : process'[p] = Idle
      /\ settled' = {n \in settled : deliverable[n] = {}}
  BY DEF Restart, agents
<1>2. settled \subseteq Nodes
  BY DEF KeptInv, RowsInv, Tables
<1>3. Numbered'
  <2>1. \A p \in Processes : NumberedOp(process[p])'
    BY <1>1 DEF NumberedOp, Idle
  <2> QED
    BY <1>1, <2>1 DEF KeptInv, Registrations, Numbered
<1>4. ASSUME NEW n \in settled' PROVE Kept(n)'
  <2>1. \A q \in Holders(n)' \cup Registering(n)' : FALSE
    BY <1>1, <1>2, NodesAssumption DEF Holders, Registering, Processes, Idle
  <2>2. Guarded(n)' /\ Kept(n)
    BY <1>1 DEF Guarded, KeptInv, Registrations
  <2> QED
    BY <1>1, <2>1, <2>2 DEF Kept, Present
<1> QED
  BY <1>3, <1>4 DEF Registrations

\* The agents, the time, the chain and the monitor.
LEMMA OthersKeep ==
  ASSUME KeptInv,
         \/ \E n \in Nodes : SignRegistration(n) \/ Silence(n) \/ MineOrphan(n)
         \/ \E h \in Requests : Mine(h)
         \/ Tick \/ Refresh \/ MarkInactive \/ UNCHANGED vars
  PROVE  Registrations'
<1>0. /\ \A n \in Nodes : /\ signed[n] \in 0..MaxSent
                          /\ \A ts \in deliverable[n] : ts \in 1..signed[n]
      /\ settled \subseteq Nodes
      /\ \A n \in settled : row[n] # NoRow /\ row[n] \in Row
      /\ row \in [Nodes -> Entities]
  BY RowsKept DEF KeptInv, RowsInv, Tables, Registrations, Numbered, Entities
<1>1. ASSUME UNCHANGED <<row, process, answered, lastTs, settled, signed, deliverable>>
      PROVE  Registrations'
  BY <1>0, <1>1, NodesAssumption, StillKeeps
<1>2. ASSUME NEW n \in Nodes, SignRegistration(n) PROVE Registrations'
  <2>1. /\ UNCHANGED <<row, process, answered, lastTs, settled>>
        /\ signed' = [signed EXCEPT ![n] = @ + 1]
        /\ deliverable' = [deliverable EXCEPT ![n] = @ \cup {signed[n] + 1}]
        /\ signed[n] < MaxSent
    BY <1>2 DEF SignRegistration, memory
  <2>2. /\ signed \in [Nodes -> 0..MaxSent]
        /\ deliverable \in [Nodes -> SUBSET (1..MaxSent)] /\ MaxSent \in Nat
    BY NodesAssumption DEF KeptInv, RowsInv, Tables
  <2>3. \A m \in Nodes : signed[m] <= signed'[m] /\ signed'[m] \in 0..MaxSent
    BY <2>1, <2>2
  <2>4. ASSUME NEW m \in Nodes, NEW ts \in deliverable'[m]
        PROVE  ts \in 1..signed'[m] /\ (ts \in deliverable[m] \/ signed[m] < ts)
    BY <1>0, <2>1, <2>2, <2>4
  <2> QED
    BY <1>0, <2>1, <2>3, <2>4, StillKeeps
<1>3. ASSUME NEW n \in Nodes, Silence(n) \/ MineOrphan(n) PROVE Registrations'
  BY <1>1, <1>3 DEF Silence, MineOrphan, memory, agents
<1>4. ASSUME NEW h \in Requests, Mine(h) PROVE Registrations'
  BY <1>1, <1>4 DEF Mine, memory, agents
<1>5. CASE Tick
  <2>1. ASSUME NEW n \in settled PROVE row'[n] # NoRow /\ row'[n].data = row[n].data
    <3>1. row'[n] = [row[n] EXCEPT !.beat = Older(@, Timeout)]
      BY <1>0, <1>5 DEF Tick, Present
    <3>2. row'[n].data = row[n].data /\ row'[n].status = row[n].status
      BY <1>0, <3>1 DEF Row
    <3> QED
      BY <1>0, <3>2 DEF Row, NoRow
  <2>2. /\ UNCHANGED <<process, answered, lastTs, settled, signed>>
        /\ \A n \in Nodes : deliverable'[n] = {}
    BY <1>5 DEF Tick
  <2> QED
    BY <1>0, <2>1, <2>2, NodesAssumption, StillKeeps
<1>6. CASE Refresh
  BY <1>1, <1>6 DEF Refresh, agents
<1>7. CASE MarkInactive
  <2>1. ASSUME NEW n \in settled PROVE row'[n] # NoRow /\ row'[n].data = row[n].data
    <3>1. row'[n] = row[n] \/ row'[n] = [row[n] EXCEPT !.status = "inactive"]
      BY <1>0, <1>7 DEF MarkInactive
    <3>2. CASE row'[n] = row[n]
      BY <1>0, <3>2
    <3>3. CASE row'[n] = [row[n] EXCEPT !.status = "inactive"]
      <4>1. row'[n].data = row[n].data /\ row'[n].status = "inactive"
        BY <1>0, <3>3 DEF Row
      <4> QED
        BY <4>1 DEF NoRow
    <3> QED
      BY <3>1, <3>2, <3>3
  <2>2. UNCHANGED <<process, answered, lastTs, settled, signed, deliverable>>
    BY <1>7 DEF MarkInactive, memory, agents
  <2> QED
    BY <1>0, <2>1, <2>2, NodesAssumption, StillKeeps
<1>8. CASE UNCHANGED vars
  BY <1>1, <1>8 DEF vars, memory, agents
<1> QED
  BY <1>2, <1>3, <1>4, <1>5, <1>6, <1>7, <1>8

LEMMA KeptInvStep == KeptInv /\ [Next]_vars => KeptInv'
<1> SUFFICES ASSUME KeptInv, [Next]_vars PROVE KeptInv'
  OBVIOUS
<1>1. RowsInv'
  BY InvStep DEF KeptInv
<1>2. ASSUME NEW h \in Requests, Register(h) \/ Report(h) PROVE Registrations'
  <2>1. CASE Register(h)
    BY <2>1, CheckChainKeeps, ReceiptKeeps, SaveNodeKeeps DEF Register
  <2>2. CASE SaveReport(h)
    BY <2>2, FailedKeeps, SaveHeldKeeps DEF SaveReport, At, Processes
  <2>3. CASE InsertNode(h) \/ FindReporter(h)
    BY <2>3, InsertNodeKeeps, FindReporterKeeps
  <2> QED
    BY <1>2, <2>1, <2>2, <2>3 DEF Report
<1>3. ASSUME Score PROVE Registrations'
  <2>1. CASE SaveScore
    BY <2>1, FailedKeeps, SaveHeldKeeps DEF SaveScore, At, Processes
  <2> QED
    BY <1>3, <2>1, StartRoundKeeps, FindScoredKeeps DEF Score
<1>4. ASSUME NEW h \in Requests, NEW n \in Nodes,
             StartReport(h, n) \/ (\E ts \in deliverable[n] : Admit(h, n, ts))
      PROVE  Registrations'
  BY <1>4, StartReportKeeps, AdmitKeeps
<1>5. ASSUME Restart PROVE Registrations'
  BY <1>5, RestartKeeps
<1>6. ASSUME UNCHANGED vars \/ Tick \/ Refresh \/ MarkInactive PROVE Registrations'
  BY <1>6, OthersKeep
<1>7. ASSUME NEW n \in Nodes, SignRegistration(n) \/ Silence(n) \/ MineOrphan(n)
      PROVE  Registrations'
  BY <1>7, OthersKeep
<1>8. ASSUME NEW h \in Requests, Mine(h) PROVE Registrations'
  BY <1>8, OthersKeep
<1>9. Registrations'
  BY <1>2, <1>3, <1>4, <1>5, <1>6, <1>7, <1>8 DEF Next
<1> QED
  BY <1>1, <1>9 DEF KeptInv

\* The row of a node keeps the newest registration that was answered with success, for
\* any number of replays, reports, scores and timeouts, until two operations overlap on
\* it or a restart forgets a registration that can still be delivered (registerNode,
\* updateNodeMetricReport and updateNodeScore, which all save a row read before).
THEOREM RegistrationsLast == Spec => []RegistrationKept
<1>1. Init => KeptInv
  <2> SUFFICES ASSUME Init PROVE KeptInv
    OBVIOUS
  <2>1. RowsInv
    BY InvInit
  <2>2. Numbered /\ settled = {}
    BY NodesAssumption DEF Init, Numbered, NumberedOp, Idle
  <2> QED
    BY <2>1, <2>2 DEF KeptInv, Registrations
<1>2. KeptInv /\ [Next]_vars => KeptInv'
  BY KeptInvStep
<1>3. KeptInv => RegistrationKept
  BY RowsKept DEF RegistrationKept
<1> QED
  BY <1>1, <1>2, <1>3, PTL DEF Spec
=============================================================================

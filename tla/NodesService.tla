---------------------------- MODULE NodesService ----------------------------
(***************************************************************************)
(* The node table: what registrations, usage reports, score updates and    *)
(* the monitor's timeout do to the row of a node, and the registrations on *)
(* chain that the oracle sponsors.                                         *)
(*                                                                         *)
(* Every operation but the timeout reads the row, awaits, and saves it     *)
(* whole.  One unit of time is five minutes: no request takes that long,   *)
(* and no signed registration is accepted after it.                        *)
(***************************************************************************)
EXTENDS Integers, FiniteSets

CONSTANTS
  Nodes,      \* by lowercase address
  Requests,   \* requests the process may have in flight at once
  Scorer,     \* the reporter's round, which updates scores
  Nobody,     \* no node
  RegistryConfigured, \* does the deployment name an AgentRegistry contract?
  MaxSent,    \* bound: the registrations a node signs
  MaxFaults   \* bound: how many faults occur

ASSUME NodesAssumption ==
  /\ Scorer \notin Requests /\ Nobody \notin Nodes
  /\ RegistryConfigured \in BOOLEAN
  /\ MaxSent \in Nat /\ MaxFaults \in Nat

VARIABLES
  row,        \* table agent_nodes
  lastTs,     \* lastRegistrationTimestamp
  process,    \* the requests in flight, and the reporter's round
  watched,    \* MonitorService.agents: age of the heartbeat it knows, if any
  listed,     \* the nodes getActiveAgents answers
  onChain,    \* agents the precompile knows
  tx,         \* the sponsored transaction of each request
  orphans,    \* agents with a transaction under way that nobody waits for
  alive,      \* agents that report
  signed,     \* registrations signed by each node
  deliverable,\* registrations younger than a minute, delivered any number of times
  answered,   \* history: the newest registration answered with success
  settled,    \* history: nodes whose newest registration was saved with nothing
              \* else in flight for them; since then they had no two registrations
              \* in flight at once, no two operations held the row at once, and no
              \* restart forgot a registration that can be delivered again
  faults      \* how many are left: a call, a read or a save that fails, a late receipt,
              \* a transaction that reverts, a restart, an agent that stops reporting

chain  == <<onChain, tx, orphans>>
agents == <<alive, signed, deliverable>>
memory == <<lastTs, watched, listed>>
vars   == <<row, memory, process, chain, agents, answered, settled, faults>>

Processes == Requests \cup {Scorer}

\* Ages in full units of five minutes: HEARTBEAT_TIMEOUT_MS, the monitor's timeout.
Timeout        == 2
MonitorTimeout == 1
Ages           == 0..Timeout

\* data: the registration whose endpoint and capabilities the row has, 0 for the
\* defaults of ensureNodeRegistered.
Larger(a, b) == IF a > b THEN a ELSE b

Row    == [status: {"active", "inactive"}, data: 0..MaxSent, beat: Ages]
NoRow  == [status |-> "none", data |-> 0, beat |-> 0]
Stages == {"idle", "check", "receipt", "save", "insert", "findReporter", "saveReport",
           "findScored", "saveScore"}
Idle   == [pc |-> "idle", node |-> Nobody, ts |-> 0, entity |-> NoRow]

Present(n) == row[n] # NoRow
Busy(p)    == process[p].pc # "idle"
Quiet      == \A p \in Processes : ~Busy(p)
Stop(p)    == process' = [process EXCEPT ![p] = Idle]
Goto(p, stage) == process' = [process EXCEPT ![p].pc = stage]
Hold(p, stage, entity) ==
  process' = [process EXCEPT ![p] = [pc |-> stage, node |-> @.node, ts |-> @.ts,
                                     entity |-> entity]]
Fault      == faults > 0 /\ faults' = faults - 1
At(p, stage) == process[p].pc = stage

Holders(n) == {p \in Processes : process[p].node = n /\ process[p].entity # NoRow}
Registering(n) == {p \in Requests : process[p].node = n /\ process[p].ts > 0}
\* Reading a row that another process is about to save.
Overlaps(n) == settled' = IF Holders(n) = {} THEN settled ELSE settled \ {n}

(***************************************************************************)
(* The nodes, the time, and the chain.                                     *)
(***************************************************************************)
SignRegistration(n) ==
  /\ n \in alive
  /\ signed[n] < MaxSent
  /\ signed' = [signed EXCEPT ![n] = @ + 1]
  /\ deliverable' = [deliverable EXCEPT ![n] = @ \cup {signed[n] + 1}]
  /\ UNCHANGED <<row, memory, process, chain, alive, answered, settled, faults>>

Silence(n) ==
  /\ n \in alive
  /\ Fault
  /\ alive' = alive \ {n}
  /\ UNCHANGED <<row, memory, process, chain, signed, deliverable, answered, settled>>

Older(age, oldest) == IF age \in 0..oldest - 1 THEN age + 1 ELSE age

Tick ==
  /\ Quiet
  /\ row' = [n \in Nodes |-> IF Present(n) THEN [row[n] EXCEPT !.beat = Older(@, Timeout)]
                                           ELSE NoRow]
  /\ watched' = [n \in Nodes |-> Older(watched[n], MonitorTimeout)]
  /\ deliverable' = [n \in Nodes |-> {}]
  /\ UNCHANGED <<lastTs, listed, process, chain, alive, signed, answered, settled, faults>>

\* Registering an agent that the chain knows reverts.
Mine(h) ==
  /\ tx[h] = "pending"
  /\ LET n == process[h].node
     IN  \/ /\ tx' = [tx EXCEPT ![h] = IF n \in onChain THEN "reverted" ELSE "success"]
            /\ onChain' = onChain \cup {n}
            /\ UNCHANGED faults
         \/ /\ Fault
            /\ tx' = [tx EXCEPT ![h] = "reverted"]
            /\ UNCHANGED onChain
  /\ UNCHANGED <<row, memory, process, orphans, agents, answered, settled>>

MineOrphan(n) ==
  /\ n \in orphans
  /\ onChain' = onChain \cup {n}
  /\ orphans' = orphans \ {n}
  /\ UNCHANGED <<row, memory, process, tx, agents, answered, settled, faults>>

(***************************************************************************)
(* registerNode.                                                           *)
(***************************************************************************)
\* Mutant: no guard against replays.
AcceptsReplays(n, ts) == TRUE

Accepts(n, ts) == ts > lastTs[n]

Admit(h, n, ts) ==
  /\ ~Busy(h)
  /\ Accepts(n, ts)
  /\ process' = [process EXCEPT ![h] =
                    [pc |-> "check", node |-> n, ts |-> ts, entity |-> NoRow]]
  /\ settled' = IF Registering(n) = {} THEN settled ELSE settled \ {n}
  /\ UNCHANGED <<row, memory, chain, agents, answered, faults>>

\* isAgentRegisteredOnChain: without a registry it answers TRUE for every wallet; a
\* failed call answers FALSE.
Known == IF RegistryConfigured THEN onChain ELSE Nodes

Registered(n, answer) ==
  \/ answer = (n \in Known) /\ UNCHANGED faults
  \/ RegistryConfigured /\ answer = FALSE /\ Fault

Failed(p) ==
  /\ Fault
  /\ Stop(p)
  /\ UNCHANGED <<row, memory, chain, agents, answered, settled>>

SendSponsored(h) ==
  /\ tx' = [tx EXCEPT ![h] = "pending"]
  /\ Goto(h, "receipt")

\* (A failed read also ends the request.)
FindNode(h) ==
  /\ Hold(h, "save", [status |-> "active", data |-> process[h].ts, beat |-> 0])
  /\ Overlaps(process[h].node)

CheckChain(h) ==
  \/ /\ At(h, "check")
     /\ \/ Registered(process[h].node, TRUE) /\ FindNode(h) /\ UNCHANGED tx
        \/ Registered(process[h].node, FALSE) /\ SendSponsored(h) /\ UNCHANGED settled
     /\ UNCHANGED <<row, memory, onChain, orphans, agents, answered>>
  \/ At(h, "check") /\ Failed(h)

\* Mutant: a sponsored transaction that was sent is taken for one that went through.
SentIsRegistered(h) ==
  /\ At(h, "receipt")
  /\ FindNode(h)
  /\ orphans' = orphans \cup (IF tx[h] = "pending" THEN {process[h].node} ELSE {})
  /\ tx' = [tx EXCEPT ![h] = "none"]
  /\ UNCHANGED <<row, memory, onChain, agents, answered, faults>>

\* sponsorAgentRegistration waits half a minute for the receipt.  After a success the
\* chain is asked again.
Receipt(h) ==
  /\ At(h, "receipt")
  /\ \/ /\ tx[h] = "success"
        /\ \/ Registered(process[h].node, TRUE) /\ FindNode(h)
           \/ Registered(process[h].node, FALSE) /\ Stop(h) /\ UNCHANGED settled
        /\ UNCHANGED orphans
     \/ /\ tx[h] = "reverted"
        /\ Stop(h)
        /\ UNCHANGED <<orphans, settled, faults>>
     \/ /\ tx[h] = "pending"
        /\ Fault
        /\ Stop(h)
        /\ orphans' = orphans \cup {process[h].node}
        /\ UNCHANGED settled
  /\ tx' = [tx EXCEPT ![h] = "none"]
  /\ UNCHANGED <<row, memory, onChain, agents, answered>>

\* The Map is written after the save.  (What follows, getNodeAssignment, only reads;
\* when it fails the registration stays, though the answer is an error.)
SaveNode(h) ==
  LET n == process[h].node
  IN  \/ /\ At(h, "save")
         /\ row' = [row EXCEPT ![n] = process[h].entity]
         /\ lastTs' = [lastTs EXCEPT ![n] = process[h].ts]
         /\ answered' = [answered EXCEPT ![n] = Larger(@, process[h].ts)]
         /\ settled' = IF /\ Holders(n) \cup Registering(n) = {h}
                          /\ process[h].ts >= answered[n]
                       THEN settled \cup {n} ELSE settled
         /\ Stop(h)
         /\ UNCHANGED <<watched, listed, chain, agents, faults>>
      \/ At(h, "save") /\ Failed(h)

(***************************************************************************)
(* What a usage report does to its node: ensureNodeRegistered, then        *)
(* updateNodeMetricReport.                                                 *)
(***************************************************************************)
\* Mutant: the answer of the database is used unseen.
FoundOrNot(n) == TRUE

\* Updates are for rows that are there.
Found(n) == Present(n)

\* Mutant: the node is created whether it is there or not.
AlwaysCreates(n) == TRUE

Creates(n) == ~Present(n)

\* Mutant: an inactive node stays so.
WithTimeOnly(entity) == [entity EXCEPT !.beat = 0]

\* The row as a report changes it.
Revived(entity) == [entity EXCEPT !.beat = 0, !.status = "active"]

\* The reporter is checked on chain and its row is looked for: a row that is there is
\* read again, for it is never deleted; one that is not is inserted.  (A failed read
\* leaves all as it is, or comes to the read after an insert.)
StartReport(h, n) ==
  /\ ~Busy(h)
  /\ n \in alive
  /\ Registered(n, TRUE)
  /\ process' = [process EXCEPT ![h] =
       [pc     |-> IF Creates(n) THEN "insert" ELSE "saveReport",
        node   |-> n,
        ts     |-> 0,
        entity |-> IF Creates(n) THEN [status |-> "active", data |-> 0, beat |-> 0]
                                 ELSE Revived(row[n])]]
  /\ Overlaps(n)
  /\ UNCHANGED <<row, memory, chain, agents, answered>>

\* address is the primary key, so save updates a row that has come about meanwhile.
InsertNode(h) ==
  /\ At(h, "insert")
  /\ \/ /\ row' = [row EXCEPT ![process[h].node] = process[h].entity]
        /\ UNCHANGED faults
     \/ Fault /\ UNCHANGED row
  /\ Hold(h, "findReporter", NoRow)
  /\ UNCHANGED <<memory, chain, agents, answered, settled>>

FindReporter(h) ==
  \/ /\ At(h, "findReporter")
     /\ IF Found(process[h].node)
        THEN Hold(h, "saveReport", Revived(row[process[h].node])) ELSE Stop(h)
     /\ Overlaps(process[h].node)
     /\ UNCHANGED <<row, memory, chain, agents, answered, faults>>
  \/ At(h, "findReporter") /\ Failed(h)

SaveHeld(p) ==
  /\ row' = [row EXCEPT ![process[p].node] = process[p].entity]
  /\ Stop(p)
  /\ UNCHANGED <<memory, chain, agents, answered, settled, faults>>

SaveReport(h) == At(h, "saveReport") /\ (SaveHeld(h) \/ Failed(h))

(***************************************************************************)
(* The reporter's round over the agents the monitor lists: updateNodeScore.*)
(* The list is taken when the round starts, the row read when its turn     *)
(* comes.                                                                  *)
(***************************************************************************)
\* Mutant: the rounds cover every node there is.
ScoresAll == {n \in Nodes : Present(n)}

Scored == listed

StartRound(n) ==
  /\ ~Busy(Scorer)
  /\ n \in Scored
  /\ process' = [process EXCEPT ![Scorer] =
                    [pc |-> "findScored", node |-> n, ts |-> 0, entity |-> NoRow]]
  /\ UNCHANGED <<row, memory, chain, agents, answered, settled, faults>>

FindScored ==
  \/ /\ At(Scorer, "findScored")
     /\ IF Found(process[Scorer].node)
        THEN Hold(Scorer, "saveScore", row[process[Scorer].node]) ELSE Stop(Scorer)
     /\ Overlaps(process[Scorer].node)
     /\ UNCHANGED <<row, memory, chain, agents, answered, faults>>
  \/ At(Scorer, "findScored") /\ Failed(Scorer)

SaveScore == At(Scorer, "saveScore") /\ (SaveHeld(Scorer) \/ Failed(Scorer))

(***************************************************************************)
(* monitorAgents: the Map takes the newer heartbeats of the active nodes   *)
(* and detectInactiveAgents takes the old ones off the list; then          *)
(* markInactiveNodes, one statement.                                       *)
(***************************************************************************)
Active == {n \in Nodes : row[n].status = "active" /\ row[n].beat < Timeout}

Newer(age, other) == IF other < age THEN other ELSE age

\* direct: the agents the registry contract has a recent heartbeat of.
Refresh ==
  /\ \E direct \in SUBSET alive :
       watched' = [n \in Nodes |-> CASE n \in direct -> 0
                                     [] n \in Active \ direct -> Newer(watched[n], row[n].beat)
                                     [] OTHER -> watched[n]]
  /\ listed' = {n \in Nodes : watched'[n] \in 0..MonitorTimeout - 1}
  /\ UNCHANGED <<row, lastTs, process, chain, agents, answered, settled, faults>>

MarkInactive ==
  /\ row' = [n \in Nodes |->
               IF row[n].status = "active" /\ row[n].beat >= Timeout
               THEN [row[n] EXCEPT !.status = "inactive"] ELSE row[n]]
  /\ UNCHANGED <<memory, process, chain, agents, answered, settled, faults>>

Restart ==
  /\ Fault
  /\ lastTs' = [n \in Nodes |-> 0]
  /\ watched' = [n \in Nodes |-> MonitorTimeout]
  /\ listed' = {}
  /\ process' = [p \in Processes |-> Idle]
  /\ tx' = [h \in Requests |-> "none"]
  /\ orphans' = orphans \cup {process[h].node : h \in {h \in Requests : tx[h] = "pending"}}
  /\ settled' = {n \in settled : deliverable[n] = {}}
  /\ UNCHANGED <<row, onChain, agents, answered>>

-----------------------------------------------------------------------------
Init ==
  /\ row = [n \in Nodes |-> NoRow]
  /\ lastTs = [n \in Nodes |-> 0]
  /\ process = [p \in Processes |-> Idle]
  /\ watched = [n \in Nodes |-> MonitorTimeout]
  /\ listed = {}
  /\ onChain \in SUBSET Nodes
  /\ tx = [h \in Requests |-> "none"]
  /\ orphans = {}
  /\ alive = Nodes
  /\ signed = [n \in Nodes |-> 0]
  /\ deliverable = [n \in Nodes |-> {}]
  /\ answered = [n \in Nodes |-> 0]
  /\ settled = {}
  /\ faults = MaxFaults

Register(h) == CheckChain(h) \/ Receipt(h) \/ SaveNode(h)

Report(h) == InsertNode(h) \/ FindReporter(h) \/ SaveReport(h)

Score == (\E n \in Nodes : StartRound(n)) \/ FindScored \/ SaveScore

Reports(n) == \E h \in Requests : StartReport(h, n)

Next ==
  \/ \E n \in Nodes : SignRegistration(n) \/ Silence(n) \/ MineOrphan(n)
  \/ Tick
  \/ \E h \in Requests : Mine(h) \/ Register(h) \/ Report(h)
  \/ \E h \in Requests, n \in Nodes :
       \/ StartReport(h, n)
       \/ \E ts \in deliverable[n] : Admit(h, n, ts)
  \/ Score \/ Refresh \/ MarkInactive
  \/ Restart

Spec == Init /\ [][Next]_vars

\* Time passes whatever happens, agents that are alive report, transactions are mined,
\* requests are served, and the intervals of the process fire.
FairSpec ==
  /\ Spec
  /\ SF_vars(Tick)
  /\ \A n \in Nodes : SF_vars(Reports(n))
  /\ \A h \in Requests : WF_vars(Mine(h) \/ Register(h) \/ Report(h))
  /\ WF_vars(FindScored \/ SaveScore)
  /\ WF_vars(Refresh) /\ WF_vars(MarkInactive)

-----------------------------------------------------------------------------
Entities == Row \cup {NoRow}

\* The values the table, the Maps and the operations in flight can have; what a request
\* is about to save is a row, and only a registration has a transaction.
TypeOK ==
  /\ row \in [Nodes -> Entities]
  /\ lastTs \in [Nodes -> 0..MaxSent] /\ answered \in [Nodes -> 0..MaxSent]
  /\ process \in [Processes -> [pc : Stages, node : Nodes \cup {Nobody},
                                ts : 0..MaxSent, entity : Entities]]
  /\ \A p \in Processes :
       (process[p].entity # NoRow) <=> At(p, "save") \/ At(p, "insert")
                                         \/ At(p, "saveReport") \/ At(p, "saveScore")
  /\ watched \in [Nodes -> 0..MonitorTimeout]
  /\ listed \subseteq Nodes /\ onChain \subseteq Nodes /\ orphans \subseteq Nodes
  /\ tx \in [Requests -> {"none", "pending", "success", "reverted"}]
  /\ \A h \in Requests : tx[h] # "none" => At(h, "receipt")
  /\ alive \subseteq Nodes /\ settled \subseteq Nodes
  /\ signed \in [Nodes -> 0..MaxSent]
  /\ deliverable \in [Nodes -> SUBSET (1..MaxSent)]
  /\ faults \in 0..MaxFaults

\* When a registry is configured every row is of an agent the chain knows, whichever
\* calls fail and whenever the sponsored transaction is mined (a failed query answers
\* no).  Without one isAgentRegisteredOnChain lets every wallet in.
RowsOnlyForAgents ==
  RegistryConfigured => \A n \in Nodes : Present(n) => n \in onChain

\* The row keeps the endpoint and capabilities of the newest registration that was
\* answered with success, through replays, reports, scores and timeouts, until two
\* registrations are in flight, or two operations hold the row, at once, or a restart
\* forgets a registration that can still be replayed.
RegistrationKept == \A n \in settled : row[n].data = answered[n]

\* A node that falls silent for good becomes inactive for good: the score updates,
\* which save the row they read, stop once the monitor no longer lists the agent.
SilentGoesInactive ==
  \A n \in Nodes : <>[](n \notin alive) => <>[](row[n].status # "active")

\* A node that timed out while its agent lives is made active again by its reports,
\* even when a timeout and a save cross.
TimedOutComesBack ==
  \A n \in Nodes : (row[n].status = "inactive" /\ n \in alive)
                     ~> (row[n].status = "active" \/ n \notin alive)
=============================================================================

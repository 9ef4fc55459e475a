-------------------------- MODULE AgentsTable_proofs --------------------------
(***************************************************************************)
(* For any finite number of agents and any number of handlers, events and  *)
(* faults: the types of the agents table and of its writers (the Map of    *)
(* the monitor has one entry for each key), that an agent that registered  *)
(* itself and has no row is one whose transaction was lost, that the row   *)
(* shows the heartbeat that was handled last, and that the watcher always  *)
(* has a subscription or a timer to get one.                               *)
(***************************************************************************)
EXTENDS AgentsTable, FiniteSetTheorems, TLAPS

Rows      == [source: {"none", "contract", "node", "meta", "ensured"}, beat: Beats]
Cycles    == [pc: {"initial", "idle", "nodes", "save"}, todo: SUBSET Agents,
              snapshot: Seq(Entries)]
Transactions == [pc: {"idle", "save", "heartbeat", "verify", "update", "ensure"},
                 agent: Agents \cup {Nobody}, beat: Beats]

\* No two entries of a Map have one key.
OnePerKey(m) == \A i, j \in DOMAIN m : Same(m[i], m[j]) => i = j

World ==
  /\ contract \in [Agents -> 0..events] /\ meta \in [Agents -> 0..events]
  /\ node \in [Agents -> 0..events] /\ events \in 0..MaxEvents

Maps == map \in Seq(Entries) /\ OnePerKey(map) /\ cycle \in Cycles

Table ==
  /\ row \in [Agents -> Rows]
  /\ \A a \in Agents : row[a].source = "none" => Missing(a)
  /\ settled \in SUBSET Agents /\ seen \in [Agents -> Beats]
  /\ lost \in SUBSET Agents /\ sponsored \in SUBSET Agents

Deliveries ==
  /\ isWatching \in BOOLEAN /\ timers \in Nat /\ subs \in Nat
  /\ inbox \in [Txs -> Nat]

\* A handler at work has an agent; the one that updates a row found it.
Handling ==
  /\ handler \in [Handlers -> Transactions]
  /\ \A h \in Handlers :
       /\ ~Free(h) <=> handler[h].agent \in Agents
       /\ At(h, "update") => ~Missing(handler[h].agent)

\* Of a settled agent there is a row with the heartbeat seen, and at most one handler is
\* at work for it, none with a placeholder.
Settled ==
  \A a \in settled :
    /\ ~Missing(a) /\ row[a].beat = seen[a]
    /\ \A h, g \in Working(a) : h = g
    /\ \A h \in Working(a) : ~At(h, "ensure")

IInv ==
  /\ World /\ Maps /\ Table /\ Deliveries /\ Handling
  /\ faults \in 0..MaxFaults
  /\ MissingIsExplained /\ Settled
-----------------------------------------------------------------------------
(* The Map. *)

\* The sequence of a finite set has its elements, each at one place.
LEMMA SetToSeqIs ==
  ASSUME NEW S, IsFiniteSet(S)
  PROVE  /\ Cardinality(S) \in Nat
         /\ SetToSeq(S) \in [1..Cardinality(S) -> S]
         /\ \A i, j \in 1..Cardinality(S) : SetToSeq(S)[i] = SetToSeq(S)[j] => i = j
<1>1. PICK f : f \in Bijection(1..Cardinality(S), S)
  BY FS_CardinalityType DEF ExistsBijection
<1>2. f \in [1..Cardinality(S) -> S] /\ IsInjective(f)
  BY <1>1 DEF Bijection, Injection, IsInjective
<1>3. SetToSeq(S) \in [1..Cardinality(S) -> S] /\ IsInjective(SetToSeq(S))
  BY <1>2, Zenon DEF SetToSeq
<1> QED
  BY <1>3, FS_CardinalityType DEF IsInjective

\* Entries put into a Map with one entry for each key: it still has one for each.
LEMMA PutKeeps ==
  ASSUME NEW m \in Seq(Entries), OnePerKey(m),
         NEW new \in SUBSET Entries, IsFiniteSet(new),
         \A e, f \in new : Same(e, f) => e = f
  PROVE  Put(m, new) \in Seq(Entries) /\ OnePerKey(Put(m, new))
<1> DEFINE added == {e \in new : \A i \in DOMAIN m : ~Same(m[i], e)}
           old == [i \in DOMAIN m |-> IF \E e \in new : Same(m[i], e)
                      THEN Newer(m[i], CHOOSE e \in new : Same(m[i], e))
                      ELSE m[i]]
           rest == SetToSeq(added)
           n == Cardinality(added)
<1>1. added \in SUBSET new
  OBVIOUS
<1>2. n \in Nat /\ rest \in [1..n -> added]
      /\ \A i, j \in 1..n : rest[i] = rest[j] => i = j
  BY <1>1, FS_Subset, SetToSeqIs
<1>3. DOMAIN m = 1..Len(m) /\ Len(m) \in Nat
  OBVIOUS
<1>4. \A i \in 1..Len(m) : old[i] \in Entries /\ Same(old[i], m[i])
  <2> TAKE i \in 1..Len(m)
  <2>1. m[i] \in Entries /\ Same(m[i], m[i])
    BY DEF Same
  <2>2. CASE ~\E e \in new : Same(m[i], e)
    BY <2>1, <2>2, <1>3
  <2>3. CASE \E e \in new : Same(m[i], e)
    <3> DEFINE e == CHOOSE e \in new : Same(m[i], e)
    <3>1. e \in new /\ Same(m[i], e)
      BY <2>3
    <3>2. old[i] = Newer(m[i], e)
      BY <2>3, <1>3
    <3> HIDE DEF e
    <3>3. Newer(m[i], e) \in {m[i], e}
      BY DEF Newer
    <3>4. Same(m[i], m[i]) /\ Same(e, m[i])
      BY <3>1 DEF Same
    <3> HIDE DEF old
    <3> QED
      BY <3>1, <3>2, <3>3, <3>4, <2>1
  <2> QED
    BY <2>2, <2>3
<1>5. old \in Seq(Entries) /\ Len(old) = Len(m)
  <2>1. old = [i \in 1..Len(m) |-> old[i]]
    BY <1>3
  <2> HIDE DEF old
  <2>2. old \in [1..Len(m) -> Entries]
    BY <2>1, <1>4
  <2> QED
    BY <2>2, <1>3
<1>6. rest \in Seq(Entries) /\ Len(rest) = n
  <2> HIDE DEF rest, added, n
  <2> QED
    BY <1>1, <1>2
<1>7. Put(m, new) = old \o rest
  BY Zenon DEF Put
<1>8. \A i \in 1..n : \A j \in 1..Len(m) : ~Same(old[j], rest[i]) /\ ~Same(rest[i], old[j])
  <2> TAKE i \in 1..n
  <2> TAKE j \in 1..Len(m)
  <2>1. rest[i] \in added
    BY <1>2
  <2>2. ~Same(m[j], rest[i])
    BY <2>1, <1>3
  <2> HIDE DEF old, rest, added, n
  <2> QED
    BY <2>2, <1>4 DEF Same
<1>9. \A i, j \in 1..Len(m) : Same(old[i], old[j]) => i = j
  <2> HIDE DEF old
  <2> QED
    BY <1>3, <1>4 DEF OnePerKey, Same
<1>10. \A i, j \in 1..n : Same(rest[i], rest[j]) => i = j
  <2> HIDE DEF rest, added, n
  <2> QED
    BY <1>1, <1>2
<1> DEFINE both == old \o rest
<1> HIDE DEF old, rest, added, n
<1>11. both \in Seq(Entries) /\ Len(both) = Len(m) + n
  BY <1>5, <1>6
<1>12. \A i \in 1..Len(both) :
          both[i] = IF i <= Len(m) THEN old[i] ELSE rest[i - Len(m)]
  BY <1>5, <1>6
<1>13. \A i \in 1..Len(both) : ~(i <= Len(m)) =>
          i - Len(m) \in 1..n /\ both[i] = rest[i - Len(m)]
  BY <1>2, <1>3, <1>11, <1>12
<1>14. ASSUME NEW i \in 1..Len(both), NEW j \in 1..Len(both), Same(both[i], both[j])
       PROVE  i = j
  <2> HIDE DEF both
  <2>1. CASE i <= Len(m) /\ j <= Len(m)
    BY <2>1, <1>3, <1>9, <1>11, <1>12, <1>14
  <2>2. CASE i <= Len(m) /\ ~(j <= Len(m))
    <3>1. j - Len(m) \in 1..n /\ both[j] = rest[j - Len(m)]
      BY <2>2, <1>13
    <3> QED
      BY <3>1, <2>2, <1>3, <1>8, <1>11, <1>12, <1>14
  <2>3. CASE ~(i <= Len(m)) /\ j <= Len(m)
    <3>1. i - Len(m) \in 1..n /\ both[i] = rest[i - Len(m)]
      BY <2>3, <1>13
    <3> QED
      BY <3>1, <2>3, <1>3, <1>8, <1>11, <1>12, <1>14
  <2>4. CASE ~(i <= Len(m)) /\ ~(j <= Len(m))
    <3>1. i - Len(m) \in 1..n /\ both[i] = rest[i - Len(m)]
      BY <2>4, <1>13
    <3>2. j - Len(m) \in 1..n /\ both[j] = rest[j - Len(m)]
      BY <2>4, <1>13
    <3>3. i - Len(m) = j - Len(m)
      BY <3>1, <3>2, <1>10, <1>14
    <3> QED
      BY <3>3, <1>3, <1>11
  <2> QED
    BY <2>1, <2>2, <2>3, <2>4
<1>15. DOMAIN both = 1..Len(both)
  BY <1>11
<1> QED
  BY <1>7, <1>11, <1>14, <1>15 DEF OnePerKey

\* The entries of agents read from one source, one for each.
LEMMA EntriesAre ==
  ASSUME NEW some \in SUBSET Agents, NEW source \in {"contract", "node"},
         NEW beat \in [Agents -> Beats]
  PROVE  /\ EntriesOf(some, source, beat) \in SUBSET Entries
         /\ IsFiniteSet(EntriesOf(some, source, beat))
         /\ \A e, f \in EntriesOf(some, source, beat) : Same(e, f) => e = f
<1> DEFINE new == EntriesOf(some, source, beat)
           entry == [a \in some |-> [agent |-> a, source |-> source, beat |-> beat[a]]]
<1>1. new \in SUBSET Entries
  BY DEF EntriesOf, Entries
<1>2. entry \in Surjection(some, new)
  BY DEF Surjection, EntriesOf
<1>3. IsFiniteSet(some)
  BY FS_Subset, AgentsAssumption
<1>4. IsFiniteSet(new)
  <2> HIDE DEF new, entry
  <2> QED
    BY <1>2, <1>3, FS_Surjection
<1> QED
  BY <1>1, <1>4 DEF EntriesOf, Same

-----------------------------------------------------------------------------
(* The invariant holds initially, and each action keeps each of its parts. *)

LEMMA InitInv == Init => IInv
<1> SUFFICES ASSUME Init PROVE IInv
  OBVIOUS
<1> USE AgentsAssumption DEF Init
<1>1. World
  BY DEF World
<1>2. Maps
  BY DEF Maps, OnePerKey, Cycles
<1>3. Table
  BY DEF Table, Rows, NoRow, Missing, Beats
<1>4. Deliveries
  BY DEF Deliveries
<1>5. Handling
  <2>1. Idle \in Transactions /\ Idle.pc = "idle" /\ Idle.agent \notin Agents
    BY DEF Transactions, Idle, Beats
  <2> QED
    BY <2>1, Zenon DEF Handling, Free, At
<1>6. MissingIsExplained
  BY DEF MissingIsExplained
<1>7. Settled
  BY DEF Settled
<1> QED
  BY <1>1, <1>2, <1>3, <1>4, <1>5, <1>6, <1>7 DEF IInv

LEMMA WorldStep ==
  ASSUME IInv, Next
  PROVE  World' /\ faults' \in 0..MaxFaults
<1> USE DEF IInv, World
<1>1. ASSUME NEW a \in Agents, NEW from \in {a, Oracle},
             Register(a, from) \/ Heartbeat(a, from) \/ VerifyInference(a)
               \/ ContractHeartbeat(a) \/ NodeHeartbeat(a)
      PROVE  World' /\ faults' \in 0..MaxFaults
  <2>1. events' = events + 1 /\ events' \in 0..MaxEvents /\ UNCHANGED faults
    BY <1>1, AgentsAssumption
    DEF Register, Heartbeat, VerifyInference, ContractHeartbeat, NodeHeartbeat, Deliver, Event
  <2>2. \A f \in [Agents -> 0..events] :
          /\ f \in [Agents -> 0..events'] /\ [f EXCEPT ![a] = f[a] + 1] \in [Agents -> 0..events']
          /\ [f EXCEPT ![a] = 1] \in [Agents -> 0..events']
    BY <2>1
  <2>3. \/ UNCHANGED meta \/ meta' = [meta EXCEPT ![a] = 1] \/ meta' = [meta EXCEPT ![a] = meta[a] + 1]
    BY <1>1
    DEF Register, Heartbeat, VerifyInference, ContractHeartbeat, NodeHeartbeat, Deliver
  <2>4. UNCHANGED contract \/ contract' = [contract EXCEPT ![a] = contract[a] + 1]
    BY <1>1
    DEF Register, Heartbeat, VerifyInference, ContractHeartbeat, NodeHeartbeat, Deliver
  <2>5. UNCHANGED node \/ node' = [node EXCEPT ![a] = node[a] + 1]
    BY <1>1
    DEF Register, Heartbeat, VerifyInference, ContractHeartbeat, NodeHeartbeat, Deliver
  <2>6. contract' \in [Agents -> 0..events'] /\ node' \in [Agents -> 0..events']
    BY <2>2, <2>4, <2>5
  <2>7. meta' \in [Agents -> 0..events']
    BY <2>2, <2>3
  <2> QED
    BY <2>1, <2>6, <2>7
<1>2. ASSUME UNCHANGED world, faults' = faults \/ Fault
      PROVE  World' /\ faults' \in 0..MaxFaults
  BY <1>2, AgentsAssumption DEF world, Fault
<1>3. ASSUME Monitor PROVE UNCHANGED world /\ (faults' = faults \/ Fault)
  BY <1>3 DEF Monitor, InitialSync, ReadContract, ReadNodes, SyncAgents
<1>4. ASSUME SubscriptionError \/ StartWatching \/ Restart
      PROVE  UNCHANGED world /\ (faults' = faults \/ Fault)
  BY <1>4 DEF SubscriptionError, StartWatching, Restart
<1>5. ASSUME NEW h \in Handlers, Handle(h) \/ \E a \in Agents : ReportUsage(h, a)
      PROVE  UNCHANGED world /\ (faults' = faults \/ Fault)
  BY <1>5 DEF Handle, ProcessTransaction, FindForHeartbeat, FindForInference, WriteAgent,
              ReportUsage
<1> QED
  BY <1>1, <1>2, <1>3, <1>4, <1>5 DEF Next

LEMMA MapsStep ==
  ASSUME IInv, Next
  PROVE  Maps'
<1> USE DEF IInv, Maps
<1>0. contract \in [Agents -> Beats] /\ node \in [Agents -> Beats]
  BY AgentsAssumption DEF World, Beats
<1>1. ASSUME NEW a \in Agents, InitialSync(a) PROVE Maps'
  BY <1>1 DEF InitialSync, Cycles, OnePerKey
<1>2. ASSUME ReadContract PROVE Maps'
  <2>1. \E some \in SUBSET Agents : map' = Put(map, EntriesOf(some, "contract", contract))
    BY <1>2, Zenon DEF ReadContract
  <2>2. map' \in Seq(Entries) /\ OnePerKey(map')
    BY <2>1, <1>0, EntriesAre, PutKeeps
  <2>3. cycle' \in Cycles
    BY <1>2 DEF ReadContract, Cycles
  <2> QED
    BY <2>2, <2>3 DEF OnePerKey
<1>3. ASSUME ReadNodes PROVE Maps'
  <2>1. \E some \in SUBSET Agents : map' = Put(map, EntriesOf(some, "node", node))
    BY <1>3, Zenon DEF ReadNodes
  <2>2. map' \in Seq(Entries) /\ OnePerKey(map')
    BY <2>1, <1>0, EntriesAre, PutKeeps
  <2>3. cycle' \in Cycles
    BY <1>3, <2>2 DEF ReadNodes, Cycles
  <2> QED
    BY <2>2, <2>3 DEF OnePerKey
<1>4. ASSUME SyncAgents PROVE Maps'
  <2>1. UNCHANGED map /\ cycle.snapshot \in Seq(Entries)
    BY <1>4 DEF SyncAgents, Cycles
  <2>2. cycle.snapshot # <<>> => Tail(cycle.snapshot) \in Seq(Entries)
    BY <2>1
  <2>3. <<>> \in Seq(Entries)
    OBVIOUS
  <2>4. cycle' \in Cycles
    BY <1>4, <2>2, <2>3 DEF SyncAgents, Cycles
  <2> QED
    BY <2>1, <2>4 DEF OnePerKey
<1>5. ASSUME Restart PROVE Maps'
  BY <1>5 DEF Restart, Cycles, OnePerKey
<1>6. ASSUME UNCHANGED <<map, cycle>> PROVE Maps'
  BY <1>6 DEF OnePerKey
<1>7. ASSUME NEW a \in Agents, NEW from \in {a, Oracle},
             Register(a, from) \/ Heartbeat(a, from) \/ VerifyInference(a)
               \/ ContractHeartbeat(a) \/ NodeHeartbeat(a)
      PROVE  UNCHANGED <<map, cycle>>
  BY <1>7 DEF Register, Heartbeat, VerifyInference, ContractHeartbeat, NodeHeartbeat,
              Deliver, monitor
<1>8. ASSUME SubscriptionError \/ StartWatching PROVE UNCHANGED <<map, cycle>>
  BY <1>8 DEF SubscriptionError, StartWatching, monitor
<1>9. ASSUME NEW h \in Handlers, Handle(h) \/ \E a \in Agents : ReportUsage(h, a)
      PROVE  UNCHANGED <<map, cycle>>
  BY <1>9 DEF Handle, ProcessTransaction, FindForHeartbeat, FindForInference, WriteAgent,
              ReportUsage, monitor
<1> QED
  BY <1>1, <1>2, <1>3, <1>4, <1>5, <1>6, <1>7, <1>8, <1>9, Zenon DEF Next, Monitor

LEMMA DeliveriesStep ==
  ASSUME IInv, Next
  PROVE  Deliveries'
<1> USE DEF IInv, Deliveries
<1>1. ASSUME NEW a \in Agents, NEW from \in {a, Oracle}, NEW kind \in Kinds,
             Deliver(kind, from, a)
      PROVE  Deliveries'
  <2>1. [kind |-> kind, from |-> from, agent |-> a] \in Txs /\ UNCHANGED <<isWatching, timers, subs>>
    BY <1>1 DEF Deliver, Txs, watcher
  <2>2. PICK tx \in Txs : inbox' = [inbox EXCEPT ![tx] = inbox[tx] + subs]
    BY <1>1, <2>1 DEF Deliver
  <2>3. inbox' \in [Txs -> Nat]
    BY <2>2
  <2> QED
    BY <2>1, <2>3, Zenon
<1>2. ASSUME NEW a \in Agents, NEW from \in {a, Oracle},
             Register(a, from) \/ Heartbeat(a, from) \/ VerifyInference(a)
      PROVE  Deliveries'
  BY <1>1, <1>2 DEF Register, Heartbeat, VerifyInference, Kinds
<1>3. ASSUME NEW a \in Agents, ContractHeartbeat(a) \/ NodeHeartbeat(a) PROVE Deliveries'
  BY <1>3 DEF ContractHeartbeat, NodeHeartbeat, watcher, blocks
<1>4. ASSUME Monitor PROVE Deliveries'
  BY <1>4 DEF Monitor, InitialSync, ReadContract, ReadNodes, SyncAgents, watcher, blocks
<1>5. ASSUME SubscriptionError PROVE Deliveries'
  <2>1. timers' \in Nat /\ subs' \in Nat /\ inbox' \in [Txs -> Nat]
    BY <1>5 DEF SubscriptionError, blocks
  <2>2. isWatching' \in BOOLEAN
    BY <1>5, Zenon DEF SubscriptionError, FlagAfterError
  <2> QED
    BY <2>1, <2>2
<1>6. ASSUME StartWatching PROVE Deliveries'
  <2>1. timers' \in Nat /\ subs' \in Nat /\ inbox' \in [Txs -> Nat]
    BY <1>6 DEF StartWatching, watcher, blocks
  <2>2. isWatching' = TRUE \/ isWatching' = isWatching
    BY <1>6, Zenon DEF StartWatching, watcher
  <2>3. isWatching' \in BOOLEAN
    BY <2>2, Zenon
  <2> QED
    BY <2>1, <2>3
<1>7. ASSUME NEW h \in Handlers, NEW tx \in Txs, ProcessTransaction(h, tx) PROVE Deliveries'
  BY <1>7 DEF ProcessTransaction, watcher
<1>8. ASSUME NEW h \in Handlers,
             \/ FindForHeartbeat(h) \/ FindForInference(h) \/ WriteAgent(h)
             \/ \E a \in Agents : ReportUsage(h, a)
      PROVE  Deliveries'
  BY <1>8 DEF FindForHeartbeat, FindForInference, WriteAgent, ReportUsage, watcher
<1>9. ASSUME Restart PROVE Deliveries'
  BY <1>9 DEF Restart
<1> QED
  BY <1>2, <1>3, <1>4, <1>5, <1>6, <1>7, <1>8, <1>9 DEF Next, Handle

-----------------------------------------------------------------------------
(* The rows, the handlers and what is remembered of them. *)

told == <<row, handler, sponsored, settled, seen, lost, inbox, meta>>

\* The transactions that an agent sends itself.
Own(a) == {tx \in Txs : tx.from = a /\ tx.agent = a}

\* A precompile's transaction: it is delivered, or the agent is lost.
Delivered ==
  /\ UNCHANGED <<row, handler, settled, seen>>
  /\ \A tx \in Txs : inbox'[tx] >= inbox[tx]
  /\ lost \subseteq lost' /\ lost' \subseteq Agents
  /\ sponsored \subseteq sponsored' /\ sponsored' \subseteq Agents
  /\ \A a \in Agents \ sponsored' : meta'[a] > 0 =>
       meta[a] > 0 \/ a \in lost' \/ \E tx \in Own(a) : inbox'[tx] > 0

\* A row of the monitor.
Monitored(a, new) ==
  /\ new.source # "none" /\ Write(a, new)
  /\ UNCHANGED <<handler, sponsored, seen, lost, inbox, meta>>

LEMMA DeliverStep ==
  ASSUME IInv, NEW a \in Agents, NEW from \in {a, Oracle},
         Register(a, from) \/ Heartbeat(a, from) \/ VerifyInference(a)
  PROVE  Delivered
<1>1. PICK kind \in Kinds, sender \in {a, from} :
        Deliver(kind, sender, a) /\ (Register(a, from) => sender = from)
  BY DEF Register, Heartbeat, VerifyInference, Kinds
<1>2. [kind |-> kind, from |-> sender, agent |-> a] \in Txs
  BY DEF Txs
<1>3. PICK tx \in Txs : /\ tx.from = sender /\ tx.agent = a
                        /\ inbox' = [inbox EXCEPT ![tx] = inbox[tx] + subs]
  BY <1>1, <1>2 DEF Deliver
<1>4. /\ inbox \in [Txs -> Nat] /\ subs \in Nat
      /\ lost \subseteq Agents /\ sponsored \subseteq Agents
  BY DEF IInv, Deliveries, Table
<1>5. lost' = lost \cup IF subs = 0 THEN {a} ELSE {}
  BY <1>1 DEF Deliver, Lose
<1>6. subs = 0 \/ inbox'[tx] > 0
  BY <1>3, <1>4
<1>7. /\ \A b \in Agents : meta'[b] > 0 => meta[b] > 0 \/ (b = a /\ Register(a, from))
      /\ sponsored' = sponsored \/ sponsored' = sponsored \cup {a}
      /\ Register(a, from) => a \in sponsored' \/ from = a
  BY DEF Register, Heartbeat, VerifyInference, IInv, World
<1>8. UNCHANGED <<row, handler, settled, seen>>
  BY <1>1 DEF Deliver
<1>9. \A t \in Txs : inbox'[t] >= inbox[t]
  BY <1>3, <1>4
<1>10. ASSUME NEW b \in Agents \ sponsored', meta'[b] > 0
       PROVE  meta[b] > 0 \/ b \in lost' \/ \E t \in Own(b) : inbox'[t] > 0
  <2>1. CASE b = a /\ Register(a, from)
    <3>1. tx \in Own(a)
      BY <1>1, <1>3, <1>7, <2>1 DEF Own
    <3> QED
      BY <1>5, <1>6, <2>1, <3>1
  <2> QED
    BY <1>7, <1>10, <2>1
<1>11. sponsored \subseteq sponsored' /\ sponsored' \subseteq Agents
  BY <1>4, <1>7
<1> QED
  BY <1>4, <1>5, <1>8, <1>9, <1>10, <1>11 DEF Delivered

LEMMA MonitorStep ==
  ASSUME IInv, Monitor
  PROVE  UNCHANGED told \/ \E a \in Agents : \E new \in Rows : Monitored(a, new)
<1>0. contract \in [Agents -> Beats]
  BY AgentsAssumption DEF IInv, World, Beats
<1>1. ASSUME NEW a \in Agents, InitialSync(a)
      PROVE  UNCHANGED told \/ \E new \in Rows : Monitored(a, new)
  <2> DEFINE new == [source |-> "contract", beat |-> contract[a]]
  <2>1. UNCHANGED <<handler, sponsored, seen, lost, inbox, meta>>
    BY <1>1 DEF InitialSync, world, blocks
  <2>2. Write(a, new) \/ UNCHANGED <<row, settled>>
    BY <1>1 DEF InitialSync
  <2>3. new \in Rows /\ new.source # "none"
    BY <1>0 DEF Rows
  <2> HIDE DEF new
  <2> QED
    BY <2>1, <2>2, <2>3 DEF told, Monitored
<1>2. ASSUME ReadContract \/ ReadNodes PROVE UNCHANGED told
  BY <1>2 DEF ReadContract, ReadNodes, told, world, blocks, history
<1>3. ASSUME SyncAgents
      PROVE  UNCHANGED told \/ \E a \in Agents : \E new \in Rows : Monitored(a, new)
  <2> DEFINE e == Head(cycle.snapshot)
             new == [source |-> e.source, beat |-> e.beat]
  <2>1. UNCHANGED <<handler, sponsored, seen, lost, inbox, meta>>
    BY <1>3 DEF SyncAgents, world, blocks
  <2>2. (cycle.snapshot # <<>> /\ Write(e.agent, new)) \/ UNCHANGED <<row, settled>>
    BY <1>3 DEF SyncAgents
  <2>3. ASSUME cycle.snapshot # <<>>
        PROVE  e.agent \in Agents /\ new \in Rows /\ new.source # "none"
    <3>1. cycle.snapshot \in Seq(Entries)
      BY DEF IInv, Maps, Cycles
    <3>2. e \in Entries
      BY <2>3, <3>1
    <3> HIDE DEF e
    <3> QED
      BY <3>2 DEF Entries, Rows
  <2> HIDE DEF new, e
  <2> QED
    BY <2>1, <2>2, <2>3 DEF told, Monitored
<1> QED
  BY <1>1, <1>2, <1>3 DEF Monitor

\* What a step is to the rows and the handlers.
LEMMA StepIs ==
  ASSUME IInv, Next
  PROVE  \/ UNCHANGED told
         \/ Delivered
         \/ \E a \in Agents : \E new \in Rows : Monitored(a, new)
         \/ \E h \in Handlers :
              \/ \E tx \in Txs : ProcessTransaction(h, tx)
              \/ FindForHeartbeat(h) \/ FindForInference(h) \/ WriteAgent(h)
              \/ \E a \in Agents : ReportUsage(h, a)
         \/ Restart
<1>1. ASSUME NEW a \in Agents, ContractHeartbeat(a) \/ NodeHeartbeat(a)
      PROVE  UNCHANGED told
  BY <1>1 DEF ContractHeartbeat, NodeHeartbeat, told, blocks, history
<1>2. ASSUME SubscriptionError \/ StartWatching PROVE UNCHANGED told
  BY <1>2 DEF SubscriptionError, StartWatching, told, world, blocks, history
<1> QED
  BY <1>1, <1>2, DeliverStep, MonitorStep, Zenon DEF Next, Handle


LEMMA IdleIs == Idle \in Transactions /\ Idle.pc = "idle" /\ Idle.agent = Nobody
  BY AgentsAssumption DEF Transactions, Idle, Beats

LEMMA HandlerIs ==
  ASSUME IInv, NEW h \in Handlers
  PROVE  /\ handler[h] \in Transactions /\ handler[h].beat \in Beats
         /\ handler[h].pc \in {"idle", "save", "heartbeat", "verify", "update", "ensure"}
         /\ ~Free(h) <=> handler[h].agent \in Agents
         /\ At(h, "update") => ~Missing(handler[h].agent)
  BY DEF IInv, Handling, Transactions

\* The row that a handler writes shows the heartbeat it brings, but for a placeholder.
LEMMA HandledIs ==
  ASSUME IInv, NEW h \in Handlers, At(h, "save") \/ At(h, "update") \/ At(h, "ensure")
  PROVE  /\ handler[h].agent \in Agents
         /\ Handled(h) \in Rows /\ Handled(h).source # "none"
         /\ ~At(h, "ensure") => Handled(h).beat = handler[h].beat
<1> DEFINE a == handler[h].agent
<1>0. handler[h].beat \in Beats /\ 0 \in Beats
  BY HandlerIs, AgentsAssumption DEF Beats
<1>1. a \in Agents
  BY HandlerIs DEF Free, At
<1>2. CASE At(h, "save")
  <2>1. Handled(h) = [source |-> "meta", beat |-> handler[h].beat]
    BY <1>2 DEF Handled, At
  <2> QED
    BY <1>0, <1>1, <1>2, <2>1 DEF Rows, At
<1>3. CASE At(h, "update")
  <2>1. Handled(h) = [row[a] EXCEPT !.beat = handler[h].beat]
    BY <1>3 DEF Handled, Updated, At
  <2>2. row[a] \in Rows /\ row[a].source # "none"
    BY <1>1, <1>3, HandlerIs DEF IInv, Table
  <2> QED
    BY <1>0, <1>1, <1>3, <2>1, <2>2 DEF Rows, At
<1>4. CASE At(h, "ensure")
  <2>1. Handled(h) = [source |-> "ensured", beat |-> 0]
    BY <1>4 DEF Handled, At
  <2> QED
    BY <1>0, <1>1, <1>4, <2>1 DEF Rows, At
<1> QED
  BY <1>2, <1>3, <1>4

\* A write of a handler: its agent has a row, or is lost; it rests.
LEMMA WriteIs ==
  ASSUME IInv, NEW h \in Handlers, WriteAgent(h)
  PROVE  /\ handler[h].agent \in Agents
         /\ handler' = [handler EXCEPT ![h] = Idle]
         /\ UNCHANGED <<inbox, meta>>
         /\ \/ /\ row' = [row EXCEPT ![handler[h].agent] = Handled(h)]
               /\ UNCHANGED lost
            \/ /\ lost' = lost \cup {handler[h].agent}
               /\ UNCHANGED <<row, settled, seen>>
  BY HandledIs DEF WriteAgent, Stop, Lose, world

\* Rows stay.
LEMMA RowsStay ==
  ASSUME IInv, Next
  PROVE  \A a \in Agents : Missing(a)' => Missing(a)
<1> USE DEF Missing, NoRow
<1>0. row \in [Agents -> Rows]
  BY DEF IInv, Table
<1>1. ASSUME UNCHANGED row PROVE \A a \in Agents : Missing(a)' => Missing(a)
  BY <1>1
<1>2. ASSUME NEW b \in Agents, NEW new \in Rows, new.source # "none",
             row' = [row EXCEPT ![b] = new]
      PROVE  \A a \in Agents : Missing(a)' => Missing(a)
  BY <1>0, <1>2
<1>3. ASSUME NEW h \in Handlers, WriteAgent(h)
      PROVE  \A a \in Agents : Missing(a)' => Missing(a)
  <2>1. At(h, "save") \/ At(h, "update") \/ At(h, "ensure")
    BY <1>3 DEF WriteAgent
  <2> QED
    BY <1>1, <1>2, <1>3, <2>1, HandledIs, WriteIs
<1>4. ASSUME NEW h \in Handlers,
             \/ \E tx \in Txs : ProcessTransaction(h, tx)
             \/ FindForHeartbeat(h) \/ FindForInference(h)
             \/ \E a \in Agents : ReportUsage(h, a)
      PROVE  UNCHANGED row
  BY <1>4 DEF ProcessTransaction, FindForHeartbeat, FindForInference, ReportUsage
<1>5. ASSUME UNCHANGED told \/ Delivered \/ Restart PROVE UNCHANGED row
  BY <1>5 DEF told, Delivered, Restart
<1>6. ASSUME NEW a \in Agents, NEW new \in Rows, Monitored(a, new)
      PROVE  \A b \in Agents : Missing(b)' => Missing(b)
  BY <1>2, <1>6 DEF Monitored, Write
<1> HIDE DEF Missing
<1> QED
  BY <1>1, <1>3, <1>4, <1>5, <1>6, StepIs, Zenon

LEMMA TableStep ==
  ASSUME IInv, Next
  PROVE  Table'
<1>0. Table /\ handler \in [Handlers -> Transactions] /\ \A tx \in Txs : tx.agent \in Agents
  BY DEF IInv, Handling, Txs
<1>1. ASSUME UNCHANGED <<row, seen>>, settled' \in SUBSET Agents, lost' \in SUBSET Agents,
             sponsored' \in SUBSET Agents
      PROVE  Table'
  BY <1>0, <1>1, Zenon DEF Table, Missing
<1>2. ASSUME NEW a \in Agents, NEW new \in Rows, new.source # "none",
             row' = [row EXCEPT ![a] = new],
             settled' \in SUBSET Agents, lost' \in SUBSET Agents, seen' \in [Agents -> Beats],
             sponsored' \in SUBSET Agents
      PROVE  Table'
  BY <1>0, <1>2 DEF Table, Missing, NoRow
<1>3. ASSUME UNCHANGED told \/ Delivered PROVE Table'
  BY <1>0, <1>1, <1>3 DEF told, Delivered, Table
<1>4. ASSUME NEW a \in Agents, NEW new \in Rows, Monitored(a, new) PROVE Table'
  BY <1>0, <1>2, <1>4 DEF Monitored, Write, Table
<1>5. ASSUME NEW h \in Handlers, NEW tx \in Txs, ProcessTransaction(h, tx) PROVE Table'
  <2>1. tx.agent \in Agents
    BY <1>0
  <2> QED
    BY <1>0, <1>1, <1>5, <2>1 DEF ProcessTransaction, Begin, Lose, Table
<1>6. ASSUME NEW h \in Handlers,
             FindForHeartbeat(h) \/ FindForInference(h) \/ \E a \in Agents : ReportUsage(h, a)
      PROVE  Table'
  BY <1>0, <1>1, <1>6 DEF FindForHeartbeat, FindForInference, ReportUsage, Begin, history, Table
<1>7. ASSUME NEW h \in Handlers, WriteAgent(h) PROVE Table'
  <2> DEFINE a == handler[h].agent
  <2>1. a \in Agents /\ Handled(h) \in Rows /\ Handled(h).source # "none"
    BY <1>7, HandledIs DEF WriteAgent
  <2>2. handler[h].beat \in Beats
    BY HandlerIs
  <2>3. /\ settled' \in SUBSET Agents /\ lost' \in SUBSET Agents
        /\ seen' \in [Agents -> Beats] /\ sponsored' \in SUBSET Agents
    BY <1>0, <1>7, <2>1, <2>2 DEF WriteAgent, Lose, Table
  <2> QED
    BY <1>0, <1>1, <1>2, <1>7, <2>1, <2>3, WriteIs
<1>8. ASSUME Restart PROVE Table'
  BY <1>0, <1>1, <1>8 DEF Restart, Lose, Table
<1> QED
  BY <1>3, <1>4, <1>5, <1>6, <1>7, <1>8, StepIs


LEMMA HandlingStep ==
  ASSUME IInv, Next
  PROVE  Handling'
<1>0. /\ handler \in [Handlers -> Transactions] /\ meta \in [Agents -> Beats]
      /\ Nobody \notin Agents /\ \A a \in Agents : row'[a] = NoRow => row[a] = NoRow
  BY RowsStay, AgentsAssumption DEF IInv, Handling, World, Beats, Missing
<1>1. ASSUME UNCHANGED handler PROVE Handling'
  <2>1. \A h \in Handlers : handler'[h] = handler[h]
    BY <1>1
  <2>2. \A h \in Handlers :
          /\ ~(handler'[h].pc = "idle") <=> handler'[h].agent \in Agents
          /\ handler'[h].pc = "update" => row'[handler'[h].agent] # NoRow
    BY <2>1, <1>0, HandlerIs DEF Free, At, Missing
  <2> QED
    BY <1>0, <1>1, <2>2 DEF Handling, Free, At, Missing
<1>2. ASSUME NEW h \in Handlers, NEW t \in Transactions, handler' = [handler EXCEPT ![h] = t],
             ~(t.pc = "idle") <=> t.agent \in Agents,
             t.pc = "update" => t.agent \in Agents /\ ~Missing(t.agent)
      PROVE  Handling'
  <2>1. \A g \in Handlers : handler'[g] = IF g = h THEN t ELSE handler[g]
    BY <1>0, <1>2
  <2>2. \A g \in Handlers :
          /\ ~(handler'[g].pc = "idle") <=> handler'[g].agent \in Agents
          /\ handler'[g].pc = "update" => row'[handler'[g].agent] # NoRow
    BY <2>1, <1>0, <1>2, HandlerIs DEF Free, At, Missing
  <2>3. handler' \in [Handlers -> Transactions]
    BY <1>0, <1>2
  <2> QED
    BY <2>2, <2>3 DEF Handling, Free, At, Missing
<1>3. ASSUME NEW h \in Handlers, handler' = [handler EXCEPT ![h] = Idle] PROVE Handling'
  BY <1>0, <1>2, <1>3, IdleIs
<1>4. ASSUME NEW h \in Handlers, NEW a \in Agents,
             NEW stage \in {"save", "heartbeat", "verify", "ensure"}, Begin(h, stage, a)
      PROVE  Handling'
  <2> DEFINE t == [pc |-> stage, agent |-> a, beat |-> meta[a]]
  <2>1. handler' = [handler EXCEPT ![h] = t]
    BY <1>4 DEF Begin, Take
  <2>2. t \in Transactions /\ t.pc # "idle" /\ t.agent \in Agents /\ t.pc # "update"
    BY <1>0 DEF Transactions
  <2> HIDE DEF t
  <2> QED
    BY <1>2, <2>1, <2>2
<1>5. ASSUME NEW h \in Handlers, NEW stage \in {"save", "update", "ensure"}, ~Free(h),
             Goto(h, stage), stage = "update" => ~Missing(handler[h].agent)
      PROVE  Handling'
  <2> DEFINE t == [handler[h] EXCEPT !.pc = stage]
  <2>1. handler' = [handler EXCEPT ![h] = t]
    BY <1>0, <1>5 DEF Goto
  <2>2. t \in Transactions /\ t.pc = stage /\ t.agent = handler[h].agent
    BY <1>0 DEF Transactions
  <2>3. t.agent \in Agents /\ t.pc # "idle"
    BY <1>5, <2>2, HandlerIs
  <2> HIDE DEF t
  <2> QED
    BY <1>2, <1>5, <2>1, <2>2, <2>3
<1>6. ASSUME NEW h \in Handlers, NEW tx \in Txs, ProcessTransaction(h, tx) PROVE Handling'
  <2>1. tx.kind \in Kinds
    BY DEF Txs
  <2>2. \/ UNCHANGED handler
        \/ /\ Addressee(tx) \in Agents
           /\ Begin(h, IF tx.kind = "register" THEN "save" ELSE tx.kind, Addressee(tx))
    BY <1>6, Zenon DEF ProcessTransaction, Known
  <2> QED
    BY <1>1, <1>4, <2>1, <2>2 DEF Kinds
<1>7. ASSUME NEW h \in Handlers, NEW a \in Agents, ReportUsage(h, a) PROVE Handling'
  BY <1>4, <1>7 DEF ReportUsage
<1>8. ASSUME NEW h \in Handlers, FindForHeartbeat(h) PROVE Handling'
  <2>1. ~Free(h) /\ Goto(h, IF Missing(handler[h].agent) THEN "save" ELSE "update")
    BY <1>8 DEF FindForHeartbeat, Free, At
  <2> QED
    BY <1>5, <2>1
<1>9. ASSUME NEW h \in Handlers, FindForInference(h) PROVE Handling'
  <2>1. ~Free(h) /\ (Goto(h, "ensure") \/ handler' = [handler EXCEPT ![h] = Idle])
    BY <1>9 DEF FindForInference, Free, At, Stop
  <2> QED
    BY <1>3, <1>5, <2>1
<1>10. ASSUME NEW h \in Handlers, WriteAgent(h) PROVE Handling'
  BY <1>3, <1>10, WriteIs
<1>11. ASSUME Restart PROVE Handling'
  <2>1. handler' = [h \in Handlers |-> Idle]
    BY <1>11 DEF Restart
  <2>2. \A h \in Handlers : handler'[h].pc = "idle" /\ handler'[h].agent \notin Agents
    BY <2>1, <1>0, IdleIs
  <2>3. handler' \in [Handlers -> Transactions]
    BY <2>1, IdleIs
  <2> QED
    BY <2>2, <2>3 DEF Handling, Free, At, Missing
<1>12. ASSUME UNCHANGED told \/ Delivered \/ \E a \in Agents : \E new \in Rows : Monitored(a, new)
       PROVE  UNCHANGED handler
  BY <1>12 DEF told, Delivered, Monitored
<1> QED
  BY <1>1, <1>6, <1>7, <1>8, <1>9, <1>10, <1>11, <1>12, StepIs


\* What the steps of a handler do to the others, and to the transactions that wait.
LEMMA HandlerStep ==
  ASSUME IInv, NEW h \in Handlers,
         \/ \E tx \in Txs : ProcessTransaction(h, tx)
         \/ FindForHeartbeat(h) \/ FindForInference(h) \/ WriteAgent(h)
         \/ \E a \in Agents : ReportUsage(h, a)
  PROVE  /\ \A g \in Handlers : g # h => handler'[g] = handler[g]
         /\ UNCHANGED meta
  BY DEF ProcessTransaction, FindForHeartbeat, FindForInference, WriteAgent, ReportUsage,
         Begin, Take, Goto, Stop, IInv, Handling, world

LEMMA SponsoredStep ==
  ASSUME IInv, Next
  PROVE  Delivered \/ UNCHANGED sponsored
<1>1. ASSUME NEW h \in Handlers,
             \/ \E tx \in Txs : ProcessTransaction(h, tx)
             \/ FindForHeartbeat(h) \/ FindForInference(h) \/ WriteAgent(h)
             \/ \E a \in Agents : ReportUsage(h, a)
      PROVE  UNCHANGED sponsored
  BY <1>1 DEF ProcessTransaction, FindForHeartbeat, FindForInference, WriteAgent,
              ReportUsage, history
<1>2. UNCHANGED told \/ (\E a \in Agents : \E new \in Rows : Monitored(a, new)) \/ Restart
        => UNCHANGED sponsored
  BY DEF told, Monitored, Restart
<1> QED
  BY <1>1, <1>2, StepIs, Zenon

\* A transaction that its agent sends itself is taken to be about that agent, which
\* handleAgentRegister does since it finds no beneficiary.
LEMMA OwnAddressee ==
  ASSUME NEW a \in Agents, NEW tx \in Own(a)
  PROVE  Addressee(tx) = a
<1>1. tx \in Txs /\ tx.from = a /\ tx.agent = a /\ tx.kind \in Kinds
  BY DEF Own, Txs
<1>2. InputLength(tx) = MinLength
  BY <1>1 DEF InputLength
<1>3. Beneficiary(tx) = a
  BY <1>1, <1>2 DEF Beneficiary, MinLength, Word
<1> QED
  BY <1>1, <1>3 DEF Addressee, Kinds

LEMMA MissingStep ==
  ASSUME IInv, Next
  PROVE  MissingIsExplained'
<1> SUFFICES ASSUME NEW a \in Agents, a \notin sponsored', meta'[a] > 0, row'[a] = NoRow,
                    \A g \in Handlers : handler'[g].agent # a,
                    \A tx \in Own(a) : inbox'[tx] = 0
             PROVE  a \in lost'
  BY DEF MissingIsExplained, Missing, Working, Own
<1>0. /\ lost \subseteq Agents /\ inbox \in [Txs -> Nat] /\ row \in [Agents -> Rows]
      /\ handler \in [Handlers -> Transactions] /\ row[a] = NoRow
  BY RowsStay DEF IInv, Deliveries, Table, Handling, Missing
<1>1. ASSUME meta[a] > 0, \A g \in Handlers : handler[g].agent # a,
             \A tx \in Own(a) : inbox[tx] = 0
      PROVE  a \in lost
  <2>1. a \notin sponsored
    <3>1. CASE Delivered
      BY <3>1 DEF Delivered
    <3>2. CASE UNCHANGED sponsored
      BY <3>2
    <3> QED
      BY <3>1, <3>2, SponsoredStep
  <2> QED
    BY <1>0, <1>1, <2>1 DEF IInv, MissingIsExplained, Missing, Working, Own
<1>2. CASE UNCHANGED told \/ \E b \in Agents : \E new \in Rows : Monitored(b, new)
  <2>1. UNCHANGED <<handler, lost, inbox, meta>>
    BY <1>2 DEF told, Monitored
  <2> QED
    BY <1>1, <2>1
<1>3. CASE Delivered
  <2>1. \A tx \in Own(a) : inbox[tx] = 0
    <3> TAKE tx \in Own(a)
    <3>1. inbox'[tx] >= inbox[tx] /\ inbox[tx] \in Nat
      BY <1>0, <1>3 DEF Delivered, Own
    <3> QED
      BY <3>1
  <2>2. meta[a] > 0 \/ a \in lost'
    BY <1>3 DEF Delivered
  <2> QED
    BY <1>1, <1>3, <2>1, <2>2 DEF Delivered
<1>4. ASSUME NEW h \in Handlers, NEW tx \in Txs, ProcessTransaction(h, tx) PROVE a \in lost'
  <2>1. \A g \in Handlers : g # h => handler'[g] = handler[g]
    BY <1>4, HandlerStep
  <2>2. handler[h].agent # a
    BY <1>4, HandlerIs DEF ProcessTransaction
  <2>3. \/ handler'[h].agent = Addressee(tx) /\ UNCHANGED lost
        \/ ~Known(Addressee(tx)) /\ UNCHANGED lost
        \/ lost' = lost \cup {tx.agent}
    BY <1>0, <1>4 DEF ProcessTransaction, Begin, Take, Lose
  <2>4. inbox' = [inbox EXCEPT ![tx] = inbox[tx] - 1] /\ UNCHANGED meta
    BY <1>4, HandlerStep DEF ProcessTransaction
  <2>5. CASE tx \in Own(a)
    <3>1. Addressee(tx) = a /\ tx.agent = a
      BY <2>5, OwnAddressee DEF Own
    <3>2. Known(a)
      BY <2>4 DEF Known
    <3> QED
      BY <2>3, <3>1, <3>2
  <2>6. CASE tx \notin Own(a)
    <3>1. \A t \in Own(a) : inbox[t] = 0
      <4> TAKE t \in Own(a)
      <4>1. t \in Txs /\ t # tx
        BY <2>6 DEF Own
      <4> QED
        BY <1>0, <2>4, <4>1
    <3>2. a \in lost
      BY <1>1, <2>1, <2>2, <2>4, <3>1
    <3> QED
      BY <2>3, <3>2
  <2> QED
    BY <2>5, <2>6
<1>5. ASSUME NEW h \in Handlers, FindForHeartbeat(h) \/ FindForInference(h) PROVE a \in lost'
  <2>1. \A g \in Handlers : g # h => handler'[g] = handler[g]
    BY <1>5, HandlerStep
  <2>2. UNCHANGED <<lost, inbox, meta>>
    BY <1>5, HandlerStep DEF FindForHeartbeat, FindForInference, history
  <2>3. handler[h].agent # a
    <3>1. \/ handler'[h].agent = handler[h].agent
          \/ ~Missing(handler[h].agent)
      <4>1. (\E stage \in {"save", "update", "ensure"} : Goto(h, stage)) \/ ~Missing(handler[h].agent)
        BY <1>5, Zenon DEF FindForHeartbeat, FindForInference
      <4>2. ASSUME NEW stage, Goto(h, stage) PROVE handler'[h].agent = handler[h].agent
        BY <1>0, <4>2 DEF Goto, Transactions
      <4> QED
        BY <4>1, <4>2
    <3> QED
      BY <3>1, <1>0 DEF Missing
  <2> QED
    BY <1>1, <2>1, <2>2, <2>3
<1>6. ASSUME NEW h \in Handlers, NEW b \in Agents, ReportUsage(h, b) PROVE a \in lost'
  <2>1. \A g \in Handlers : g # h => handler'[g] = handler[g]
    BY <1>6, HandlerStep
  <2>2. handler[h].agent # a
    BY <1>6, HandlerIs DEF ReportUsage
  <2>3. UNCHANGED <<lost, inbox, meta>>
    BY <1>6, HandlerStep DEF ReportUsage
  <2> QED
    BY <1>1, <2>1, <2>2, <2>3
<1>7. ASSUME NEW h \in Handlers, WriteAgent(h) PROVE a \in lost'
  <2>1. \A g \in Handlers : g # h => handler'[g] = handler[g]
    BY <1>7, HandlerStep
  <2>2. Handled(h) # NoRow
    BY <1>7, HandledIs DEF WriteAgent, NoRow
  <2>3. handler[h].agent # a \/ a \in lost'
    BY <1>0, <1>7, <2>2, WriteIs
  <2>4. handler[h].agent # a => a \in lost
    BY <1>1, <1>7, <2>1, WriteIs
  <2> QED
    BY <1>7, <2>3, <2>4, WriteIs
<1>8. ASSUME Restart PROVE a \in lost'
  <2>1. lost' = lost \cup {b \in Agents : Working(b) # {} \/ \E tx \in Txs : tx.agent = b /\ inbox[tx] > 0}
    BY <1>8 DEF Restart, Lose
  <2>2. UNCHANGED meta
    BY <1>8 DEF Restart, world
  <2>3. CASE Working(a) # {} \/ \E tx \in Txs : tx.agent = a /\ inbox[tx] > 0
    BY <2>1, <2>3
  <2>4. CASE Working(a) = {} /\ \A tx \in Txs : tx.agent = a => ~(inbox[tx] > 0)
    BY <1>0, <1>1, <2>1, <2>2, <2>4 DEF Working, Own
  <2> QED
    BY <2>3, <2>4
<1> QED
  BY <1>2, <1>3, <1>4, <1>5, <1>6, <1>7, <1>8, StepIs


LEMMA SettledStep ==
  ASSUME IInv, Next
  PROVE  Settled'
<1> SUFFICES ASSUME NEW a \in settled'
             PROVE  /\ row'[a] # NoRow /\ row'[a].beat = seen'[a]
                    /\ \A h, g \in Handlers :
                         handler'[h].agent = a /\ handler'[g].agent = a => h = g
                    /\ \A h \in Handlers : handler'[h].agent = a => handler'[h].pc # "ensure"
  BY DEF Settled, Missing, Working, At
<1> DEFINE Good == /\ row[a] # NoRow /\ row[a].beat = seen[a]
                   /\ \A h, g \in Handlers :
                        handler[h].agent = a /\ handler[g].agent = a => h = g
                   /\ \A h \in Handlers : handler[h].agent = a => handler[h].pc # "ensure"
           Goal == /\ row'[a] # NoRow /\ row'[a].beat = seen'[a]
                   /\ \A h, g \in Handlers :
                        handler'[h].agent = a /\ handler'[g].agent = a => h = g
                   /\ \A h \in Handlers : handler'[h].agent = a => handler'[h].pc # "ensure"
<1>0. /\ handler \in [Handlers -> Transactions] /\ row \in [Agents -> Rows]
      /\ seen \in [Agents -> Beats] /\ settled \subseteq Agents /\ a \in Agents
  <2>1. Table'
    BY TableStep
  <2> QED
    BY <2>1 DEF IInv, Handling, Table
<1>1. a \in settled => Good
  BY DEF IInv, Settled, Missing, Working, At
<1>2. CASE UNCHANGED told \/ Delivered
  <2>1. UNCHANGED <<row, handler, settled, seen>>
    BY <1>2 DEF told, Delivered
  <2> QED
    BY <1>1, <2>1
<1>3. ASSUME NEW b \in Agents, NEW new \in Rows, Monitored(b, new) PROVE Goal
  <2>1. /\ UNCHANGED <<handler, seen>> /\ row' = [row EXCEPT ![b] = new]
        /\ settled' = settled \ {b}
    BY <1>3 DEF Monitored, Write
  <2>2. a # b /\ a \in settled
    BY <2>1
  <2>3. row'[a] = row[a]
    BY <1>0, <2>1, <2>2
  <2> QED
    BY <1>1, <2>1, <2>2, <2>3
\* A transaction or a report that is taken in hand.
<1>4. ASSUME NEW h \in Handlers, NEW stage, NEW b \in Agents, Free(h), Begin(h, stage, b),
             UNCHANGED <<row, seen>>, stage = "ensure" => row[b] = NoRow
      PROVE  Goal
  <2>1. /\ \A g \in Handlers : g # h => handler'[g] = handler[g]
        /\ handler'[h].agent = b /\ handler'[h].pc = stage
    BY <1>0, <1>4 DEF Begin, Take
  <2>2. a \in settled /\ (b = a => \A g \in Handlers : handler[g].agent # a)
    BY <1>4 DEF Begin, Working
  <2>3. handler[h].agent # a
    BY <1>0, <1>4, HandlerIs
  <2> QED
    BY <1>1, <1>4, <2>1, <2>2, <2>3
<1>5. ASSUME NEW h \in Handlers, NEW tx \in Txs, ProcessTransaction(h, tx) PROVE Goal
  <2>1. tx.kind \in Kinds
    BY DEF Txs
  <2>2. Free(h) /\ UNCHANGED <<row, seen>>
    BY <1>5 DEF ProcessTransaction
  <2>3. \/ UNCHANGED <<handler, settled>>
        \/ /\ Addressee(tx) \in Agents
           /\ Begin(h, IF tx.kind = "register" THEN "save" ELSE tx.kind, Addressee(tx))
    BY <1>5, Zenon DEF ProcessTransaction, Known
  <2>4. CASE UNCHANGED <<handler, settled>>
    BY <1>1, <2>2, <2>4
  <2>5. (IF tx.kind = "register" THEN "save" ELSE tx.kind) # "ensure"
    BY <2>1 DEF Kinds
  <2> QED
    BY <1>4, <2>1, <2>2, <2>3, <2>4, <2>5
<1>6. ASSUME NEW h \in Handlers, NEW b \in Agents, ReportUsage(h, b) PROVE Goal
  <2>1. Free(h) /\ Begin(h, "ensure", b) /\ row[b] = NoRow /\ UNCHANGED <<row, seen>>
    BY <1>6 DEF ReportUsage, Missing
  <2> QED
    BY <1>4, <2>1
<1>7. ASSUME NEW h \in Handlers, FindForHeartbeat(h) PROVE Goal
  <2>1. UNCHANGED <<row, settled, seen>> /\ \A g \in Handlers : g # h => handler'[g] = handler[g]
    BY <1>7, HandlerStep DEF FindForHeartbeat, history
  <2>2. handler'[h].agent = handler[h].agent /\ handler'[h].pc # "ensure"
    <3>1. \E stage \in {"save", "update"} : Goto(h, stage)
      BY <1>7, Zenon DEF FindForHeartbeat
    <3> QED
      BY <3>1, <1>0 DEF Goto, Transactions
  <2> QED
    BY <1>1, <2>1, <2>2
\* One that rests, or is about to write a placeholder where no row is.
<1>8. ASSUME NEW h \in Handlers, FindForInference(h) PROVE Goal
  <2>1. UNCHANGED <<row, settled, seen>> /\ \A g \in Handlers : g # h => handler'[g] = handler[g]
    BY <1>8, HandlerStep DEF FindForInference, history
  <2>2. \/ handler'[h].agent = handler[h].agent /\ row[handler[h].agent] = NoRow
        \/ handler'[h].agent \notin Agents
    <3>1. \/ Missing(handler[h].agent) /\ Goto(h, "ensure")
          \/ Stop(h)
      BY <1>8, Zenon DEF FindForInference
    <3>2. Stop(h) => handler'[h].agent \notin Agents
      BY <1>0, IdleIs, AgentsAssumption DEF Stop
    <3>3. Goto(h, "ensure") => handler'[h].agent = handler[h].agent
      BY <1>0 DEF Goto, Transactions
    <3> QED
      BY <3>1, <3>2, <3>3 DEF Missing
  <2> QED
    BY <1>0, <1>1, <2>1, <2>2
<1>9. ASSUME NEW h \in Handlers, WriteAgent(h) PROVE Goal
  <2> DEFINE b == handler[h].agent
             alone == (\A g \in Handlers : handler[g].agent = b => g = h) /\ ~At(h, "ensure")
  <2>1. b \in Agents /\ ~At(h, "idle")
    BY <1>9, WriteIs DEF WriteAgent, At
  <2>2. \A g \in Handlers : g # h => handler'[g] = handler[g]
    BY <1>9, HandlerStep
  <2>3. handler'[h].agent \notin Agents
    BY <1>0, <1>9, WriteIs, IdleIs, AgentsAssumption
  <2>4. CASE UNCHANGED <<row, settled, seen>>
    BY <1>0, <1>1, <2>2, <2>3, <2>4
  <2>5. CASE /\ row' = [row EXCEPT ![b] = Handled(h)]
             /\ settled' = IF alone THEN settled \cup {b} ELSE settled
             /\ seen' = IF alone THEN [seen EXCEPT ![b] = handler[h].beat] ELSE seen
    <3>1. CASE a # b
      <4>1. a \in settled /\ row'[a] = row[a] /\ seen'[a] = seen[a]
        BY <1>0, <2>5, <3>1
      <4> QED
        BY <1>0, <1>1, <2>2, <2>3, <4>1
    <3>2. CASE a = b
      <4>1. alone
        BY <1>0, <1>1, <2>5, <3>2 DEF At
      <4>2. row'[a] = Handled(h) /\ seen'[a] = handler[h].beat
        BY <1>0, <2>1, <2>5, <3>2, <4>1
      <4>3. Handled(h) # NoRow /\ Handled(h).beat = handler[h].beat
        BY <1>9, <4>1, HandledIs DEF WriteAgent, NoRow
      <4>4. \A g \in Handlers : handler'[g].agent # a
        BY <1>0, <2>2, <2>3, <3>2, <4>1
      <4> QED
        BY <4>2, <4>3, <4>4
    <3> QED
      BY <3>1, <3>2
  <2>6. (Working(b) = {h} /\ ~At(h, "ensure")) <=> alone
    BY DEF Working
  <2> QED
    BY <1>9, <2>4, <2>5, <2>6 DEF WriteAgent
<1>10. ASSUME Restart PROVE Goal
  <2>1. UNCHANGED <<row, settled, seen>> /\ handler' = [h \in Handlers |-> Idle]
    BY <1>10 DEF Restart
  <2>2. \A h \in Handlers : handler'[h].agent # a
    BY <1>0, <2>1, IdleIs, AgentsAssumption
  <2> QED
    BY <1>1, <2>1, <2>2
<1> QED
  BY <1>2, <1>3, <1>5, <1>6, <1>7, <1>8, <1>9, <1>10, StepIs

-----------------------------------------------------------------------------
(* The theorems. *)

LEMMA StutterStep ==
  ASSUME IInv, UNCHANGED vars
  PROVE  IInv'
<1> USE DEF vars, world, monitor, watcher, blocks, history, IInv
<1>1. World'
  BY DEF World
<1>2. Maps'
  BY DEF Maps, OnePerKey
<1>3. Table'
  BY DEF Table, Missing
<1>4. Deliveries'
  BY Zenon DEF Deliveries
<1>5. Handling'
  BY DEF Handling, Free, At, Missing
<1>6. MissingIsExplained' /\ Settled'
  BY DEF MissingIsExplained, Settled, Working, Missing, At
<1> QED
  BY <1>1, <1>2, <1>3, <1>4, <1>5, <1>6

\* The agents table and its writers stay consistent: what a handler holds, what the
\* Map holds, and what is remembered of the agents that were lost or seen.
THEOREM Inductive == Spec => []IInv
<1>1. IInv /\ [Next]_vars => IInv'
  BY WorldStep, MapsStep, TableStep, DeliveriesStep, HandlingStep, MissingStep, SettledStep,
     StutterStep DEF IInv
<1> QED
  BY InitInv, <1>1, PTL DEF Spec

\* Every variable keeps its type, and the Map of the monitor one entry for each key
\* (monitorAgents, updateAgentInfo).
THEOREM TypeCorrect == Spec => []TypeOK
<1>1. IInv => TypeOK
  <2> SUFFICES ASSUME IInv PROVE TypeOK
    OBVIOUS
  <2>1. /\ contract \in [Agents -> Beats] /\ meta \in [Agents -> Beats]
        /\ node \in [Agents -> Beats] /\ events \in 0..MaxEvents
    BY AgentsAssumption DEF IInv, World, Beats
  <2>2. /\ map \in Seq(Entries) /\ \A i, j \in DOMAIN map : Same(map[i], map[j]) => i = j
        /\ cycle.pc \in {"initial", "idle", "nodes", "save"}
        /\ cycle.todo \subseteq Agents /\ cycle.snapshot \in Seq(Entries)
    BY DEF IInv, Maps, OnePerKey, Cycles
  <2>3. /\ row \in [Agents -> Rows]
        /\ lost \subseteq Agents /\ sponsored \subseteq Agents
        /\ settled \subseteq Agents /\ seen \in [Agents -> Beats]
    BY DEF IInv, Table
  <2>4. isWatching \in BOOLEAN /\ timers \in Nat /\ subs \in Nat /\ inbox \in [Txs -> Nat]
    BY Zenon DEF IInv, Deliveries
  <2>5. handler \in [Handlers -> Transactions] /\ faults \in 0..MaxFaults
    BY DEF IInv, Handling
  <2> QED
    BY <2>1, <2>2, <2>3, <2>4, <2>5, Zenon DEF TypeOK, Rows, Transactions
<1> QED
  BY Inductive, <1>1, PTL

\* An agent that registered itself with a precompile has its row, unless a transaction of
\* it was lost or is still in hand: no order of blocks, reports, saves and restarts
\* forgets one, and handleAgentRegister finds the agent its input is about (processBlock,
\* ensurePrecompileAgent).  Of those that the oracle registered nothing is said.
THEOREM MissingExplained == Spec => []MissingIsExplained
<1>1. IInv => MissingIsExplained
  BY DEF IInv
<1> QED
  BY Inductive, <1>1, PTL

\* The row of an agent shows the heartbeat that was handled last, until two handlers work
\* for the agent at once or the monitor writes (handleAgentHeartbeat, syncAgents).
THEOREM HandledShown == Spec => []HandledHeartbeatShown
<1>1. IInv => HandledHeartbeatShown
  BY DEF IInv, Settled, HandledHeartbeatShown
<1> QED
  BY Inductive, <1>1, PTL

-----------------------------------------------------------------------------
\* The watcher is subscribed, or a call of startWatching is due.
Reconnects == /\ isWatching \/ timers > 0
              /\ subs = 0 => ~isWatching

LEMMA ReconnectsStep ==
  ASSUME IInv, Reconnects, [Next]_vars
  PROVE  Reconnects'
<1>1. isWatching \in BOOLEAN /\ timers \in Nat /\ subs \in Nat
  BY DEF IInv, Deliveries
<1>2. ASSUME UNCHANGED watcher PROVE Reconnects'
  BY <1>2 DEF watcher, Reconnects
<1>3. CASE SubscriptionError
  <2>1. ~isWatching' /\ timers' = timers + 1
    BY <1>3 DEF SubscriptionError, FlagAfterError
  <2> QED
    BY <1>1, <2>1 DEF Reconnects
<1>4. CASE StartWatching
  <2>1. CASE isWatching /\ UNCHANGED <<isWatching, subs>>
    BY <2>1 DEF Reconnects
  <2>2. CASE isWatching' = TRUE /\ subs' = subs + 1
    BY <1>1, <2>2 DEF Reconnects
  <2> QED
    BY <1>2, <1>4, <2>1, <2>2 DEF StartWatching
<1>5. CASE Restart
  BY <1>5 DEF Restart, Reconnects
<1>6. ASSUME NEW a \in Agents, NEW from \in {a, Oracle},
             Register(a, from) \/ Heartbeat(a, from) \/ VerifyInference(a)
             \/ ContractHeartbeat(a) \/ NodeHeartbeat(a) \/ InitialSync(a)
      PROVE  UNCHANGED watcher
  BY <1>6 DEF Register, Heartbeat, VerifyInference, Deliver, ContractHeartbeat,
     NodeHeartbeat, InitialSync
<1>7. CASE ReadContract \/ ReadNodes \/ SyncAgents
  BY <1>2, <1>7 DEF ReadContract, ReadNodes, SyncAgents
<1>8. ASSUME NEW h \in Handlers, Handle(h) \/ \E a \in Agents : ReportUsage(h, a)
      PROVE  UNCHANGED watcher
  BY <1>8 DEF Handle, ProcessTransaction, FindForHeartbeat, FindForInference, WriteAgent,
     ReportUsage
<1>9. CASE UNCHANGED vars
  BY <1>2, <1>9 DEF vars
<1> QED
  BY <1>2, <1>3, <1>4, <1>5, <1>6, <1>7, <1>8, <1>9 DEF Next, Monitor

\* The watcher is never left without a subscription and without a timer to get one
\* (onError, startWatching): whatever errors, failed attempts and restarts follow on each
\* other, when no subscription delivers blocks isWatching is false, so that startWatching
\* will not return early, and a call of it is due.
THEOREM AlwaysReconnects == Spec => [](subs = 0 => ~isWatching /\ timers > 0)
<1>1. Init => Reconnects
  BY DEF Init, Reconnects
<1>2. Reconnects => (subs = 0 => ~isWatching /\ timers > 0)
  BY DEF Reconnects
<1> QED
  BY <1>1, <1>2, Inductive, ReconnectsStep, PTL DEF Spec

=============================================================================

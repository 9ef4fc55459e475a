------------------------ MODULE PipelineService_proofs ------------------------
(***************************************************************************)
(* For any finite number of nodes, any number of requests, layers, weights *)
(* and faults: the types of the pipeline, that the layers are covered once *)
(* after a split that ran alone, and that readiness lasts.                 *)
(***************************************************************************)
EXTENDS PipelineService, LayerSplit_proofs

Ranges  == [first: Nat, last: Nat]
Shares  == [node: Nodes, entity: Row]
Process == [pc: Stages, msg: Message \cup {NoMessage}, entity: Row, todo: Seq(Shares)]

\* Each node numbers its messages; it is answered only what it sent.
Network ==
  /\ sent \in SUBSET Message /\ IsFiniteSet(sent) /\ Cardinality(sent) <= MaxSent
  /\ clock \in [Nodes -> 0..Cardinality(sent)]
  /\ answered \in [Nodes -> Nat] /\ \A n \in Nodes : answered[n] <= clock[n]
  /\ seen \in [Kinds -> [Nodes -> Nat]]
  /\ \A m \in sent :
       /\ m.ts <= clock[m.node] /\ (m.kind = "register" => m.weight # 0)
       /\ \A o \in sent : m.node = o.node /\ m.ts = o.ts => m = o

\* A row has a number already given and a weight; only a node with a row is fresh.
Table ==
  /\ row \in [Nodes -> Row] /\ ids \in Nat /\ fresh \in SUBSET Nodes
  /\ \A n \in Nodes : row[n].id <= ids /\ (Present(n) => row[n].weight # 0)
  /\ \A n \in fresh : Present(n)

\* What a process r holds at its stage, of the messages sent and the numbers up to top.
Holding(p, r, messages, top) ==
  /\ p = Cleaner => r.pc \in {"idle", "delete", "layers", "assign"}
  /\ p \in Requests /\ r.pc # "idle" => r.pc # "delete" /\ r.msg \in messages
  /\ p \in Requests /\ r.pc \in {"findAgain", "saveAgain", "layers", "assign"} =>
       r.msg.kind = "register"
  /\ r.pc \in {"save", "saveAgain"} =>
       /\ r.entity.weight # 0 /\ r.entity.id <= top
       /\ r.msg.kind = "ready" => r.entity.id # 0 /\ r.entity.ready
  /\ \A i \in DOMAIN r.todo :
       LET e == r.todo[i].entity IN e.id # 0 /\ e.id <= top /\ e.weight # 0
  /\ r.pc = "assign" <=> r.todo # <<>>

InHand ==
  /\ process \in [Processes -> Process]
  /\ \A p \in Processes : Holding(p, process[p], sent, ids)

Flags ==
  /\ disturbed \in BOOLEAN /\ settled \in BOOLEAN
  /\ faults \in [FaultKinds -> Nat]

\* While operations come one at a time, an entity at hand is still its row.
Agrees(r, rows) ==
  /\ r.pc = "save" => r.entity = Changed(rows[r.msg.node], r.msg)
  /\ \A i \in DOMAIN r.todo :
       LET n == r.todo[i].node
           e == r.todo[i].entity
       IN  e.id = rows[n].id /\ e.ready = rows[n].ready

Alone ==
  settled \/ ~disturbed =>
    /\ \A p, q \in Processes : Busy(p) /\ Busy(q) => p = q
    /\ \A p \in Processes : Agrees(process[p], row)

Inside(l, range) == range.first <= l /\ l < range.last

CoversOnce(S, share) ==
  \A l \in 0..Layers - 1 : \E n \in S :
    Inside(l, share[n]) /\ \A o \in S : Inside(l, share[o]) => o = n

Has(e, range) == e.first = range.first /\ e.last = range.last

\* Each of the nodes S has its share, or it is at hand and will be saved.
Divided(S, share) ==
  /\ fresh \subseteq S /\ \A n \in S : Present(n)
  /\ CoversOnce(S, share)
  /\ \A p \in Processes : \A i \in DOMAIN process[p].todo :
       /\ process[p].todo[i].node \in S
       /\ Has(process[p].todo[i].entity, share[process[p].todo[i].node])
  /\ \A n \in S : \/ Has(row[n], share[n])
                  \/ \E p \in Processes : \E i \in DOMAIN process[p].todo :
                       process[p].todo[i].node = n

\* Between the splits, all nodes that may be fresh have the shares of the last one.
Covered ==
  /\ settled
  /\ \A p \in Processes : process[p].pc # "layers"
  /\ fresh # {} \/ \E p \in Processes : process[p].pc = "assign"
  => \E S \in SUBSET Nodes : \E share \in [S -> Ranges] : Divided(S, share)

\* The last word of a node is that it is ready.
LastReady(n) == \E m \in sent : m.node = n /\ m.kind = "ready" /\ m.ts = clock[n]

Unanswered ==
  \A p \in Requests : Busy(p) =>
    process[p].msg.ts > seen[process[p].msg.kind][process[p].msg.node]

\* Then, and before, once it is answered, no registration of it can come any more.
NoneLater ==
  \A n \in Nodes : LastReady(n) \/ (answered[n] = clock[n] /\ clock[n] > 0) =>
    \A m \in sent : m.node = n /\ m.kind = "register" => m.ts <= seen["register"][n]

StaysReady ==
  \A m \in sent :
    /\ m.kind = "ready" /\ m.ts = clock[m.node] /\ Present(m.node)
    /\ \/ answered[m.node] = m.ts
       \/ \E p \in Processes : process[p].pc = "answer" /\ process[p].msg = m
    => row[m.node].ready

ReadyKept == ~disturbed => Unanswered /\ NoneLater /\ StaysReady

IInv == Network /\ Table /\ InHand /\ Flags /\ Alone /\ Covered /\ ReadyKept

-----------------------------------------------------------------------------
(* Processes. *)

\* A process at a stage with a message, and nothing else at hand.
Resting(stage, m) == [pc |-> stage, msg |-> m, entity |-> NoRow, todo |-> <<>>]

\* Process p goes on as r.
Becomes(p, r) == process' = [process EXCEPT ![p] = r]

LEMMA RestingIs ==
  ASSUME NEW stage \in Stages, NEW m \in Message \cup {NoMessage}
  PROVE  Resting(stage, m) \in Process
<1>1. NoRow \in Row /\ <<>> \in Seq(Shares)
  BY DEF NoRow, Row
<1> QED
  BY <1>1 DEF Resting, Process

LEMMA IdleIs == Idle = Resting("idle", NoMessage)
  BY DEF Idle, Resting

LEMMA StopIs ==
  ASSUME NEW p, Stop(p)
  PROVE  Becomes(p, Resting("idle", NoMessage))
  BY IdleIs DEF Stop, Becomes

LEMMA ProceedIs ==
  ASSUME NEW p, NEW stage, Proceed(p, stage)
  PROVE  Becomes(p, Resting(stage, process[p].msg))
<1> DEFINE a == [Idle EXCEPT !.pc = stage]
           m == process[p].msg
<1>1. a = [pc |-> stage, msg |-> NoMessage, entity |-> NoRow, todo |-> <<>>]
  BY DEF Idle
<1>2. process' = [process EXCEPT ![p] = [a EXCEPT !.msg = m]]
  BY DEF Proceed
<1> HIDE DEF a, m
<1>3. [a EXCEPT !.msg = m] = Resting(stage, m)
  BY <1>1 DEF Resting
<1> QED
  BY <1>2, <1>3 DEF Becomes, m

LEMMA AfterLayersIs ==
  ASSUME NEW p, AfterLayers(p)
  PROVE  Becomes(p, IF p = Cleaner THEN Resting("idle", NoMessage)
                                   ELSE Resting("answer", process[p].msg))
  BY StopIs, ProceedIs DEF AfterLayers

\* The entity with its message, at the stage where it is saved.
Loaded(r, stage, e) == [pc |-> stage, msg |-> r.msg, entity |-> e, todo |-> r.todo]

LEMMA AtStage ==
  ASSUME NEW r \in Process, NEW stage
  PROVE  [r EXCEPT !.pc = stage] = Loaded(r, stage, r.entity)
  BY DEF Process, Loaded

LEMMA LoadedIs ==
  ASSUME NEW p \in Processes, NEW stage, NEW e, process \in [Processes -> Process],
         process' = [process EXCEPT ![p].pc = stage, ![p].entity = e]
  PROVE  Becomes(p, Loaded(process[p], stage, e))
<1> DEFINE r == process[p]
<1>1. r \in Process
  OBVIOUS
<1>2. process' = [[process EXCEPT ![p] = [r EXCEPT !.pc = stage]] EXCEPT ![p].entity = e]
  OBVIOUS
<1> HIDE DEF r
<1>3. [r EXCEPT !.pc = stage] = Loaded(r, stage, r.entity)
  BY <1>1, AtStage
<1> DEFINE a == Loaded(r, stage, r.entity)
           b == [process EXCEPT ![p] = a]
<1>4. process' = [b EXCEPT ![p].entity = e]
  BY <1>2, <1>3
<1>5. [a EXCEPT !.entity = e] = Loaded(r, stage, e)
  BY DEF Loaded
<1> HIDE DEF a
<1>6. b[p] = a /\ DOMAIN b = Processes /\ \A q \in Processes \ {p} : b[q] = process[q]
  OBVIOUS
<1> HIDE DEF b
<1>7. [b EXCEPT ![p].entity = e] = [b EXCEPT ![p] = [a EXCEPT !.entity = e]]
  BY <1>6
<1>8. [b EXCEPT ![p] = Loaded(r, stage, e)] = [process EXCEPT ![p] = Loaded(r, stage, e)]
  BY <1>6
<1> QED
  BY <1>4, <1>5, <1>7, <1>8 DEF Becomes, r

LEMMA GotoIs ==
  ASSUME NEW p \in Processes, NEW stage, process \in [Processes -> Process], Goto(p, stage)
  PROVE  Becomes(p, Loaded(process[p], stage, process[p].entity))
<1> DEFINE r == process[p]
<1>1. r \in Process /\ process' = [process EXCEPT ![p] = [r EXCEPT !.pc = stage]]
  BY DEF Goto
<1> HIDE DEF r
<1>2. [r EXCEPT !.pc = stage] = Loaded(r, stage, r.entity)
  BY <1>1, AtStage
<1> QED
  BY <1>1, <1>2 DEF Becomes, r

\* The process with shares to save.
Dividing(r, todo) == [pc |-> "assign", msg |-> r.msg, entity |-> r.entity, todo |-> todo]

LEMMA DividingIs ==
  ASSUME NEW p \in Processes, NEW todo, process \in [Processes -> Process],
         \/ process' = [process EXCEPT ![p].pc = "assign", ![p].todo = todo]
         \/ process[p].pc = "assign" /\ process' = [process EXCEPT ![p].todo = todo]
  PROVE  Becomes(p, Dividing(process[p], todo))
  BY DEF Dividing, Becomes, Process

LEMMA ProcessIs ==
  ASSUME InHand, NEW p \in Processes
  PROVE  /\ process[p] \in Process /\ process[p].pc \in Stages
         /\ process[p].msg \in Message \cup {NoMessage}
         /\ process[p].entity \in Row /\ process[p].todo \in Seq(Shares)
         /\ Holding(p, process[p], sent, ids)
         /\ p \in Requests <=> p # Cleaner
  BY BoundsAssumption DEF InHand, Process, Processes

\* A request at work has a message that was sent.
LEMMA MessageIs ==
  ASSUME InHand, Network, NEW p \in Processes, p # Cleaner, Busy(p)
  PROVE  /\ process[p].msg \in sent /\ process[p].msg \in Message
         /\ process[p].msg.node \in Nodes /\ process[p].msg.kind \in Kinds
         /\ process[p].msg.ts \in Nat /\ process[p].msg.weight \in Weights \cup {0}
         /\ process[p].msg.ts <= clock[process[p].msg.node]
         /\ process[p].msg.kind = "register" => process[p].msg.weight # 0
<1>1. process[p].msg \in sent
  BY ProcessIs DEF Holding, Busy
<1> QED
  BY <1>1 DEF Network, Message

\* What is saved is a row of its node, with a number and a weight.
LEMMA StoreIs ==
  ASSUME Table, NEW n \in Nodes, NEW e \in Row, NEW dirty, Store(n, e, dirty),
         e.weight # 0, e.id <= ids
  PROVE  /\ Table' /\ ids <= ids'
         /\ fresh' = fresh \/ fresh' = fresh \cup {n}
         /\ \A o \in Nodes : o # n => row'[o] = row[o]
         /\ row'[n].id # 0 /\ (e.id # 0 => row'[n] = e)
         /\ row'[n].ready = e.ready
<1> DEFINE id == IF e.id = 0 THEN ids + 1 ELSE e.id
           new == [e EXCEPT !.id = id]
<1>1. /\ row' = [row EXCEPT ![n] = new] /\ ids' = IF e.id = 0 THEN id ELSE ids
      /\ fresh' = fresh \/ fresh' = fresh \cup {n}
  BY DEF Store
<1>2. id \in Nat /\ id # 0 /\ id <= ids' /\ ids' \in Nat /\ ids <= ids'
  BY <1>1 DEF Table, Row
<1>3. /\ new \in Row /\ new.id = id /\ new.weight = e.weight /\ new.ready = e.ready
      /\ e.id # 0 => new = e
  BY <1>2 DEF Row
<1> HIDE DEF new, id
<1>4. \A o \in Nodes : row'[o] = IF o = n THEN new ELSE row[o]
  BY <1>1 DEF Table
<1>5. row' \in [Nodes -> Row]
  BY <1>1, <1>3 DEF Table
<1>6. \A o \in Nodes : row'[o].id <= ids' /\ (row'[o].id # 0 => row'[o].weight # 0)
  BY <1>2, <1>3, <1>4 DEF Table, Present, Row
<1>7. \A o \in fresh' : row'[o].id # 0
  BY <1>1, <1>2, <1>3, <1>4 DEF Table, Present
<1>8. Table'
  BY <1>1, <1>2, <1>5, <1>6, <1>7 DEF Table, Present
<1> QED
  BY <1>1, <1>2, <1>3, <1>4, <1>8

-----------------------------------------------------------------------------
(* The invariant holds initially. *)

LEMMA InitInv == Init => IInv
<1> SUFFICES ASSUME Init PROVE IInv
  OBVIOUS
<1>0. NoRow \in Row /\ NoRow.id = 0
  BY DEF NoRow, Row
<1>1. Network
  BY FS_EmptySet, BoundsAssumption DEF Init, Network
<1>2. Table
  BY <1>0 DEF Init, Table, Present
<1>3. \A p \in Processes : process[p] = Resting("idle", NoMessage)
  BY IdleIs DEF Init
<1>4. InHand
  <2>1. process \in [Processes -> Process]
    BY RestingIs, IdleIs DEF Init, Stages
  <2>2. \A p \in Processes : Holding(p, Resting("idle", NoMessage), sent, ids)
    BY DEF Holding, Resting
  <2> QED
    BY <1>3, <2>1, <2>2 DEF InHand
<1>5. Flags
  BY BoundsAssumption, Zenon DEF Init, Flags
<1>6. Alone
  BY <1>3 DEF Alone, Agrees, Resting, Busy
<1>7. Covered
  <2>1. ~settled
    BY Zenon DEF Init
  <2> QED
    BY <2>1, Zenon DEF Covered
<1>8. ReadyKept
  <2>1. sent = {} /\ \A p \in Processes : ~Busy(p)
    BY <1>3 DEF Init, Resting, Busy
  <2>2. Requests \subseteq Processes
    BY DEF Processes
  <2> QED
    BY <2>1, <2>2 DEF ReadyKept, Unanswered, NoneLater, StaysReady
<1> QED
  BY <1>1, <1>2, <1>4, <1>5, <1>6, <1>7, <1>8 DEF IInv

-----------------------------------------------------------------------------
(* What the processes hold. *)

LEMMA HoldingMono ==
  ASSUME NEW p, NEW r \in Process, NEW old, NEW new, NEW i \in Nat, NEW j \in Nat,
         Holding(p, r, old, i), old \subseteq new, i <= j
  PROVE  Holding(p, r, new, j)
<1>1. r.entity.id \in Nat /\ \A k \in DOMAIN r.todo : r.todo[k].entity.id \in Nat
  <2>1. r.entity \in Row /\ r.todo \in Seq(Shares)
    BY DEF Process
  <2>2. \A k \in DOMAIN r.todo : r.todo[k] \in Shares
    BY <2>1
  <2>3. \A e \in Row : e.id \in Nat
    BY DEF Row
  <2>4. \A s \in Shares : s.entity \in Row
    BY DEF Shares
  <2> QED
    BY <2>1, <2>2, <2>3, <2>4
<1> QED
  BY <1>1 DEF Holding

LEMMA InHandKept ==
  ASSUME IInv, NEW p \in Processes, NEW r \in Process, Becomes(p, r),
         Holding(p, r, sent', ids'), sent \subseteq sent', ids' \in Nat, ids <= ids'
  PROVE  InHand'
<1>1. process \in [Processes -> Process] /\ ids \in Nat
  BY DEF IInv, InHand, Table
<1>2. process' \in [Processes -> Process]
  BY <1>1 DEF Becomes
<1>3. ASSUME NEW q \in Processes PROVE Holding(q, process'[q], sent', ids')
  <2>1. CASE q = p
    BY <1>1, <2>1 DEF Becomes
  <2>2. CASE q # p
    <3>1. process'[q] = process[q] /\ process[q] \in Process
      BY <1>1, <2>2 DEF Becomes
    <3>2. Holding(q, process[q], sent, ids)
      BY DEF IInv, InHand
    <3> QED
      BY <1>1, <3>1, <3>2, HoldingMono
  <2> QED
    BY <2>1, <2>2
<1> QED
  BY <1>2, <1>3 DEF InHand

LEMMA HoldingIdle ==
  ASSUME NEW p, NEW messages, NEW top
  PROVE  Holding(p, Resting("idle", NoMessage), messages, top)
  BY DEF Holding, Resting

\* A request that holds nothing but its message.
LEMMA HoldingRest ==
  ASSUME NEW p \in Requests, NEW messages, NEW top, NEW m \in messages,
         NEW stage \in {"find", "findAgain", "layers", "answer"},
         stage \in {"findAgain", "layers"} => m.kind = "register"
  PROVE  Holding(p, Resting(stage, m), messages, top)
  BY BoundsAssumption DEF Holding, Resting

\* A process that is done.
LEMMA StopKeeps ==
  ASSUME IInv, NEW p \in Processes, Becomes(p, Resting("idle", NoMessage)),
         sent' = sent, ids' = ids
  PROVE  InHand'
<1>1. Resting("idle", NoMessage) \in Process
  BY RestingIs DEF Stages
<1> QED
  BY <1>1, HoldingIdle, InHandKept DEF IInv, Table

LEMMA RestKeeps ==
  ASSUME IInv, NEW p \in Requests, Busy(p),
         NEW stage \in {"find", "findAgain", "layers", "answer"},
         stage \in {"findAgain", "layers"} => process[p].msg.kind = "register",
         Becomes(p, Resting(stage, process[p].msg)),
         sent' = sent, ids' \in Nat, ids <= ids'
  PROVE  InHand'
<1>0. p \in Processes /\ p # Cleaner
  BY BoundsAssumption DEF Processes
<1>1. process[p].msg \in sent /\ process[p].msg \in Message
  BY <1>0, MessageIs DEF IInv
<1>2. Resting(stage, process[p].msg) \in Process
  BY <1>1, RestingIs DEF Stages
<1>3. Holding(p, Resting(stage, process[p].msg), sent, ids')
  BY <1>1, HoldingRest
<1> QED
  BY <1>0, <1>2, <1>3, InHandKept

LEMMA AfterLayersKeeps ==
  ASSUME IInv, NEW p \in Processes, process[p].pc \in {"layers", "assign"}, AfterLayers(p),
         sent' = sent, ids' \in Nat, ids <= ids'
  PROVE  InHand'
<1>1. CASE p = Cleaner
  <2>1. Becomes(p, Resting("idle", NoMessage))
    BY <1>1, AfterLayersIs
  <2>2. Resting("idle", NoMessage) \in Process
    BY RestingIs DEF Stages
  <2> QED
    BY <2>1, <2>2, HoldingIdle, InHandKept
<1>2. CASE p # Cleaner
  <2>1. Becomes(p, Resting("answer", process[p].msg)) /\ p \in Requests /\ Busy(p)
    BY <1>2, AfterLayersIs DEF Processes, Busy
  <2> QED
    BY <2>1, RestKeeps
<1> QED
  BY <1>1, <1>2

\* The row that a message changes keeps its number.
LEMMA ChangedIs ==
  ASSUME NEW old \in Row, NEW m \in Message, m.kind = "register" => m.weight # 0,
         m.kind = "ready" => old.weight # 0
  PROVE  /\ Changed(old, m) \in Row /\ Changed(old, m).id = old.id
         /\ Changed(old, m).weight # 0
         /\ Changed(old, m).first = old.first /\ Changed(old, m).last = old.last
         /\ Changed(old, m).ready <=> m.kind = "ready"
<1>1. m.kind \in Kinds /\ m.weight \in Weights \cup {0}
  BY DEF Message
<1>2. CASE m.kind = "register"
  <2>1. Changed(old, m) = [old EXCEPT !.weight = m.weight, !.ready = FALSE]
    BY <1>2 DEF Changed
  <2>2. ASSUME NEW w \in Weights \cup {0}
        PROVE  LET new == [old EXCEPT !.weight = w, !.ready = FALSE]
               IN  /\ new \in Row /\ new.id = old.id /\ new.weight = w
                   /\ new.first = old.first /\ new.last = old.last /\ new.ready = FALSE
    BY DEF Row
  <2> QED
    BY <1>1, <1>2, <2>1, <2>2
<1>3. CASE m.kind = "ready"
  <2>1. Changed(old, m) = [old EXCEPT !.ready = TRUE]
    BY <1>3 DEF Changed
  <2>2. LET new == [old EXCEPT !.ready = TRUE]
        IN  /\ new \in Row /\ new.id = old.id /\ new.weight = old.weight
            /\ new.first = old.first /\ new.last = old.last /\ new.ready = TRUE
    BY DEF Row
  <2> QED
    BY <1>3, <2>1, <2>2
<1> QED
  BY <1>1, <1>2, <1>3 DEF Kinds

\* The entity a request is about to save.
LEMMA LoadKeeps ==
  ASSUME IInv, NEW p \in Requests, Busy(p), process[p].todo = <<>>,
         NEW stage \in {"save", "saveAgain"},
         stage = "saveAgain" => process[p].msg.kind = "register",
         process[p].msg.kind = "ready" => Present(process[p].msg.node),
         Becomes(p, Loaded(process[p], stage,
                           Changed(row[process[p].msg.node], process[p].msg))),
         sent' = sent, ids' = ids
  PROVE  InHand'
<1>0. p \in Processes /\ p # Cleaner
  BY BoundsAssumption DEF Processes
<1> DEFINE m == process[p].msg
           old == row[m.node]
           e == Changed(old, m)
<1>1. m \in sent /\ m \in Message /\ m.node \in Nodes /\ (m.kind = "register" => m.weight # 0)
  BY <1>0, MessageIs DEF IInv
<1>2. old \in Row /\ old.id <= ids /\ (m.kind = "ready" => old.weight # 0 /\ old.id # 0)
  BY <1>1 DEF IInv, Table, Present
<1>3. e \in Row /\ e.weight # 0 /\ e.id <= ids /\ (m.kind = "ready" => e.id # 0 /\ e.ready)
  BY <1>1, <1>2, ChangedIs
<1>4. process[p].todo \in Seq(Shares)
  BY <1>0, ProcessIs DEF IInv
<1> DEFINE r == Loaded(process[p], stage, e)
<1>5. r.pc = stage /\ r.msg = m /\ r.entity = e /\ r.todo = <<>>
  BY DEF Loaded
<1>6. Becomes(p, r)
  OBVIOUS
<1> HIDE DEF e, old
<1>7. r \in Process
  BY <1>1, <1>3, <1>4 DEF Loaded, Process, Stages
<1> HIDE DEF r
<1>8. Holding(p, r, sent, ids)
  BY <1>0, <1>1, <1>3, <1>5 DEF Holding
<1> QED
  BY <1>0, <1>6, <1>7, <1>8, InHandKept DEF IInv, Table

\* The shares that a split saves: one for each active node, which is its row with a new
\* range; and the ranges cover every layer once.
LEMMA AssignmentIs ==
  ASSUME IInv, Active # {}, NEW nodes \in ByAge
  PROVE  /\ Assignment(nodes) \in Seq(Shares) /\ Assignment(nodes) # <<>>
         /\ \A i \in DOMAIN Assignment(nodes) :
              LET n == Assignment(nodes)[i].node
                  e == Assignment(nodes)[i].entity
              IN  n \in Active /\ e.id = row[n].id /\ e.ready = row[n].ready
                               /\ e.weight = row[n].weight
         /\ \E share \in [Active -> Ranges] :
              /\ CoversOnce(Active, share)
              /\ \A i \in DOMAIN Assignment(nodes) :
                   Has(Assignment(nodes)[i].entity, share[Assignment(nodes)[i].node])
         /\ \A n \in Active : \E i \in DOMAIN Assignment(nodes) : Assignment(nodes)[i].node = n
<1> DEFINE k == Cardinality(Active)
<1>0. /\ row \in [Nodes -> Row] /\ Layers \in Nat
      /\ \A n \in Nodes : Present(n) => row[n].weight # 0
  BY BoundsAssumption DEF IInv, Table
<1>1. Active \in SUBSET Nodes /\ \A n \in Active : Present(n)
  BY DEF Active
<1>2. k \in Nat \ {0} /\ IsFiniteSet(Active)
  BY <1>1, BoundsAssumption, FS_Subset, FS_CardinalityType, FS_EmptySet
<1>3. /\ nodes \in [1..k -> Active]
      /\ \A i, j \in 1..k : i < j => row[nodes[i]].id < row[nodes[j]].id
  BY DEF ByAge
<1> HIDE DEF k
<1>4. \A i, j \in 1..k : nodes[i] = nodes[j] => i = j
  <2> SUFFICES ASSUME NEW i \in 1..k, NEW j \in 1..k, nodes[i] = nodes[j], i < j PROVE FALSE
    BY <1>2
  <2>1. row[nodes[i]].id < row[nodes[i]].id /\ nodes[i] \in Nodes
    BY <1>1, <1>3
  <2>2. row[nodes[i]].id \in Nat
    BY <1>0, <2>1 DEF Row
  <2> QED
    BY <2>1, <2>2
<1>5. \A n \in Active : \E i \in 1..k : nodes[i] = n
  <2>1. nodes \in Injection(1..k, Active)
    BY <1>3, <1>4 DEF Injection, IsInjective
  <2>2. Cardinality(1..k) = k
    BY <1>2, FS_Interval
  <2>3. nodes \in Surjection(1..k, Active)
    BY <1>2, <2>1, <2>2, FS_Injection DEF k
  <2> QED
    BY <2>3 DEF Surjection
<1> DEFINE weights == [i \in DOMAIN nodes |-> row[nodes[i]].weight]
           shares == Split(weights, Layers)
           todo == Assignment(nodes)
<1>6. weights \in [1..k -> Nat \ {0}]
  <2>1. \A n \in Active : row[n].weight \in Nat \ {0}
    BY <1>0, <1>1, BoundsAssumption DEF Row
  <2> QED
    BY <1>3, <2>1
<1>7. todo = [i \in 1..k |-> [node |-> nodes[i],
                entity |-> [row[nodes[i]] EXCEPT !.first = shares[i].first,
                                                 !.last = shares[i].last]]]
  BY <1>3 DEF Assignment
<1> HIDE DEF weights
<1>8. /\ shares \in [1..k -> Ranges]
      /\ \A l \in 0..Layers - 1 : \E i \in 1..k :
           /\ shares[i].first <= l /\ l < shares[i].last
           /\ \A j \in 1..k : shares[j].first <= l /\ l < shares[j].last => j = i
  BY <1>0, <1>2, <1>6, SplitCovers DEF Ranges
<1> HIDE DEF shares, todo
<1>9. ASSUME NEW i \in 1..k
      PROVE  /\ todo[i] \in Shares /\ todo[i].node = nodes[i]
             /\ todo[i].entity.id = row[nodes[i]].id
             /\ todo[i].entity.ready = row[nodes[i]].ready
             /\ todo[i].entity.weight = row[nodes[i]].weight
             /\ Has(todo[i].entity, shares[i])
  <2>1. row[nodes[i]] \in Row /\ shares[i] \in Ranges /\ nodes[i] \in Nodes
    BY <1>0, <1>1, <1>3, <1>8
  <2>2. ASSUME NEW old \in Row, NEW range \in Ranges
        PROVE  LET new == [old EXCEPT !.first = range.first, !.last = range.last]
               IN  /\ new \in Row /\ new.id = old.id /\ new.ready = old.ready
                   /\ new.weight = old.weight /\ Has(new, range)
    BY DEF Row, Ranges, Has
  <2>3. todo[i] = [node |-> nodes[i],
                   entity |-> [row[nodes[i]] EXCEPT !.first = shares[i].first,
                                                    !.last = shares[i].last]]
    BY <1>7
  <2> DEFINE new == [row[nodes[i]] EXCEPT !.first = shares[i].first, !.last = shares[i].last]
  <2>4. /\ new \in Row /\ new.id = row[nodes[i]].id /\ new.ready = row[nodes[i]].ready
        /\ new.weight = row[nodes[i]].weight /\ Has(new, shares[i])
    BY <2>1, <2>2
  <2>5. todo[i] = [node |-> nodes[i], entity |-> new]
    BY <2>3
  <2> HIDE DEF new
  <2> QED
    BY <2>1, <2>4, <2>5 DEF Shares
<1>10. DOMAIN todo = 1..k /\ todo \in Seq(Shares) /\ todo # <<>>
  <2>1. DOMAIN todo = 1..k /\ todo = [i \in 1..k |-> todo[i]]
    BY <1>7
  <2>2. todo \in [1..k -> Shares]
    BY <1>9, <2>1
  <2> QED
    BY <1>2, <2>1, <2>2
<1>11. \E share \in [Active -> Ranges] :
         /\ CoversOnce(Active, share)
         /\ \A i \in 1..k : share[nodes[i]] = shares[i]
  <2> DEFINE share == [n \in Active |-> shares[CHOOSE i \in 1..k : nodes[i] = n]]
  <2>1. \A n \in Active : \E i \in 1..k : nodes[i] = n /\ share[n] = shares[i]
    BY <1>5
  <2>2. \A i \in 1..k : share[nodes[i]] = shares[i]
    <3> TAKE i \in 1..k
    <3>1. nodes[i] \in Active
      BY <1>3
    <3>2. PICK j \in 1..k : nodes[j] = nodes[i] /\ share[nodes[i]] = shares[j]
      BY <2>1, <3>1
    <3> QED
      BY <1>4, <3>2
  <2>3. share \in [Active -> Ranges]
    BY <1>8, <2>1
  <2> HIDE DEF share
  <2>4. CoversOnce(Active, share)
    <3> SUFFICES ASSUME NEW l \in 0..Layers - 1
                 PROVE  \E n \in Active :
                          Inside(l, share[n]) /\ \A o \in Active : Inside(l, share[o]) => o = n
      BY DEF CoversOnce
    <3>1. PICK i \in 1..k :
            /\ Inside(l, shares[i])
            /\ \A j \in 1..k : Inside(l, shares[j]) => j = i
      BY <1>8 DEF Inside
    <3>2. nodes[i] \in Active /\ Inside(l, share[nodes[i]])
      BY <1>3, <2>2, <3>1
    <3>3. \A o \in Active : Inside(l, share[o]) => o = nodes[i]
      BY <2>1, <3>1
    <3> QED
      BY <3>2, <3>3
  <2> QED
    BY <2>2, <2>3, <2>4
<1>12. \A i \in DOMAIN todo :
         /\ todo[i].node \in Active /\ todo[i].entity.id = row[todo[i].node].id
         /\ todo[i].entity.ready = row[todo[i].node].ready
         /\ todo[i].entity.weight = row[todo[i].node].weight
  BY <1>3, <1>9, <1>10
<1>13. \E share \in [Active -> Ranges] :
         /\ CoversOnce(Active, share)
         /\ \A i \in DOMAIN todo : Has(todo[i].entity, share[todo[i].node])
  BY <1>9, <1>10, <1>11
<1>14. \A n \in Active : \E i \in DOMAIN todo : todo[i].node = n
  BY <1>5, <1>9, <1>10
<1> QED
  BY <1>10, <1>12, <1>13, <1>14 DEF todo

-----------------------------------------------------------------------------
(* The steps of a process, one by one. *)

still == <<row, fresh, ids, seen, clock, sent, answered>>

Loads(p, stage) ==
  Becomes(p, Loaded(process[p], stage, Changed(row[process[p].msg.node], process[p].msg)))

\* A call fails: nothing is written.
Failed(p) ==
  /\ Fail /\ UNCHANGED still
  /\ \/ Becomes(p, Resting("idle", NoMessage))
     \/ process[p].pc \in {"layers", "assign"} /\ AfterLayers(p)

\* FindRow finds nothing to make ready, SaveRow a duplicate.
Ended(p) ==
  /\ p \in Requests /\ process[p].pc \in {"find", "save", "saveAgain"}
  /\ Becomes(p, Resting("idle", NoMessage)) /\ Fine /\ UNCHANGED still

Found(p) ==
  /\ p \in Requests /\ process[p].pc = "find" /\ Fine /\ UNCHANGED still
  /\ process[p].msg.kind = "register" \/ Present(process[p].msg.node)
  /\ Loads(p, "save")

Saved(p) ==
  LET m == process[p].msg
  IN  /\ p \in Requests /\ process[p].pc \in {"save", "saveAgain"}
      /\ Store(m.node, process[p].entity, m.kind = "register")
      /\ Becomes(p, Resting(IF m.kind = "register" THEN "layers" ELSE "answer", m))
      /\ settled' = (settled /\ (m.kind = "ready" => m.node \in fresh))
      /\ UNCHANGED <<seen, clock, sent, answered, disturbed, faults>>

Again(p) ==
  /\ p \in Requests /\ process[p].pc = "save" /\ process[p].msg.kind = "register"
  /\ Becomes(p, Resting("findAgain", process[p].msg)) /\ Fine /\ UNCHANGED still

Reloaded(p) ==
  /\ p \in Requests /\ process[p].pc = "findAgain" /\ Fine /\ UNCHANGED still
  /\ Loads(p, "saveAgain")

Skipped(p) ==
  /\ p \in Requests /\ process[p].pc = "findAgain" /\ Fine /\ UNCHANGED still
  /\ Becomes(p, Loaded(process[p], "layers", process[p].entity))

Divides(p) ==
  /\ process[p].pc = "layers" /\ Active # {}
  /\ \E nodes \in ByAge : Becomes(p, Dividing(process[p], Assignment(nodes)))
  /\ settled' = \A o \in Processes \ {p} : ~Busy(o)
  /\ UNCHANGED still /\ UNCHANGED <<disturbed, faults>>

\* There is no active node; or the row of the next share is another one by now.
Leaves(p) ==
  /\ \/ process[p].pc = "layers" /\ Active = {}
     \/ /\ process[p].pc = "assign"
        /\ Duplicate(Head(process[p].todo).node, Head(process[p].todo).entity)
  /\ AfterLayers(p) /\ Fine /\ UNCHANGED still

Saves(p) ==
  /\ process[p].pc = "assign"
  /\ Store(Head(process[p].todo).node, Head(process[p].todo).entity, FALSE)
  /\ \/ Tail(process[p].todo) = <<>> /\ AfterLayers(p)
     \/ /\ Tail(process[p].todo) # <<>>
        /\ Becomes(p, Dividing(process[p], Tail(process[p].todo)))
  /\ Fine /\ UNCHANGED <<seen, clock, sent, answered>>

Answers(p) ==
  LET m == process[p].msg
  IN  /\ p \in Requests /\ process[p].pc = "answer"
      /\ Becomes(p, Resting("idle", NoMessage))
      /\ seen' = [seen EXCEPT ![m.kind][m.node] = m.ts]
      /\ answered' = [answered EXCEPT ![m.node] = m.ts]
      /\ Fine /\ UNCHANGED <<row, fresh, ids, clock, sent>>

\* The stages that only requests come to.
LEMMA RequestIs ==
  ASSUME IInv, NEW p \in Processes,
         process[p].pc \in {"find", "save", "findAgain", "saveAgain", "answer"}
  PROVE  p \in Requests /\ Busy(p)
  BY ProcessIs DEF IInv, Holding, Busy

LEMMA HandleIs ==
  ASSUME IInv, NEW p \in Processes, Handle(p)
  PROVE  \/ Failed(p) \/ Ended(p) \/ Found(p) \/ Saved(p) \/ Again(p) \/ Reloaded(p)
         \/ Skipped(p) \/ Divides(p) \/ Leaves(p) \/ Saves(p) \/ Answers(p)
<1>0. process \in [Processes -> Process]
  BY DEF IInv, InHand
<1>1. ASSUME FindRow(p) PROVE Failed(p) \/ Ended(p) \/ Found(p)
  <2> DEFINE m == process[p].msg
             e == Changed(row[m.node], m)
  <2>1. process[p].pc = "find" /\ UNCHANGED still
    BY <1>1 DEF FindRow, table, agents, still
  <2>2. p \in Requests /\ Busy(p)
    BY <2>1, RequestIs
  <2>3. CASE /\ m.kind = "register" \/ Present(m.node)
             /\ process' = [process EXCEPT ![p].pc = "save", ![p].entity = e]
             /\ Fine
    <3>1. Becomes(p, Loaded(process[p], "save", e))
      BY <1>0, <2>3, LoadedIs
    <3> QED
      BY <2>1, <2>2, <2>3, <3>1 DEF Found, Loads
  <2>4. CASE Stop(p) /\ (Fine \/ Fail)
    BY <2>1, <2>2, <2>4, StopIs DEF Ended, Failed
  <2> QED
    BY <1>1, <2>3, <2>4, Zenon DEF FindRow
<1>2. ASSUME SaveRow(p) PROVE Failed(p) \/ Ended(p) \/ Saved(p) \/ Again(p)
  <2> DEFINE m == process[p].msg
  <2>1. /\ process[p].pc \in {"save", "saveAgain"}
        /\ UNCHANGED <<seen, clock, sent, answered>>
    BY <1>2 DEF SaveRow, agents
  <2>2. p \in Requests /\ Busy(p)
    BY <2>1, RequestIs
  <2>3. CASE /\ Store(m.node, process[p].entity, m.kind = "register")
             /\ Proceed(p, IF m.kind = "register" THEN "layers" ELSE "answer")
             /\ settled' = (settled /\ (m.kind = "ready" => m.node \in fresh))
             /\ UNCHANGED <<disturbed, faults>>
    <3>1. Becomes(p, Resting(IF m.kind = "register" THEN "layers" ELSE "answer", m))
      BY <2>3, ProceedIs
    <3> QED
      BY <2>1, <2>2, <2>3, <3>1, Zenon DEF Saved
  <2>4. CASE /\ Duplicate(m.node, process[p].entity)
             /\ IF m.kind = "register" /\ process[p].pc = "save"
                THEN Proceed(p, "findAgain") ELSE Stop(p)
             /\ Fine /\ UNCHANGED table
    <3>1. UNCHANGED still
      BY <2>1, <2>4 DEF still, table
    <3>2. CASE m.kind = "register" /\ process[p].pc = "save" /\ Proceed(p, "findAgain")
      BY <2>2, <2>4, <3>1, <3>2, ProceedIs DEF Again
    <3>3. CASE Stop(p)
      BY <2>1, <2>2, <2>4, <3>1, <3>3, StopIs DEF Ended
    <3> QED
      BY <2>4, <3>2, <3>3, Zenon
  <2>5. CASE Stop(p) /\ Fail /\ UNCHANGED table
    <3>1. UNCHANGED still
      BY <2>1, <2>5 DEF still, table
    <3> QED
      BY <2>5, <3>1, StopIs DEF Failed
  <2> QED
    BY <1>2, <2>3, <2>4, <2>5, Zenon DEF SaveRow
<1>3. ASSUME FindDuplicate(p) PROVE Failed(p) \/ Reloaded(p) \/ Skipped(p)
  <2> DEFINE m == process[p].msg
             e == Changed(row[m.node], m)
  <2>1. process[p].pc = "findAgain" /\ UNCHANGED still
    BY <1>3 DEF FindDuplicate, table, agents, still
  <2>2. p \in Requests
    BY <2>1, RequestIs
  <2>3. CASE process' = [process EXCEPT ![p].pc = "saveAgain", ![p].entity = e] /\ Fine
    <3>1. Becomes(p, Loaded(process[p], "saveAgain", e))
      BY <1>0, <2>3, LoadedIs
    <3> QED
      BY <2>1, <2>2, <2>3, <3>1 DEF Reloaded, Loads
  <2>4. CASE Goto(p, "layers") /\ Fine
    BY <1>0, <2>1, <2>2, <2>4, GotoIs DEF Skipped
  <2>5. CASE Stop(p) /\ Fail
    BY <2>1, <2>5, StopIs DEF Failed
  <2> QED
    BY <1>3, <2>3, <2>4, <2>5, Zenon DEF FindDuplicate
<1>4. ASSUME ReadActive(p) PROVE Failed(p) \/ Divides(p) \/ Leaves(p)
  <2>1. process[p].pc = "layers" /\ UNCHANGED still
    BY <1>4 DEF ReadActive, table, agents, still
  <2>2. CASE /\ Active # {}
             /\ \E nodes \in ByAge :
                  process' = [process EXCEPT ![p].pc = "assign", ![p].todo = Assignment(nodes)]
             /\ settled' = \A o \in Processes \ {p} : ~Busy(o)
             /\ UNCHANGED <<disturbed, faults>>
    <3>1. \E nodes \in ByAge : Becomes(p, Dividing(process[p], Assignment(nodes)))
      <4>1. PICK nodes \in ByAge :
              process' = [process EXCEPT ![p].pc = "assign", ![p].todo = Assignment(nodes)]
        BY <2>2
      <4>2. Becomes(p, Dividing(process[p], Assignment(nodes)))
        BY <1>0, <4>1, DividingIs
      <4> QED
        BY <4>2
    <3> QED
      BY <2>1, <2>2, <3>1, Zenon DEF Divides
  <2>3. CASE Active = {} /\ AfterLayers(p) /\ Fine
    BY <2>1, <2>3 DEF Leaves
  <2>4. CASE AfterLayers(p) /\ Fail
    BY <2>1, <2>4 DEF Failed
  <2> QED
    BY <1>4, <2>2, <2>3, <2>4, Zenon DEF ReadActive, NoneActive
<1>5. ASSUME SaveShare(p) PROVE Failed(p) \/ Leaves(p) \/ Saves(p)
  <2> DEFINE next == Head(process[p].todo)
             rest == Tail(process[p].todo)
  <2>1. process[p].pc = "assign" /\ UNCHANGED <<seen, clock, sent, answered>>
    BY <1>5 DEF SaveShare, agents
  <2>2. CASE /\ Store(next.node, next.entity, FALSE)
             /\ IF rest = <<>> THEN AfterLayers(p)
                               ELSE process' = [process EXCEPT ![p].todo = rest]
             /\ Fine
    <3>1. (rest = <<>> /\ AfterLayers(p)) \/ (rest # <<>> /\ Becomes(p, Dividing(process[p], rest)))
      BY <1>0, <2>1, <2>2, DividingIs
    <3> QED
      BY <2>1, <2>2, <3>1, Zenon DEF Saves
  <2>3. CASE Duplicate(next.node, next.entity) /\ AfterLayers(p) /\ Fine /\ UNCHANGED table
    BY <2>1, <2>3 DEF Leaves, table, still
  <2>4. CASE AfterLayers(p) /\ Fail /\ UNCHANGED table
    BY <2>1, <2>4 DEF Failed, table, still
  <2> QED
    BY <1>5, <2>2, <2>3, <2>4, Zenon DEF SaveShare
<1>6. ASSUME Answer(p) PROVE Failed(p) \/ Answers(p)
  <2>1. process[p].pc = "answer" /\ UNCHANGED <<row, fresh, ids, clock, sent>>
    BY <1>6 DEF Answer, table, agents
  <2>2. p \in Requests /\ Becomes(p, Resting("idle", NoMessage))
    BY <1>6, <2>1, RequestIs, StopIs DEF Answer
  <2>3. CASE Fail /\ UNCHANGED <<seen, answered>>
    BY <2>1, <2>2, <2>3 DEF Failed, still
  <2> QED
    BY <1>6, <2>1, <2>2, <2>3, Zenon DEF Answer, Answers
<1> QED
  BY <1>1, <1>2, <1>3, <1>4, <1>5, <1>6, Zenon DEF Handle

-----------------------------------------------------------------------------
(* Types: the network, the rows, what is in hand. *)

\* The share at hand and those that follow.
LEMMA ShareIs ==
  ASSUME IInv, NEW p \in Processes, process[p].pc = "assign"
  PROVE  LET todo == process[p].todo
             next == Head(todo)
         IN  /\ todo \in Seq(Shares) /\ todo # <<>> /\ 1 \in DOMAIN todo /\ next = todo[1]
             /\ next.node \in Nodes /\ next.entity \in Row /\ next.entity.id # 0
             /\ next.entity.id <= ids /\ next.entity.weight # 0
             /\ Tail(todo) \in Seq(Shares)
             /\ \A i \in DOMAIN Tail(todo) : i + 1 \in DOMAIN todo /\ Tail(todo)[i] = todo[i + 1]
             /\ \A i \in DOMAIN todo : i = 1 \/ \E j \in DOMAIN Tail(todo) : Tail(todo)[j] = todo[i]
<1> DEFINE todo == process[p].todo
<1>1. todo \in Seq(Shares) /\ todo # <<>>
  BY ProcessIs DEF IInv, Holding
<1>2. \A i \in DOMAIN todo : LET e == todo[i].entity IN e.id # 0 /\ e.id <= ids /\ e.weight # 0
  BY ProcessIs DEF IInv, Holding
<1> HIDE DEF todo
<1>3. 1 \in DOMAIN todo /\ Head(todo) = todo[1] /\ todo[1] \in Shares
  BY <1>1
<1>4. /\ Tail(todo) \in Seq(Shares)
      /\ \A i \in DOMAIN Tail(todo) : i + 1 \in DOMAIN todo /\ Tail(todo)[i] = todo[i + 1]
  BY <1>1
<1>5. \A i \in DOMAIN todo : i = 1 \/ \E j \in DOMAIN Tail(todo) : Tail(todo)[j] = todo[i]
  <2> SUFFICES ASSUME NEW i \in DOMAIN todo, i # 1
               PROVE  i - 1 \in DOMAIN Tail(todo) /\ Tail(todo)[i - 1] = todo[i]
    OBVIOUS
  <2> QED
    BY <1>1
<1>6. Head(todo).node \in Nodes /\ Head(todo).entity \in Row
  BY <1>3 DEF Shares
<1> QED
  BY <1>1, <1>2, <1>3, <1>4, <1>5, <1>6 DEF todo

LEMMA SavedIs ==
  ASSUME IInv, NEW p \in Processes, Saved(p)
  PROVE  /\ process[p].msg \in sent /\ process[p].msg \in Message
         /\ process[p].msg.node \in Nodes /\ process[p].entity \in Row
         /\ process[p].entity.weight # 0 /\ process[p].entity.id <= ids
         /\ process[p].msg.kind = "ready" => process[p].entity.id # 0 /\ process[p].entity.ready
         /\ Table' /\ ids <= ids'
<1>1. p # Cleaner /\ Busy(p)
  BY BoundsAssumption DEF Saved, Busy
<1>2. /\ process[p].msg \in sent /\ process[p].msg \in Message
      /\ process[p].msg.node \in Nodes
  BY <1>1, MessageIs DEF IInv
<1>3. /\ process[p].entity \in Row
      /\ process[p].entity.weight # 0 /\ process[p].entity.id <= ids
      /\ process[p].msg.kind = "ready" => process[p].entity.id # 0 /\ process[p].entity.ready
  BY ProcessIs DEF IInv, Holding, Saved
<1>4. Store(process[p].msg.node, process[p].entity, process[p].msg.kind = "register")
  BY DEF Saved
<1> QED
  BY <1>2, <1>3, <1>4, StoreIs DEF IInv

LEMMA SavesIs ==
  ASSUME IInv, NEW p \in Processes, Saves(p)
  PROVE  Table' /\ ids <= ids'
<1>1. Store(Head(process[p].todo).node, Head(process[p].todo).entity, FALSE)
  BY DEF Saves
<1>2. /\ Head(process[p].todo).node \in Nodes /\ Head(process[p].todo).entity \in Row
      /\ Head(process[p].todo).entity.weight # 0 /\ Head(process[p].todo).entity.id <= ids
  BY ShareIs DEF Saves
<1> QED
  BY <1>1, <1>2, StoreIs DEF IInv

\* Node n signs the message m: its next, and of a ready node if it is to say so.
Signs(n, m) ==
  /\ n \in Nodes /\ m \in Message /\ m.node = n /\ m.ts = clock[n] + 1
  /\ m.kind = "register" => m.weight # 0
  /\ m.kind = "ready" => clock[n] > 0 /\ answered[n] = clock[n]
  /\ Cardinality(sent) < MaxSent
  /\ clock' = [clock EXCEPT ![n] = @ + 1] /\ sent' = sent \cup {m}
  /\ UNCHANGED <<row, fresh, ids, seen, process, answered, disturbed, settled, faults>>

LEMMA SignsIs ==
  ASSUME IInv, NEW n \in Nodes, SignRegistration(n) \/ SignReady(n)
  PROVE  \E m \in Message : Signs(n, m)
<1>0. clock[n] \in Nat
  <2>1. Cardinality(sent) \in Nat
    BY FS_CardinalityType DEF IInv, Network
  <2> QED
    BY <2>1 DEF IInv, Network
<1>1. ASSUME NEW kind \in Kinds, NEW w \in Weights \cup {0},
             Sign(n, [kind |-> kind, node |-> n, ts |-> clock[n] + 1, weight |-> w]),
             kind = "register" => w # 0,
             kind = "ready" => clock[n] > 0 /\ answered[n] = clock[n]
      PROVE  \E m \in Message : Signs(n, m)
  <2> DEFINE m == [kind |-> kind, node |-> n, ts |-> clock[n] + 1, weight |-> w]
  <2>1. m \in Message /\ m.node = n /\ m.ts = clock[n] + 1 /\ m.kind = kind /\ m.weight = w
    BY <1>0 DEF Message
  <2>2. Sign(n, m)
    BY <1>1
  <2> HIDE DEF m
  <2>3. Signs(n, m)
    BY <1>1, <2>1, <2>2 DEF Signs, Sign, table, history
  <2> QED
    BY <2>1, <2>3
<1>2. CASE SignRegistration(n)
  <2>1. PICK w \in Weights :
          Sign(n, [kind |-> "register", node |-> n, ts |-> clock[n] + 1, weight |-> w])
    BY <1>2 DEF SignRegistration
  <2>2. w # 0
    BY BoundsAssumption
  <2> QED
    BY <1>1, <2>1, <2>2 DEF Kinds
<1>3. CASE SignReady(n)
  BY <1>1, <1>3 DEF SignReady, Kinds
<1> QED
  BY <1>2, <1>3

\* What a message just signed adds.
LEMMA NewMessage ==
  ASSUME IInv, NEW n \in Nodes, NEW m \in Message, Signs(n, m)
  PROVE  /\ m \notin sent /\ clock[n] \in Nat /\ clock'[n] = m.ts
         /\ \A o \in Nodes \ {n} : clock'[o] = clock[o]
         /\ \A o \in sent : o.node = n => o.ts < m.ts
         /\ IsFiniteSet(sent') /\ Cardinality(sent') = Cardinality(sent) + 1
         /\ Cardinality(sent) \in Nat
<1>1. Cardinality(sent) \in Nat /\ IsFiniteSet(sent)
  BY FS_CardinalityType DEF IInv, Network
<1>2. clock[n] \in Nat /\ clock'[n] = m.ts /\ \A o \in Nodes \ {n} : clock'[o] = clock[o]
  BY <1>1 DEF IInv, Network, Signs
<1>3. \A o \in sent : o.node = n => o.ts < m.ts
  <2> SUFFICES ASSUME NEW o \in sent, o.node = n PROVE o.ts < m.ts
    OBVIOUS
  <2>1. o.ts <= clock[n] /\ o.ts \in Nat
    BY DEF IInv, Network, Message
  <2> QED
    BY <1>2, <2>1 DEF Signs
<1>4. m \notin sent
  <2>1. m.node = n /\ m.ts \in Nat
    BY DEF Signs, Message
  <2> QED
    BY <1>3, <2>1
<1>5. IsFiniteSet(sent \cup {m}) /\ Cardinality(sent \cup {m}) = Cardinality(sent) + 1
  BY <1>1, <1>4, FS_AddElement
<1> QED
  BY <1>1, <1>2, <1>3, <1>4, <1>5 DEF Signs

\* Everything but Sign, Answers and Restart leaves the network alone.
LEMMA NetworkRest ==
  ASSUME Network, UNCHANGED <<seen, clock, sent, answered>>
  PROVE  Network'
  BY DEF Network

LEMMA AnswersIs ==
  ASSUME IInv, NEW p \in Processes, Answers(p)
  PROVE  /\ process[p].msg \in sent /\ process[p].msg \in Message
         /\ process[p].msg.node \in Nodes /\ process[p].msg.kind \in Kinds
         /\ process[p].msg.ts \in Nat
         /\ process[p].msg.ts <= clock[process[p].msg.node]
         /\ \A n \in Nodes : answered'[n] = IF n = process[p].msg.node THEN process[p].msg.ts
                                                                        ELSE answered[n]
         /\ \A k \in Kinds, n \in Nodes :
              seen'[k][n] = IF k = process[p].msg.kind /\ n = process[p].msg.node
                            THEN process[p].msg.ts ELSE seen[k][n]
         /\ answered' \in [Nodes -> Nat] /\ seen' \in [Kinds -> [Nodes -> Nat]]
<1>1. p # Cleaner /\ Busy(p)
  BY BoundsAssumption DEF Answers, Busy
<1>2. /\ process[p].msg \in sent /\ process[p].msg \in Message
      /\ process[p].msg.node \in Nodes /\ process[p].msg.kind \in Kinds
      /\ process[p].msg.ts \in Nat
      /\ process[p].msg.ts <= clock[process[p].msg.node]
  BY <1>1, MessageIs DEF IInv
<1>3. answered \in [Nodes -> Nat] /\ seen \in [Kinds -> [Nodes -> Nat]]
  BY DEF IInv, Network
<1> QED
  BY <1>2, <1>3 DEF Answers

LEMMA NetworkSigns ==
  ASSUME IInv, NEW n \in Nodes, NEW m \in Message, Signs(n, m)
  PROVE  Network'
<1> DEFINE c == Cardinality(sent)
<1>0. /\ m \notin sent /\ clock[n] \in Nat /\ clock'[n] = m.ts
      /\ \A o \in Nodes \ {n} : clock'[o] = clock[o]
      /\ \A o \in sent : o.node = n => o.ts < m.ts
      /\ IsFiniteSet(sent') /\ Cardinality(sent') = c + 1 /\ c \in Nat
  BY NewMessage
<1>1. m.node = n /\ m.ts = clock[n] + 1 /\ (m.kind = "register" => m.weight # 0) /\ c < MaxSent
      /\ sent' = sent \cup {m} /\ clock' = [clock EXCEPT ![n] = @ + 1]
      /\ UNCHANGED <<answered, seen>>
  BY DEF Signs
<1>2. clock \in [Nodes -> 0..c]
  BY DEF IInv, Network
<1> HIDE DEF c
<1>3. sent' \in SUBSET Message /\ IsFiniteSet(sent') /\ Cardinality(sent') <= MaxSent
  BY <1>0, <1>1, BoundsAssumption DEF IInv, Network
<1>4. clock' \in [Nodes -> 0..(c + 1)]
  BY <1>0, <1>1, <1>2
<1>5. answered' \in [Nodes -> Nat] /\ \A o \in Nodes : answered'[o] <= clock'[o]
  <2>1. answered \in [Nodes -> Nat] /\ \A o \in Nodes : answered[o] <= clock[o]
    BY DEF IInv, Network
  <2>2. \A o \in Nodes : clock'[o] \in Nat /\ clock[o] \in Nat /\ clock[o] <= clock'[o]
    BY <1>0, <1>1, <1>2
  <2> QED
    BY <1>1, <2>1, <2>2
<1>6. \A o \in sent : /\ o.node \in Nodes /\ o.ts \in Nat /\ o.ts <= clock[o.node]
                      /\ o.kind = "register" => o.weight # 0
  BY DEF IInv, Network, Message
<1>7. ASSUME NEW o \in sent'
      PROVE  o.ts <= clock'[o.node] /\ (o.kind = "register" => o.weight # 0)
  BY <1>0, <1>1, <1>2, <1>6
<1>8. ASSUME NEW o \in sent', NEW q \in sent', o.node = q.node, o.ts = q.ts
      PROVE  o = q
  <2>1. CASE o \in sent /\ q \in sent
    BY <1>8, <2>1 DEF IInv, Network
  <2>2. CASE o = m \/ q = m
    <3>1. \A x \in sent : x.node = n => x.ts # m.ts
      BY <1>0, <1>6
    <3> QED
      BY <1>1, <1>8, <2>2, <3>1
  <2> QED
    BY <1>1, <2>1, <2>2
<1>9. seen' \in [Kinds -> [Nodes -> Nat]]
  BY <1>1 DEF IInv, Network
<1> QED
  BY <1>0, <1>3, <1>4, <1>5, <1>7, <1>8, <1>9 DEF Network

LEMMA NetworkAnswers ==
  ASSUME IInv, NEW p \in Processes, Answers(p)
  PROVE  Network'
<1>1. UNCHANGED <<clock, sent>>
  BY DEF Answers
<1>2. answered' \in [Nodes -> Nat] /\ \A n \in Nodes : answered'[n] <= clock[n]
  BY AnswersIs DEF IInv, Network
<1>3. seen' \in [Kinds -> [Nodes -> Nat]]
  BY AnswersIs
<1> QED
  BY <1>1, <1>2, <1>3 DEF IInv, Network

LEMMA NetworkRestarts ==
  ASSUME IInv, Restart
  PROVE  Network'
<1>1. UNCHANGED <<clock, sent, answered>> /\ seen' \in [Kinds -> [Nodes -> Nat]]
  BY DEF Restart, agents
<1> QED
  BY <1>1 DEF IInv, Network

-----------------------------------------------------------------------------
(* The steps of the specification. *)

Admits(p, m) ==
  /\ ~Busy(p) /\ Accepts(m) /\ Becomes(p, Resting("find", m)) /\ UNCHANGED <<still, faults>>
  /\ disturbed' = (disturbed \/ ~Quiet) /\ settled' = (settled /\ Quiet)

FindsStale ==
  /\ ~Busy(Cleaner) /\ Becomes(Cleaner, Resting("delete", NoMessage))
  /\ UNCHANGED <<still, faults>>
  /\ disturbed' = (disturbed \/ ~Quiet) /\ settled' = (settled /\ Quiet)

Deletes ==
  /\ process[Cleaner].pc = "delete"
  /\ row' = [n \in Nodes |-> IF n \in Stale THEN NoRow ELSE row[n]]
  /\ \/ Stale = {} /\ Becomes(Cleaner, Resting("idle", NoMessage))
     \/ Becomes(Cleaner, Loaded(process[Cleaner], "layers", process[Cleaner].entity))
  /\ Fine /\ UNCHANGED <<fresh, ids, seen, clock, sent, answered>>

LEMMA StartIs ==
  ASSUME NEW p, NEW stage, NEW m, Start(p, [Idle EXCEPT !.pc = stage, !.msg = m])
  PROVE  /\ Becomes(p, Resting(stage, m))
         /\ disturbed' = (disturbed \/ ~Quiet) /\ settled' = (settled /\ Quiet)
<1> DEFINE a == [Idle EXCEPT !.pc = stage]
<1>1. a = [pc |-> stage, msg |-> NoMessage, entity |-> NoRow, todo |-> <<>>]
  BY DEF Idle
<1>2. [a EXCEPT !.msg = m] = Resting(stage, m)
  <2> HIDE DEF a
  <2> QED
    BY <1>1 DEF Resting
<1>3. /\ process' = [process EXCEPT ![p] = [a EXCEPT !.msg = m]]
      /\ disturbed' = (disturbed \/ ~Quiet) /\ settled' = (settled /\ Quiet)
  BY Zenon DEF Start
<1> HIDE DEF a
<1> QED
  BY <1>2, <1>3, Zenon DEF Becomes

LEMMA AdmitsIs ==
  ASSUME NEW p, NEW m, Admit(p, m)
  PROVE  Admits(p, m)
<1>1. Start(p, [Idle EXCEPT !.pc = "find", !.msg = m])
  BY DEF Admit
<1>2. ~Busy(p) /\ Accepts(m) /\ UNCHANGED <<still, faults>>
  BY DEF Admit, table, agents, still
<1> QED
  BY <1>1, <1>2, StartIs, Zenon DEF Admits

LEMMA FindStaleIs ==
  ASSUME FindStale
  PROVE  FindsStale
<1> DEFINE a == [Idle EXCEPT !.pc = "delete"]
<1>1. a = Resting("delete", NoMessage)
  BY DEF Idle, Resting
<1>2. /\ ~Busy(Cleaner) /\ process' = [process EXCEPT ![Cleaner] = a]
      /\ UNCHANGED <<still, faults>>
  BY DEF FindStale, Start, table, agents, still
<1>3. disturbed' = (disturbed \/ ~Quiet) /\ settled' = (settled /\ Quiet)
  BY Zenon DEF FindStale, Start
<1> HIDE DEF a
<1> QED
  BY <1>1, <1>2, <1>3, Zenon DEF FindsStale, Becomes

LEMMA DeleteStaleIs ==
  ASSUME IInv, DeleteStale
  PROVE  Deletes \/ Failed(Cleaner)
<1>0. process \in [Processes -> Process] /\ Cleaner \in Processes
  BY DEF IInv, InHand, Processes
<1>1. process[Cleaner].pc = "delete" /\ UNCHANGED <<fresh, ids, seen, clock, sent, answered>>
  BY DEF DeleteStale, agents
<1>2. CASE /\ row' = [n \in Nodes |-> IF n \in Stale THEN NoRow ELSE row[n]]
           /\ IF Stale = {} THEN Stop(Cleaner) ELSE AfterRemoval
           /\ Fine
  <2>1. \/ Stale = {} /\ Becomes(Cleaner, Resting("idle", NoMessage))
        \/ Becomes(Cleaner, Loaded(process[Cleaner], "layers", process[Cleaner].entity))
    BY <1>0, <1>2, StopIs, GotoIs DEF AfterRemoval
  <2> QED
    BY <1>1, <1>2, <2>1, Zenon DEF Deletes
<1>3. CASE Stop(Cleaner) /\ Fail /\ UNCHANGED row
  <2>1. Becomes(Cleaner, Resting("idle", NoMessage))
    BY <1>3, StopIs
  <2> QED
    BY <1>1, <1>3, <2>1 DEF Failed, still
<1> QED
  BY <1>2, <1>3, Zenon DEF DeleteStale

\* What any step is.
Steps ==
  \/ \E n \in Nodes, m \in Message : Signs(n, m)
  \/ \E n \in Nodes : Silence(n)
  \/ \E n \in Nodes : Touch(n)
  \/ \E p \in Requests, m \in sent : Admits(p, m)
  \/ \E p \in Processes :
       \/ Failed(p) \/ Ended(p) \/ Found(p) \/ Saved(p) \/ Again(p) \/ Reloaded(p)
       \/ Skipped(p) \/ Divides(p) \/ Leaves(p) \/ Saves(p) \/ Answers(p)
  \/ FindsStale
  \/ Deletes
  \/ Restart

LEMMA StepIs ==
  ASSUME IInv, Next
  PROVE  Steps
<1>1. ASSUME NEW n \in Nodes, SignRegistration(n) \/ SignReady(n) PROVE Steps
  BY <1>1, SignsIs DEF Steps
<1>2. ASSUME NEW p \in Requests, NEW m \in sent, Admit(p, m) PROVE Steps
  BY <1>2, AdmitsIs DEF Steps
<1>3. ASSUME NEW p \in Processes, Handle(p) PROVE Steps
  BY <1>3, HandleIs DEF Steps
<1>4. ASSUME Clean PROVE Steps
  <2>1. Cleaner \in Processes
    BY DEF Processes
  <2> QED
    BY <1>4, <2>1, FindStaleIs, DeleteStaleIs DEF Clean, Steps
<1>5. ASSUME NEW n \in Nodes, Silence(n) \/ Touch(n) PROVE Steps
  BY <1>5 DEF Steps
<1>6. ASSUME Restart PROVE Steps
  BY <1>6 DEF Steps
<1> QED
  BY <1>1, <1>2, <1>3, <1>4, <1>5, <1>6 DEF Next

\* What a failed call leaves.
LEMMA FailedIs ==
  ASSUME NEW p, Failed(p)
  PROVE  /\ disturbed' /\ ~settled' /\ UNCHANGED <<row, fresh, ids, seen, clock, sent, answered>>
         /\ Spend("failure")
<1>1. UNCHANGED <<row, fresh, ids, seen, clock, sent, answered>>
  BY DEF Failed, still
<1> QED
  BY <1>1, Zenon DEF Failed, Fail

LEMMA NetworkStep ==
  ASSUME IInv, Steps
  PROVE  Network'
<1>1. Network
  BY DEF IInv
<1>2. ASSUME NEW p \in Processes,
             \/ Failed(p) \/ Ended(p) \/ Found(p) \/ Saved(p) \/ Again(p) \/ Reloaded(p)
             \/ Skipped(p) \/ Divides(p) \/ Leaves(p) \/ Saves(p) \/ Answers(p)
      PROVE  Network'
  <2>1. CASE Answers(p)
    BY <2>1, NetworkAnswers
  <2>2. CASE Saved(p) \/ Saves(p) \/ Failed(p)
    <3>1. UNCHANGED <<seen, clock, sent, answered>>
      BY <2>2, FailedIs DEF Saved, Saves
    <3> QED
      BY <1>1, <3>1, NetworkRest
  <2>3. CASE \/ Ended(p) \/ Found(p) \/ Again(p) \/ Reloaded(p)
             \/ Skipped(p) \/ Divides(p) \/ Leaves(p)
    <3>1. UNCHANGED still
      BY <2>3 DEF Ended, Found, Again, Reloaded, Skipped, Divides, Leaves
    <3> QED
      BY <1>1, <3>1, NetworkRest DEF still
  <2> QED
    BY <1>2, <2>1, <2>2, <2>3
<1>3. CASE \E n \in Nodes : Silence(n) \/ Touch(n)
  BY <1>1, <1>3, NetworkRest DEF Silence, Touch, agents
<1>4. CASE (\E p \in Requests, m \in sent : Admits(p, m)) \/ FindsStale \/ Deletes
  <2>1. UNCHANGED <<seen, clock, sent, answered>>
    BY <1>4 DEF Admits, FindsStale, Deletes, still
  <2> QED
    BY <1>1, <2>1, NetworkRest
<1> QED
  BY <1>2, <1>3, <1>4, NetworkSigns, NetworkRestarts DEF Steps

LEMMA TableStep ==
  ASSUME IInv, Steps
  PROVE  Table'
<1>0. Table
  BY DEF IInv
<1>1. ASSUME UNCHANGED <<row, fresh, ids>> PROVE Table'
  BY <1>0, <1>1 DEF Table, Present
<1>2. ASSUME NEW p \in Processes,
             \/ Failed(p) \/ Ended(p) \/ Found(p) \/ Saved(p) \/ Again(p) \/ Reloaded(p)
             \/ Skipped(p) \/ Divides(p) \/ Leaves(p) \/ Saves(p) \/ Answers(p)
      PROVE  Table'
  <2>1. CASE Saved(p) \/ Saves(p)
    BY <2>1, SavedIs, SavesIs
  <2>2. CASE \/ Failed(p) \/ Ended(p) \/ Found(p) \/ Again(p) \/ Reloaded(p)
             \/ Skipped(p) \/ Divides(p) \/ Leaves(p) \/ Answers(p)
    <3>1. UNCHANGED <<row, fresh, ids>>
      BY <2>2, FailedIs
         DEF Ended, Found, Again, Reloaded, Skipped, Divides, Leaves, Answers, still
    <3> QED
      BY <1>1, <3>1
  <2> QED
    BY <1>2, <2>1, <2>2
<1>3. ASSUME NEW n \in Nodes, Silence(n) PROVE Table'
  BY <1>0, <1>3 DEF Table, Present, Silence
<1>4. ASSUME NEW n \in Nodes, Touch(n) PROVE Table'
  BY <1>0, <1>4 DEF Table, Present, Touch, Stale
<1>5. ASSUME Deletes PROVE Table'
  <2>1. NoRow \in Row /\ NoRow.id = 0
    BY DEF NoRow, Row
  <2>2. row' = [n \in Nodes |-> IF n \in Stale THEN NoRow ELSE row[n]] /\ UNCHANGED <<fresh, ids>>
    BY <1>5 DEF Deletes
  <2>3. \A n \in fresh : n \notin Stale
    BY DEF Stale
  <2>4. row' \in [Nodes -> Row]
    BY <1>0, <2>1, <2>2 DEF Table
  <2>5. \A n \in Nodes : row'[n].id <= ids /\ (row'[n].id # 0 => row'[n].weight # 0)
    BY <1>0, <2>1, <2>2 DEF Table, Present
  <2>6. \A n \in fresh : row'[n].id # 0
    BY <1>0, <2>2, <2>3 DEF Table, Present
  <2> QED
    BY <1>0, <2>2, <2>4, <2>5, <2>6 DEF Table, Present
<1>6. CASE \/ \E n \in Nodes, m \in Message : Signs(n, m)
           \/ \E p \in Requests, m \in sent : Admits(p, m)
           \/ FindsStale \/ Restart
  <2>1. UNCHANGED <<row, fresh, ids>>
    BY <1>6 DEF Signs, Admits, FindsStale, Restart, still, table
  <2> QED
    BY <1>1, <2>1
<1> QED
  BY <1>2, <1>3, <1>4, <1>5, <1>6 DEF Steps

\* Nothing that is held changes, but there may be more messages.
LEMMA InHandSame ==
  ASSUME IInv, process' = process, sent \subseteq sent', ids' = ids
  PROVE  InHand'
<1>1. process \in [Processes -> Process] /\ ids \in Nat
  BY DEF IInv, InHand, Table
<1>2. \A p \in Processes : process[p] \in Process /\ Holding(p, process[p], sent, ids)
  BY DEF IInv, InHand
<1>3. \A p \in Processes : Holding(p, process[p], sent', ids')
  BY <1>1, <1>2, HoldingMono
<1> QED
  BY <1>1, <1>3 DEF InHand

LEMMA InHandDivides ==
  ASSUME IInv, NEW p \in Processes, Divides(p)
  PROVE  InHand'
<1>1. PICK nodes \in ByAge : Becomes(p, Dividing(process[p], Assignment(nodes)))
  BY DEF Divides
<1> DEFINE todo == Assignment(nodes)
<1>2. /\ todo \in Seq(Shares) /\ todo # <<>>
      /\ \A i \in DOMAIN todo : /\ todo[i].node \in Active
                                /\ todo[i].entity.id = row[todo[i].node].id
                                /\ todo[i].entity.weight = row[todo[i].node].weight
  BY AssignmentIs DEF Divides
<1> HIDE DEF todo
<1>3. \A n \in Active : row[n].id # 0 /\ row[n].id <= ids /\ row[n].weight # 0
  BY DEF IInv, Table, Active, Present
<1>4. /\ UNCHANGED <<sent, ids>> /\ ids \in Nat /\ process[p].pc = "layers"
  BY DEF Divides, still, IInv, Table
<1>5. /\ process[p] \in Process /\ process[p].msg \in Message \cup {NoMessage}
      /\ process[p].entity \in Row /\ Holding(p, process[p], sent, ids)
      /\ p \in Requests <=> p # Cleaner
  BY ProcessIs DEF IInv
<1> DEFINE r == Dividing(process[p], todo)
<1>6. r \in Process
  BY <1>2, <1>5 DEF Dividing, Process, Stages
<1>7. Holding(p, r, sent, ids)
  <2>1. \A i \in DOMAIN todo : LET e == todo[i].entity IN e.id # 0 /\ e.id <= ids /\ e.weight # 0
    BY <1>2, <1>3
  <2>2. r.pc = "assign" /\ r.msg = process[p].msg /\ r.todo = todo
    BY DEF Dividing
  <2>3. p \in Requests => r.msg \in sent /\ r.msg.kind = "register"
    BY <1>4, <1>5, <2>2 DEF Holding
  <2> HIDE DEF r
  <2> QED
    BY <1>2, <1>5, <2>1, <2>2, <2>3 DEF Holding
<1>8. Becomes(p, r)
  BY <1>1 DEF todo
<1> HIDE DEF r
<1> QED
  BY <1>4, <1>6, <1>7, <1>8, InHandKept

LEMMA InHandSaves ==
  ASSUME IInv, NEW p \in Processes, Saves(p)
  PROVE  InHand'
<1>0. sent' = sent /\ ids' \in Nat /\ ids <= ids' /\ process[p].pc = "assign" /\ ids \in Nat
  BY SavesIs DEF Saves, Table, IInv
<1>1. CASE AfterLayers(p)
  BY <1>0, <1>1, AfterLayersKeeps
<1>2. CASE /\ Tail(process[p].todo) # <<>>
           /\ Becomes(p, Dividing(process[p], Tail(process[p].todo)))
  <2> DEFINE todo == process[p].todo
             rest == Tail(todo)
             r == Dividing(process[p], rest)
  <2>1. /\ rest \in Seq(Shares)
        /\ \A i \in DOMAIN rest : i + 1 \in DOMAIN todo /\ rest[i] = todo[i + 1]
    BY <1>0, ShareIs
  <2>2. /\ process[p] \in Process /\ process[p].msg \in Message \cup {NoMessage}
        /\ process[p].entity \in Row /\ Holding(p, process[p], sent, ids)
        /\ p \in Requests <=> p # Cleaner
    BY ProcessIs DEF IInv
  <2>3. \A i \in DOMAIN todo : LET e == todo[i].entity IN e.id # 0 /\ e.id <= ids /\ e.weight # 0
    BY <2>2 DEF Holding
  <2>4. p \in Requests => process[p].msg \in sent /\ process[p].msg.kind = "register"
    BY <1>0, <2>2 DEF Holding
  <2>5. Becomes(p, r) /\ rest # <<>>
    BY <1>2
  <2> HIDE DEF todo, rest
  <2>6. r \in Process
    BY <2>1, <2>2 DEF Dividing, Process, Stages
  <2>7. r.pc = "assign" /\ r.msg = process[p].msg /\ r.todo = rest
    BY DEF Dividing
  <2>8. \A i \in DOMAIN rest : LET e == rest[i].entity IN e.id # 0 /\ e.id <= ids /\ e.weight # 0
    BY <2>1, <2>3
  <2> HIDE DEF r
  <2>9. Holding(p, r, sent, ids)
    BY <2>2, <2>4, <2>5, <2>7, <2>8 DEF Holding
  <2>10. Holding(p, r, sent, ids')
    BY <1>0, <2>6, <2>9, HoldingMono
  <2> QED
    BY <1>0, <2>5, <2>6, <2>10, InHandKept
<1> QED
  BY <1>1, <1>2 DEF Saves

LEMMA InHandLoaded ==
  ASSUME IInv, NEW p \in Processes, process[p].pc \in {"findAgain", "delete"},
         p = Cleaner \/ process[p].pc = "findAgain",
         Becomes(p, Loaded(process[p], "layers", process[p].entity)),
         sent' = sent, ids' = ids
  PROVE  InHand'
<1> DEFINE r == Loaded(process[p], "layers", process[p].entity)
<1>1. /\ process[p] \in Process /\ process[p].msg \in Message \cup {NoMessage}
      /\ process[p].entity \in Row /\ process[p].todo \in Seq(Shares)
      /\ Holding(p, process[p], sent, ids)
      /\ p \in Requests <=> p # Cleaner
  BY ProcessIs DEF IInv
<1>2. r \in Process /\ Becomes(p, r)
  BY <1>1 DEF Loaded, Process, Stages
<1>3. r.pc = "layers" /\ r.msg = process[p].msg /\ r.todo = process[p].todo
  BY DEF Loaded
<1>4. process[p].todo = <<>>
  BY <1>1 DEF Holding
<1>5. p \in Requests => r.msg \in sent /\ r.msg.kind = "register"
  BY <1>1, <1>3 DEF Holding
<1> HIDE DEF r
<1>6. Holding(p, r, sent, ids)
  BY <1>1, <1>3, <1>4, <1>5 DEF Holding
<1> QED
  BY <1>2, <1>6, InHandKept DEF IInv, Table

LEMMA InHandRestarts ==
  ASSUME IInv, Restart
  PROVE  InHand'
<1>1. Resting("idle", NoMessage) \in Process
  BY RestingIs DEF Stages
<1>2. process' = [p \in Processes |-> Resting("idle", NoMessage)]
  BY IdleIs DEF Restart
<1>3. \A p \in Processes : Holding(p, Resting("idle", NoMessage), sent', ids')
  BY HoldingIdle
<1> QED
  BY <1>1, <1>2, <1>3 DEF InHand

LEMMA InHandStep ==
  ASSUME IInv, Steps
  PROVE  InHand'
<1>0. ids \in Nat /\ Requests \subseteq Processes /\ Cleaner \in Processes
  BY DEF IInv, Table, Processes
<1>1. ASSUME NEW p \in Processes, Failed(p) PROVE InHand'
  <2>1. sent' = sent /\ ids' = ids
    BY <1>1, FailedIs
  <2> QED
    BY <1>0, <1>1, <2>1, StopKeeps, AfterLayersKeeps DEF Failed
<1>2. ASSUME NEW p \in Processes, Ended(p) \/ Answers(p) PROVE InHand'
  <2>1. sent' = sent /\ ids' = ids
    BY <1>2 DEF Ended, Answers, still
  <2> QED
    BY <1>2, <2>1, StopKeeps DEF Ended, Answers
<1>3. ASSUME NEW p \in Processes, Found(p) \/ Reloaded(p) PROVE InHand'
  <2>1. /\ sent' = sent /\ ids' = ids /\ p \in Requests /\ Busy(p)
        /\ process[p].pc \in {"find", "findAgain"}
    BY <1>3 DEF Found, Reloaded, still, Busy
  <2>2. /\ process[p].todo = <<>>
        /\ process[p].pc = "findAgain" => process[p].msg.kind = "register"
    BY <2>1, ProcessIs DEF IInv, Holding
  <2>3. process[p].msg.kind \in Kinds
    BY <1>3, <2>1, MessageIs, BoundsAssumption DEF IInv
  <2> QED
    BY <1>3, <2>1, <2>2, <2>3, LoadKeeps DEF Found, Reloaded, Loads, Kinds
<1>4. ASSUME NEW p \in Processes, Saved(p) PROVE InHand'
  <2>1. sent' = sent /\ ids' \in Nat /\ ids <= ids'
    BY <1>4, SavedIs DEF Saved, Table
  <2>2. p \in Requests /\ Busy(p)
    BY <1>4 DEF Saved, Busy
  <2>3. CASE process[p].msg.kind = "register"
    BY <1>4, <2>1, <2>2, <2>3, RestKeeps DEF Saved
  <2>4. CASE process[p].msg.kind # "register"
    BY <1>4, <2>1, <2>2, <2>4, RestKeeps DEF Saved
  <2> QED
    BY <2>3, <2>4
<1>5. ASSUME NEW p \in Processes, Again(p) PROVE InHand'
  <2>1. sent' = sent /\ ids' = ids /\ p \in Requests /\ Busy(p)
    BY <1>5 DEF Again, still, Busy
  <2> QED
    BY <1>0, <1>5, <2>1, RestKeeps DEF Again
<1>6. ASSUME NEW p \in Processes, Skipped(p) PROVE InHand'
  BY <1>6, InHandLoaded DEF Skipped, still
<1>7. ASSUME NEW p \in Processes, Leaves(p) PROVE InHand'
  <2>1. sent' = sent /\ ids' = ids
    BY <1>7 DEF Leaves, still
  <2> QED
    BY <1>0, <1>7, <2>1, AfterLayersKeeps DEF Leaves
<1>8. ASSUME NEW p \in Requests, NEW m \in sent, Admits(p, m) PROVE InHand'
  <2>1. sent' = sent /\ ids' = ids /\ Becomes(p, Resting("find", m))
    BY <1>8 DEF Admits, still
  <2>2. Resting("find", m) \in Process
    BY RestingIs DEF Stages, IInv, Network
  <2> QED
    BY <1>0, <2>1, <2>2, HoldingRest, InHandKept
<1>9. ASSUME FindsStale PROVE InHand'
  <2>1. sent' = sent /\ ids' = ids /\ Becomes(Cleaner, Resting("delete", NoMessage))
    BY <1>9 DEF FindsStale, still
  <2>2. Resting("delete", NoMessage) \in Process
    BY RestingIs DEF Stages
  <2>3. Holding(Cleaner, Resting("delete", NoMessage), sent, ids)
    BY BoundsAssumption DEF Holding, Resting
  <2> QED
    BY <1>0, <2>1, <2>2, <2>3, InHandKept
<1>10. ASSUME Deletes PROVE InHand'
  BY <1>0, <1>10, StopKeeps, InHandLoaded DEF Deletes
<1>11. ASSUME NEW n \in Nodes, NEW m \in Message, Signs(n, m) PROVE InHand'
  BY <1>11, InHandSame DEF Signs
<1>12. ASSUME NEW n \in Nodes, Silence(n) \/ Touch(n) PROVE InHand'
  BY <1>12, InHandSame DEF Silence, Touch, agents
<1> QED
  BY <1>1, <1>2, <1>3, <1>4, <1>5, <1>6, <1>7, <1>8, <1>9, <1>10, <1>11, <1>12,
     InHandDivides, InHandSaves, InHandRestarts DEF Steps

LEMMA SpendIs ==
  ASSUME Flags, NEW kind \in FaultKinds, Spend(kind)
  PROVE  faults' \in [FaultKinds -> Nat]
  BY DEF Flags, Spend

LEMMA FlagsStep ==
  ASSUME IInv, Steps
  PROVE  Flags'
<1>0. Flags /\ disturbed \in BOOLEAN /\ settled \in BOOLEAN /\ faults \in [FaultKinds -> Nat]
  BY DEF IInv, Flags
<1>1. ASSUME Fine PROVE Flags'
  BY <1>0, <1>1, Zenon DEF Fine, history, Flags
<1>2. ASSUME Fail PROVE Flags'
  <2>1. faults' \in [FaultKinds -> Nat]
    BY <1>0, <1>2, SpendIs DEF Fail, FaultKinds
  <2>2. disturbed' = TRUE /\ settled' = FALSE
    BY <1>2, Zenon DEF Fail
  <2> QED
    BY <2>1, <2>2, Zenon DEF Flags
<1>3. ASSUME disturbed' = (disturbed \/ ~Quiet), settled' = (settled /\ Quiet), faults' = faults
      PROVE  Flags'
  BY <1>0, <1>3, Zenon DEF Flags
<1>4. ASSUME NEW p \in Processes,
             \/ Failed(p) \/ Ended(p) \/ Found(p) \/ Saved(p) \/ Again(p) \/ Reloaded(p)
             \/ Skipped(p) \/ Divides(p) \/ Leaves(p) \/ Saves(p) \/ Answers(p)
      PROVE  Flags'
  <2>1. CASE Failed(p)
    BY <1>2, <2>1 DEF Failed
  <2>2. CASE \/ Ended(p) \/ Found(p) \/ Again(p) \/ Reloaded(p)
             \/ Skipped(p) \/ Leaves(p) \/ Saves(p) \/ Answers(p)
    <3>1. Fine
      BY <2>2, Zenon DEF Ended, Found, Again, Reloaded, Skipped, Leaves, Saves, Answers
    <3> QED
      BY <1>1, <3>1
  <2>3. CASE Saved(p)
    BY <1>0, <2>3, Zenon DEF Saved, Flags
  <2>4. CASE Divides(p)
    BY <1>0, <2>4, Zenon DEF Divides, Flags
  <2> QED
    BY <1>4, <2>1, <2>2, <2>3, <2>4
<1>5. ASSUME NEW n \in Nodes, Silence(n) PROVE Flags'
  <2>1. faults' \in [FaultKinds -> Nat]
    BY <1>0, <1>5, SpendIs DEF Silence, FaultKinds
  <2>2. UNCHANGED <<disturbed, settled>>
    BY <1>5, Zenon DEF Silence, history
  <2> QED
    BY <1>0, <2>1, <2>2, Zenon DEF Flags
<1>6. ASSUME NEW n \in Nodes, Touch(n) PROVE Flags'
  BY <1>0, <1>6, Zenon DEF Touch, Flags
<1>7. ASSUME NEW n \in Nodes, NEW m \in Message, Signs(n, m) PROVE Flags'
  BY <1>0, <1>7, Zenon DEF Signs, Flags
<1>8. ASSUME NEW p \in Requests, NEW m \in sent, Admits(p, m) PROVE Flags'
  BY <1>3, <1>8, Zenon DEF Admits
<1>9. ASSUME FindsStale PROVE Flags'
  BY <1>3, <1>9, Zenon DEF FindsStale
<1>10. ASSUME Deletes PROVE Flags'
  BY <1>1, <1>10 DEF Deletes
<1>11. ASSUME Restart PROVE Flags'
  BY <1>2, <1>11 DEF Restart
<1> QED
  BY <1>4, <1>5, <1>6, <1>7, <1>8, <1>9, <1>10, <1>11, Zenon DEF Steps

-----------------------------------------------------------------------------
(* Operations that come one at a time. *)

\* The others are idle, and what is at hand agrees with the rows.
LEMMA OthersIdle ==
  ASSUME IInv, NEW p \in Processes, Busy(p), settled \/ ~disturbed
  PROVE  /\ \A q \in Processes \ {p} : ~Busy(q)
         /\ \A q \in Processes : Agrees(process[q], row)
<1>1. /\ \A q, o \in Processes : Busy(q) /\ Busy(o) => q = o
      /\ \A q \in Processes : Agrees(process[q], row)
  BY Zenon DEF IInv, Alone
<1> QED
  BY <1>1

LEMMA IdleAgrees ==
  ASSUME IInv, NEW q \in Processes, ~Busy(q), NEW rows
  PROVE  Agrees(process[q], rows)
<1>1. process[q].pc = "idle" /\ process[q].todo = <<>>
  BY ProcessIs DEF IInv, Holding, Busy
<1> QED
  BY <1>1 DEF Agrees

LEMMA RestingAgrees ==
  ASSUME NEW stage, NEW m, NEW rows, stage # "save"
  PROVE  Agrees(Resting(stage, m), rows)
  BY DEF Agrees, Resting

\* What a process p that is alone leaves.
LEMMA AlonePost ==
  ASSUME IInv, NEW p \in Processes, NEW r,
         settled' \/ ~disturbed' =>
           (\A q \in Processes \ {p} : ~Busy(q)) /\ Becomes(p, r) /\ Agrees(r, row')
  PROVE  Alone'
<1>1. process \in [Processes -> Process]
  BY DEF IInv, InHand
<1>2. ASSUME settled' \/ ~disturbed'
      PROVE  /\ \A q, o \in Processes : process'[q].pc # "idle" /\ process'[o].pc # "idle" => q = o
             /\ \A q \in Processes : Agrees(process'[q], row')
  <2>1. (\A q \in Processes \ {p} : ~Busy(q)) /\ Becomes(p, r) /\ Agrees(r, row')
    BY <1>2, Zenon
  <2>2. \A q \in Processes : process'[q] = IF q = p THEN r ELSE process[q]
    BY <1>1, <2>1 DEF Becomes
  <2>3. \A q \in Processes \ {p} : Agrees(process[q], row')
    BY <2>1, IdleAgrees
  <2> QED
    BY <2>1, <2>2, <2>3 DEF Busy
<1> QED
  BY <1>2, Zenon DEF Alone, Busy

\* The share of a process that is alone keeps the number of its row.
LEMMA SavesAlone ==
  ASSUME IInv, NEW p \in Processes, Saves(p), settled \/ ~disturbed
  PROVE  LET next == Head(process[p].todo)
         IN  /\ row'[next.node] = next.entity
             /\ \A n \in Nodes \ {next.node} : row'[n] = row[n]
             /\ \A n \in Nodes : row'[n].id = row[n].id /\ row'[n].ready = row[n].ready
<1> DEFINE next == Head(process[p].todo)
<1>1. process[p].pc = "assign" /\ Store(next.node, next.entity, FALSE) /\ Busy(p)
  BY DEF Saves, Busy
<1>2. Agrees(process[p], row)
  BY <1>1, OthersIdle
<1>3. /\ 1 \in DOMAIN process[p].todo /\ next = process[p].todo[1]
      /\ next.node \in Nodes /\ next.entity \in Row /\ next.entity.id # 0
      /\ next.entity.weight # 0 /\ next.entity.id <= ids
  BY <1>1, ShareIs
<1>4. next.entity.id = row[next.node].id /\ next.entity.ready = row[next.node].ready
  BY <1>2, <1>3 DEF Agrees
<1> HIDE DEF next
<1>5. /\ row'[next.node] = next.entity
      /\ \A n \in Nodes : n # next.node => row'[n] = row[n]
  BY <1>1, <1>3, StoreIs DEF IInv
<1>6. \A n \in Nodes : row'[n].id = row[n].id /\ row'[n].ready = row[n].ready
  BY <1>3, <1>4, <1>5
<1> QED
  BY <1>5, <1>6 DEF next

LEMMA AloneHandle ==
  ASSUME IInv, NEW p \in Processes,
         \/ Failed(p) \/ Ended(p) \/ Found(p) \/ Saved(p) \/ Again(p) \/ Reloaded(p)
         \/ Skipped(p) \/ Divides(p) \/ Leaves(p) \/ Saves(p) \/ Answers(p)
  PROVE  Alone'
<1> DEFINE premise == settled \/ ~disturbed
<1>0. process \in [Processes -> Process] /\ process[p].todo \in Seq(Shares)
      /\ Holding(p, process[p], sent, ids)
  BY ProcessIs DEF IInv, InHand
<1>1. ASSUME Fine, settled' \/ ~disturbed', Busy(p)
      PROVE  premise /\ \A q \in Processes \ {p} : ~Busy(q)
  <2>1. premise
    BY <1>1, Zenon DEF Fine, history
  <2> QED
    BY <1>1, <2>1, OthersIdle
<1>2. CASE Failed(p)
  <2>1. ~(settled' \/ ~disturbed')
    BY <1>2, FailedIs, Zenon
  <2> QED
    BY <2>1, AlonePost, Zenon
<1>3. CASE Ended(p) \/ Answers(p)
  <2>1. Becomes(p, Resting("idle", NoMessage)) /\ Fine /\ Busy(p)
    BY <1>3 DEF Ended, Answers, Busy
  <2>2. Agrees(Resting("idle", NoMessage), row')
    BY RestingAgrees
  <2> QED
    BY <1>1, <2>1, <2>2, AlonePost, Zenon
<1>4. CASE Found(p)
  <2> DEFINE m == process[p].msg
             r == Loaded(process[p], "save", Changed(row[m.node], m))
  <2>1. Becomes(p, r) /\ Fine /\ Busy(p) /\ row' = row /\ process[p].pc = "find"
    BY <1>4 DEF Found, Loads, Busy, still
  <2>2. r.pc = "save" /\ r.msg = m /\ r.entity = Changed(row[m.node], m) /\ r.todo = <<>>
    BY <1>0, <2>1 DEF Loaded, Holding
  <2> HIDE DEF r
  <2>3. Agrees(r, row')
    BY <2>1, <2>2 DEF Agrees
  <2> QED
    BY <1>1, <2>1, <2>3, AlonePost, Zenon
<1>5. CASE Reloaded(p)
  <2> DEFINE m == process[p].msg
             r == Loaded(process[p], "saveAgain", Changed(row[m.node], m))
  <2>1. Becomes(p, r) /\ Fine /\ Busy(p) /\ process[p].pc = "findAgain"
    BY <1>5 DEF Reloaded, Loads, Busy
  <2>2. r.pc = "saveAgain" /\ r.todo = <<>>
    BY <1>0, <2>1 DEF Loaded, Holding
  <2> HIDE DEF r
  <2>3. Agrees(r, row')
    BY <2>2 DEF Agrees
  <2> QED
    BY <1>1, <2>1, <2>3, AlonePost, Zenon
<1>6. CASE Skipped(p)
  <2> DEFINE r == Loaded(process[p], "layers", process[p].entity)
  <2>1. Becomes(p, r) /\ Fine /\ Busy(p) /\ process[p].pc = "findAgain"
    BY <1>6 DEF Skipped, Busy
  <2>2. r.pc = "layers" /\ r.todo = <<>>
    BY <1>0, <2>1 DEF Loaded, Holding
  <2> HIDE DEF r
  <2>3. Agrees(r, row')
    BY <2>2 DEF Agrees
  <2> QED
    BY <1>1, <2>1, <2>3, AlonePost, Zenon
<1>7. CASE Again(p)
  <2>1. Becomes(p, Resting("findAgain", process[p].msg)) /\ Fine /\ Busy(p)
    BY <1>7 DEF Again, Busy
  <2>2. Agrees(Resting("findAgain", process[p].msg), row')
    BY RestingAgrees
  <2> QED
    BY <1>1, <2>1, <2>2, AlonePost, Zenon
<1>8. CASE Saved(p)
  <2> DEFINE r == Resting(IF process[p].msg.kind = "register" THEN "layers" ELSE "answer",
                          process[p].msg)
  <2>1. Becomes(p, r) /\ Busy(p)
    BY <1>8 DEF Saved, Busy
  <2>2. Agrees(r, row')
    BY RestingAgrees
  <2>3. settled' \/ ~disturbed' => premise
    BY <1>8, Zenon DEF Saved
  <2>4. premise => \A q \in Processes \ {p} : ~Busy(q)
    BY <2>1, OthersIdle
  <2> QED
    BY <2>1, <2>2, <2>3, <2>4, AlonePost, Zenon
<1>9. CASE Divides(p)
  <2>1. PICK nodes \in ByAge : Becomes(p, Dividing(process[p], Assignment(nodes)))
    BY <1>9 DEF Divides
  <2> DEFINE r == Dividing(process[p], Assignment(nodes))
  <2>2. row' = row /\ Busy(p)
    BY <1>9 DEF Divides, Busy, still
  <2>3. r.pc = "assign" /\ r.todo = Assignment(nodes)
    BY DEF Dividing
  <2>4. \A i \in DOMAIN Assignment(nodes) :
          /\ Assignment(nodes)[i].entity.id = row[Assignment(nodes)[i].node].id
          /\ Assignment(nodes)[i].entity.ready = row[Assignment(nodes)[i].node].ready
    BY <1>9, AssignmentIs DEF Divides
  <2>5. Becomes(p, r)
    BY <2>1
  <2> HIDE DEF r
  <2>6. Agrees(r, row')
    BY <2>2, <2>3, <2>4 DEF Agrees
  <2>7. settled' = (\A o \in Processes \ {p} : ~Busy(o)) /\ disturbed' = disturbed
    BY <1>9, Zenon DEF Divides
  <2>8. premise => \A q \in Processes \ {p} : ~Busy(q)
    BY <2>2, OthersIdle
  <2> QED
    BY <2>5, <2>6, <2>7, <2>8, AlonePost, Zenon
<1>10. CASE Leaves(p)
  <2> DEFINE r == IF p = Cleaner THEN Resting("idle", NoMessage)
                                 ELSE Resting("answer", process[p].msg)
  <2>1. Becomes(p, r) /\ Fine /\ Busy(p)
    BY <1>10, AfterLayersIs DEF Leaves, Busy
  <2>2. Agrees(r, row')
    BY RestingAgrees
  <2> QED
    BY <1>1, <2>1, <2>2, AlonePost, Zenon
<1>11. CASE Saves(p)
  <2>1. Fine /\ Busy(p) /\ process[p].pc = "assign"
    BY <1>11 DEF Saves, Busy
  <2>2. CASE AfterLayers(p)
    <3> DEFINE r == IF p = Cleaner THEN Resting("idle", NoMessage)
                                   ELSE Resting("answer", process[p].msg)
    <3>1. Becomes(p, r)
      BY <2>2, AfterLayersIs
    <3>2. Agrees(r, row')
      BY RestingAgrees
    <3> QED
      BY <1>1, <2>1, <3>1, <3>2, AlonePost, Zenon
  <2>3. CASE Becomes(p, Dividing(process[p], Tail(process[p].todo)))
    <3> DEFINE r == Dividing(process[p], Tail(process[p].todo))
               todo == process[p].todo
    <3>1. ASSUME premise PROVE Agrees(r, row')
      <4>1. Agrees(process[p], row)
        BY <2>1, <3>1, OthersIdle
      <4>2. \A n \in Nodes : row'[n].id = row[n].id /\ row'[n].ready = row[n].ready
        BY <1>11, <3>1, SavesAlone
      <4>3. \A i \in DOMAIN Tail(todo) : i + 1 \in DOMAIN todo /\ Tail(todo)[i] = todo[i + 1]
        BY <2>1, ShareIs
      <4>4. \A i \in DOMAIN todo : todo[i].node \in Nodes
        <5>1. \A i \in DOMAIN todo : todo[i] \in Shares
          BY <1>0
        <5> QED
          BY <5>1 DEF Shares
      <4>5. \A i \in DOMAIN todo : /\ todo[i].entity.id = row[todo[i].node].id
                                   /\ todo[i].entity.ready = row[todo[i].node].ready
        BY <4>1 DEF Agrees
      <4>6. r.pc = "assign" /\ r.todo = Tail(todo)
        BY DEF Dividing
      <4> HIDE DEF r, todo
      <4>7. \A i \in DOMAIN Tail(todo) :
              /\ Tail(todo)[i].entity.id = row'[Tail(todo)[i].node].id
              /\ Tail(todo)[i].entity.ready = row'[Tail(todo)[i].node].ready
        BY <4>2, <4>3, <4>4, <4>5
      <4> QED
        BY <4>6, <4>7 DEF Agrees
    <3> QED
      BY <1>1, <2>1, <2>3, <3>1, AlonePost, Zenon
  <2> QED
    BY <1>11, <2>2, <2>3 DEF Saves
<1> QED
  BY <1>2, <1>3, <1>4, <1>5, <1>6, <1>7, <1>8, <1>9, <1>10, <1>11

LEMMA AloneSame ==
  ASSUME IInv, process' = process, row' = row, (settled' \/ ~disturbed') => (settled \/ ~disturbed)
  PROVE  Alone'
<1>1. settled' \/ ~disturbed' =>
        /\ \A p, q \in Processes : Busy(p) /\ Busy(q) => p = q
        /\ \A p \in Processes : Agrees(process[p], row)
  BY Zenon DEF IInv, Alone
<1>2. settled' \/ ~disturbed' =>
        /\ \A p, q \in Processes : process'[p].pc # "idle" /\ process'[q].pc # "idle" => p = q
        /\ \A p \in Processes : Agrees(process'[p], row')
  BY <1>1, Zenon DEF Busy
<1> QED
  BY <1>2, Zenon DEF Alone, Busy

LEMMA AloneStep ==
  ASSUME IInv, Steps
  PROVE  Alone'
<1>0. Requests \subseteq Processes /\ Cleaner \in Processes
  BY DEF Processes
<1>1. ASSUME disturbed' = (disturbed \/ ~Quiet), settled' = (settled /\ Quiet),
             settled' \/ ~disturbed'
      PROVE  \A q \in Processes : ~Busy(q)
  BY <1>1, Zenon DEF Quiet
<1>2. ASSUME NEW p \in Requests, NEW m \in sent, Admits(p, m) PROVE Alone'
  <2>1. /\ Becomes(p, Resting("find", m))
        /\ disturbed' = (disturbed \/ ~Quiet) /\ settled' = (settled /\ Quiet)
    BY <1>2, Zenon DEF Admits
  <2>2. Agrees(Resting("find", m), row')
    BY RestingAgrees
  <2>3. settled' \/ ~disturbed' => \A q \in Processes \ {p} : ~Busy(q)
    BY <1>1, <2>1, Zenon
  <2> QED
    BY <1>0, <2>1, <2>2, <2>3, AlonePost, Zenon
<1>3. ASSUME FindsStale PROVE Alone'
  <2>1. /\ Becomes(Cleaner, Resting("delete", NoMessage))
        /\ disturbed' = (disturbed \/ ~Quiet) /\ settled' = (settled /\ Quiet)
    BY <1>3, Zenon DEF FindsStale
  <2>2. Agrees(Resting("delete", NoMessage), row')
    BY RestingAgrees
  <2>3. settled' \/ ~disturbed' => \A q \in Processes \ {Cleaner} : ~Busy(q)
    BY <1>1, <2>1, Zenon
  <2> QED
    BY <1>0, <2>1, <2>2, <2>3, AlonePost, Zenon
<1>4. ASSUME Deletes PROVE Alone'
  <2>1. process[Cleaner].pc = "delete" /\ Fine /\ Busy(Cleaner)
    BY <1>4 DEF Deletes, Busy
  <2>2. settled' \/ ~disturbed' => \A q \in Processes \ {Cleaner} : ~Busy(q)
    <3>1. settled' \/ ~disturbed' => settled \/ ~disturbed
      BY <2>1, Zenon DEF Fine, history
    <3>2. settled \/ ~disturbed => \A q \in Processes \ {Cleaner} : ~Busy(q)
      BY <1>0, <2>1, OthersIdle
    <3> QED
      BY <3>1, <3>2, Zenon
  <2>3. PICK r : Becomes(Cleaner, r) /\ Agrees(r, row')
    <3>1. CASE Becomes(Cleaner, Resting("idle", NoMessage))
      BY <3>1, RestingAgrees
    <3>2. CASE Becomes(Cleaner, Loaded(process[Cleaner], "layers", process[Cleaner].entity))
      <4> DEFINE r == Loaded(process[Cleaner], "layers", process[Cleaner].entity)
      <4>1. process[Cleaner].todo = <<>>
        BY <1>0, <2>1, ProcessIs DEF IInv, Holding
      <4>2. r.pc = "layers" /\ r.todo = <<>>
        BY <4>1 DEF Loaded
      <4>3. Becomes(Cleaner, r)
        BY <3>2
      <4> HIDE DEF r
      <4>4. Agrees(r, row')
        BY <4>2 DEF Agrees
      <4> QED
        BY <4>3, <4>4
    <3> QED
      BY <1>4, <3>1, <3>2 DEF Deletes
  <2> QED
    BY <1>0, <2>2, <2>3, AlonePost, Zenon
<1>5. ASSUME Restart PROVE Alone'
  <2>1. ~(settled' \/ ~disturbed')
    BY <1>5, Zenon DEF Restart, Fail
  <2> QED
    BY <1>0, <2>1, AlonePost, Zenon
<1>6. ASSUME NEW n \in Nodes, Silence(n) \/ Touch(n) PROVE Alone'
  <2>1. process' = process /\ row' = row
    BY <1>6 DEF Silence, Touch
  <2>2. (settled' \/ ~disturbed') => (settled \/ ~disturbed)
    BY <1>6, Zenon DEF Silence, Touch, history
  <2> QED
    BY <2>1, <2>2, AloneSame
<1>7. ASSUME NEW n \in Nodes, NEW m \in Message, Signs(n, m) PROVE Alone'
  <2>1. process' = process /\ row' = row
    BY <1>7 DEF Signs
  <2>2. (settled' \/ ~disturbed') => (settled \/ ~disturbed)
    BY <1>7, Zenon DEF Signs
  <2> QED
    BY <2>1, <2>2, AloneSame
<1> QED
  BY <1>2, <1>3, <1>4, <1>5, <1>6, <1>7, AloneHandle DEF Steps

-----------------------------------------------------------------------------
(* The layers are covered once. *)

Due ==
  /\ settled
  /\ \A p \in Processes : process[p].pc # "layers"
  /\ fresh # {} \/ \E p \in Processes : process[p].pc = "assign"

LEMMA CoveredIs ==
  ASSUME Covered, Due
  PROVE  \E S \in SUBSET Nodes : \E share \in [S -> Ranges] : Divided(S, share)
  BY Zenon DEF Covered, Due

LEMMA CoveredPost ==
  ASSUME Due' => \E S \in SUBSET Nodes : \E share \in [S -> Ranges] : Divided(S, share)'
  PROVE  Covered'
  BY Zenon DEF Covered, Due

\* Nothing is divided by a step that leaves the rows and has no shares at hand.
LEMMA CoveredSame ==
  ASSUME IInv, NEW p \in Processes, NEW r, Becomes(p, r),
         r.pc \notin {"assign", "layers"}, process[p].pc \notin {"assign", "layers"},
         r.todo = <<>>, row' = row, fresh' = fresh, settled' => settled
  PROVE  Covered'
<1>0. process \in [Processes -> Process] /\ process[p].todo = <<>>
  BY ProcessIs DEF IInv, InHand, Holding
<1>1. \A q \in Processes : process'[q] = IF q = p THEN r ELSE process[q]
  BY <1>0 DEF Becomes
<1>2. ASSUME Due'
      PROVE  \E S \in SUBSET Nodes : \E share \in [S -> Ranges] : Divided(S, share)'
  <2>1. settled /\ settled'
    BY <1>2, Zenon DEF Due
  <2>2. /\ \A q \in Processes : process'[q].pc # "layers"
        /\ fresh' # {} \/ \E q \in Processes : process'[q].pc = "assign"
    BY <1>2, Zenon DEF Due
  <2>3. /\ \A q \in Processes : process[q].pc # "layers"
        /\ fresh # {} \/ \E q \in Processes : process[q].pc = "assign"
    BY <1>1, <2>2
  <2>4. Due
    BY <2>1, <2>3, Zenon DEF Due
  <2>5. PICK S, share : S \in SUBSET Nodes /\ share \in [S -> Ranges] /\ Divided(S, share)
    BY <2>4, CoveredIs DEF IInv
  <2>6. \A q \in Processes : process'[q].todo = process[q].todo
    BY <1>0, <1>1
  <2>7. Divided(S, share)'
    BY <2>5, <2>6 DEF Divided, Present
  <2> QED
    BY <2>5, <2>7
<1> QED
  BY <1>2, CoveredPost, Zenon

\* While the layers are to be read, nothing is claimed.
LEMMA CoveredReading ==
  ASSUME IInv, NEW p \in Processes, NEW r, Becomes(p, r), r.pc = "layers"
  PROVE  Covered'
<1>1. process \in [Processes -> Process]
  BY DEF IInv, InHand
<1>2. process'[p].pc = "layers"
  BY <1>1 DEF Becomes
<1>3. ~Due'
  BY <1>2, Zenon DEF Due
<1> QED
  BY <1>3, CoveredPost, Zenon

LEMMA CoveredUnsettled ==
  ASSUME ~settled'
  PROVE  Covered'
<1>1. ~Due'
  BY Zenon DEF Due
<1> QED
  BY <1>1, CoveredPost, Zenon

LEMMA CoveredDivides ==
  ASSUME IInv, NEW p \in Processes, Divides(p)
  PROVE  Covered'
<1>1. PICK nodes \in ByAge : Becomes(p, Dividing(process[p], Assignment(nodes)))
  BY DEF Divides
<1> DEFINE todo == Assignment(nodes)
<1>2. /\ \A i \in DOMAIN todo : todo[i].node \in Active
      /\ \A n \in Active : \E i \in DOMAIN todo : todo[i].node = n
  BY AssignmentIs DEF Divides
<1>3. PICK share \in [Active -> Ranges] :
        /\ CoversOnce(Active, share)
        /\ \A i \in DOMAIN todo : Has(todo[i].entity, share[todo[i].node])
  BY AssignmentIs DEF Divides
<1> DEFINE r == Dividing(process[p], todo)
<1>4. r.todo = todo
  BY DEF Dividing
<1>5. process \in [Processes -> Process] /\ row' = row /\ fresh' = fresh
  BY DEF IInv, InHand, Divides, still
<1>6. process' = [process EXCEPT ![p] = r]
  BY <1>1 DEF Becomes
<1> HIDE DEF todo, r
<1>7. \A q \in Processes : process'[q] = IF q = p THEN r ELSE process[q]
  BY <1>5, <1>6
<1>8. ASSUME Due' PROVE Divided(Active, share)'
  <2>1. settled'
    BY <1>8, Zenon DEF Due
  <2>2. settled' = \A o \in Processes \ {p} : ~Busy(o)
    BY Zenon DEF Divides
  <2>3. \A o \in Processes \ {p} : process[o].todo = <<>>
    <3>1. \A o \in Processes \ {p} : ~Busy(o)
      BY <2>1, <2>2, Zenon
    <3> QED
      BY <3>1, ProcessIs DEF IInv, Holding, Busy
  <2>4. \A q \in Processes : process'[q].todo = IF q = p THEN todo ELSE <<>>
    BY <1>4, <1>7, <2>3
  <2>5. fresh \subseteq Active /\ \A n \in Active : Present(n)
    BY DEF IInv, Table, Active
  <2>6. Active' = Active
    BY <1>5 DEF Active, Present
  <2> QED
    BY <1>2, <1>3, <1>5, <2>4, <2>5, <2>6 DEF Divided, Present
<1>9. PICK S : S = Active
  OBVIOUS
<1>10. S \in SUBSET Nodes /\ share \in [S -> Ranges]
  BY <1>3, <1>9 DEF Active
<1>11. Active' = Active
  BY <1>5 DEF Active, Present
<1>12. Due' => Divided(S, share)'
  BY <1>8, <1>9, <1>11
<1> QED
  BY <1>10, <1>12, CoveredPost

LEMMA CoveredSaves ==
  ASSUME IInv, NEW p \in Processes, Saves(p)
  PROVE  Covered'
<1>0. process \in [Processes -> Process] /\ process[p].pc = "assign" /\ Busy(p)
  BY DEF IInv, InHand, Saves, Busy
<1> DEFINE todo == process[p].todo
           rest == Tail(todo)
           next == Head(todo)
<1>1. PICK r : /\ Becomes(p, r)
               /\ r.todo = rest
  <2>1. CASE rest = <<>> /\ AfterLayers(p)
    <3>1. PICK r : r = IF p = Cleaner THEN Resting("idle", NoMessage)
                                      ELSE Resting("answer", process[p].msg)
      OBVIOUS
    <3>2. Becomes(p, r)
      BY <2>1, <3>1, AfterLayersIs
    <3>3. r.todo = <<>>
      BY <3>1 DEF Resting
    <3> QED
      BY <2>1, <3>2, <3>3
  <2>2. CASE Becomes(p, Dividing(process[p], rest))
    <3>1. Dividing(process[p], rest).todo = rest
      BY DEF Dividing
    <3> QED
      BY <2>2, <3>1
  <2> QED
    BY <2>1, <2>2 DEF Saves
<1>2. \A q \in Processes : process'[q] = IF q = p THEN r ELSE process[q]
  BY <1>0, <1>1 DEF Becomes
<1>3. ASSUME Due'
      PROVE  \E S \in SUBSET Nodes : \E share \in [S -> Ranges] : Divided(S, share)'
  <2>1. settled
    BY <1>3, Zenon DEF Due, Saves, Fine, history
  <2>2. \A q \in Processes \ {p} : ~Busy(q)
    BY <1>0, <2>1, OthersIdle
  <2>3. \A q \in Processes \ {p} : process[q].todo = <<>> /\ process[q].pc = "idle"
    BY <2>2, ProcessIs DEF IInv, Holding, Busy
  <2>4. \A q \in Processes : process[q].pc # "layers"
    BY <1>0, <2>3
  <2>5. Due
    BY <1>0, <2>1, <2>4, Zenon DEF Due
  <2>6. PICK S, share : S \in SUBSET Nodes /\ share \in [S -> Ranges] /\ Divided(S, share)
    BY <2>5, CoveredIs DEF IInv
  <2>7. /\ 1 \in DOMAIN todo /\ next = todo[1] /\ next.node \in Nodes
        /\ next.entity \in Row /\ next.entity.id # 0 /\ next.entity.id <= ids
        /\ next.entity.weight # 0
        /\ \A i \in DOMAIN rest : i + 1 \in DOMAIN todo /\ rest[i] = todo[i + 1]
        /\ \A i \in DOMAIN todo : i = 1 \/ \E j \in DOMAIN rest : rest[j] = todo[i]
    BY <1>0, ShareIs
  <2>8. /\ row'[next.node] = next.entity
        /\ \A n \in Nodes \ {next.node} : row'[n] = row[n]
        /\ \A n \in Nodes : row'[n].id = row[n].id
    BY <2>1, SavesAlone
  <2>9. fresh' = fresh \/ fresh' = fresh \cup {next.node}
    BY DEF Saves, Store
  <2> HIDE DEF todo, next, rest
  <2>10. \A q \in Processes : process'[q].todo = IF q = p THEN rest ELSE <<>>
    BY <1>1, <1>2, <2>3
  <2>11. /\ S \in SUBSET Nodes /\ fresh \subseteq S /\ \A n \in S : row[n].id # 0
         /\ CoversOnce(S, share)
         /\ \A i \in DOMAIN todo : /\ todo[i].node \in S
                                   /\ Has(todo[i].entity, share[todo[i].node])
         /\ \A n \in S : Has(row[n], share[n]) \/ \E i \in DOMAIN todo : todo[i].node = n
    <3>1. \A n \in S : \/ Has(row[n], share[n])
                       \/ \E q \in Processes : \E i \in DOMAIN process[q].todo :
                            process[q].todo[i].node = n
      BY <2>6 DEF Divided
    <3>2. \A q \in Processes : \A i \in DOMAIN process[q].todo : q = p
      BY <2>3
    <3>3. \A n \in S : Has(row[n], share[n]) \/ \E i \in DOMAIN todo : todo[i].node = n
      BY <3>1, <3>2 DEF todo
    <3> QED
      BY <2>6, <3>3 DEF Divided, Present, todo
  <2>12. next.node \in S /\ Has(next.entity, share[next.node])
    BY <2>7, <2>11
  <2>13. fresh' \subseteq S /\ \A n \in S : row'[n].id # 0
    BY <2>8, <2>9, <2>11, <2>12
  <2>14. \A i \in DOMAIN rest : /\ rest[i].node \in S
                                /\ Has(rest[i].entity, share[rest[i].node])
    BY <2>7, <2>11
  <2>15. \A n \in S : Has(row'[n], share[n]) \/ \E i \in DOMAIN rest : rest[i].node = n
    <3> TAKE n \in S
    <3>1. CASE n = next.node
      BY <2>8, <2>12, <3>1
    <3>2. CASE n # next.node /\ Has(row[n], share[n])
      BY <2>8, <2>11, <3>2
    <3>3. CASE n # next.node /\ \E i \in DOMAIN todo : todo[i].node = n
      BY <2>7, <3>3
    <3> QED
      BY <2>11, <3>1, <3>2, <3>3
  <2>16. Divided(S, share)'
    <3>1. \A q \in Processes : \A i \in DOMAIN process'[q].todo :
            /\ process'[q].todo[i].node \in S
            /\ Has(process'[q].todo[i].entity, share[process'[q].todo[i].node])
      BY <2>10, <2>14
    <3>2. \A n \in S : \/ Has(row'[n], share[n])
                       \/ \E q \in Processes : \E i \in DOMAIN process'[q].todo :
                            process'[q].todo[i].node = n
      BY <2>10, <2>15
    <3> QED
      BY <2>11, <2>13, <3>1, <3>2 DEF Divided, Present
  <2> QED
    BY <2>6, <2>16
<1> QED
  BY <1>3, CoveredPost, Zenon

LEMMA CoveredSaved ==
  ASSUME IInv, NEW p \in Processes, Saved(p)
  PROVE  Covered'
<1>0. process \in [Processes -> Process] /\ process[p].pc \in {"save", "saveAgain"} /\ Busy(p)
  BY DEF IInv, InHand, Saved, Busy
<1> DEFINE m == process[p].msg
           e == process[p].entity
<1>1. /\ m \in Message /\ m.node \in Nodes /\ e \in Row /\ e.weight # 0 /\ e.id <= ids
      /\ m.kind = "ready" => e.id # 0
  BY SavedIs
<1>2. m.kind \in Kinds
  BY <1>1 DEF Message
<1>3. CASE m.kind = "register"
  BY <1>3, CoveredReading DEF Saved, Resting
<1>4. CASE m.kind = "ready"
  <2> DEFINE r == Resting("answer", m)
  <2>1. Becomes(p, r)
    BY <1>4 DEF Saved
  <2>2. r.pc = "answer" /\ r.todo = <<>>
    BY DEF Resting
  <2> HIDE DEF r
  <2>3. \A q \in Processes : process'[q] = IF q = p THEN r ELSE process[q]
    BY <1>0, <2>1 DEF Becomes
  <2>4. ASSUME Due'
        PROVE  \E S \in SUBSET Nodes : \E share \in [S -> Ranges] : Divided(S, share)'
    <3>1. settled /\ m.node \in fresh
      BY <1>4, <2>4, Zenon DEF Due, Saved
    <3>2. (\A q \in Processes \ {p} : ~Busy(q)) /\ Agrees(process[p], row)
      BY <1>0, <3>1, OthersIdle
    <3>3. process[p].todo = <<>> /\ process[p].pc = "save"
      <4>1. Holding(p, process[p], sent, ids) /\ p \in Requests
        BY ProcessIs DEF IInv, Saved
      <4> QED
        BY <1>0, <1>4, <4>1 DEF Holding
    <3>4. row[m.node] \in Row /\ row[m.node].weight # 0
      BY <1>1, <3>1 DEF IInv, Table, Present
    <3>5. e = Changed(row[m.node], m)
      BY <3>2, <3>3 DEF Agrees
    <3>6. e.first = row[m.node].first /\ e.last = row[m.node].last /\ e.id = row[m.node].id
      BY <1>1, <1>4, <3>4, <3>5, ChangedIs
    <3>7. Store(m.node, e, m.kind = "register")
      BY DEF Saved
    <3>8. /\ row'[m.node] = e /\ \A n \in Nodes : n # m.node => row'[n] = row[n]
          /\ fresh' = fresh
      BY <1>1, <1>4, <3>1, <3>7, StoreIs DEF IInv
    <3> HIDE DEF m, e
    <3>9. \A n \in Nodes : /\ row'[n].id = row[n].id /\ row'[n].first = row[n].first
                           /\ row'[n].last = row[n].last
      BY <1>1, <3>6, <3>8
    <3>10. \A q \in Processes : process[q].pc # "layers"
      BY <1>0, <3>2 DEF Busy
    <3>11. Due
      BY <3>1, <3>10, Zenon DEF Due
    <3>12. PICK S, share : S \in SUBSET Nodes /\ share \in [S -> Ranges] /\ Divided(S, share)
      BY <3>11, CoveredIs DEF IInv
    <3>13. \A q \in Processes : process'[q].todo = process[q].todo
      BY <2>2, <2>3, <3>3
    <3>14. Divided(S, share)'
      BY <3>8, <3>9, <3>12, <3>13 DEF Divided, Present, Has
    <3> QED
      BY <3>12, <3>14
  <2> QED
    BY <2>4, CoveredPost, Zenon
<1> QED
  BY <1>2, <1>3, <1>4 DEF Kinds

LEMMA CoveredLeaves ==
  ASSUME IInv, NEW p \in Processes, Leaves(p)
  PROVE  Covered'
<1> DEFINE r == IF p = Cleaner THEN Resting("idle", NoMessage)
                               ELSE Resting("answer", process[p].msg)
<1>0. process \in [Processes -> Process] /\ Busy(p) /\ row' = row /\ fresh' = fresh
  BY DEF IInv, InHand, Leaves, Busy, still
<1>1. Becomes(p, r) /\ r.pc # "assign"
  BY AfterLayersIs DEF Leaves, Resting
<1> HIDE DEF r
<1>2. ASSUME Due' PROVE FALSE
  <2>1. settled
    BY <1>2, Zenon DEF Due, Leaves, Fine, history
  <2>2. (\A q \in Processes \ {p} : ~Busy(q)) /\ Agrees(process[p], row)
    BY <1>0, <2>1, OthersIdle
  <2>3. \A q \in Processes : process'[q].pc # "assign"
    BY <1>0, <1>1, <2>2 DEF Becomes, Busy
  <2>4. fresh # {}
    BY <1>0, <1>2, <2>3, Zenon DEF Due
  <2>5. Active # {}
    BY <2>4 DEF Active, IInv, Table
  <2>6. process[p].pc = "assign" /\ Duplicate(Head(process[p].todo).node, Head(process[p].todo).entity)
    BY <2>5 DEF Leaves
  <2>7. Head(process[p].todo) = process[p].todo[1] /\ 1 \in DOMAIN process[p].todo
    BY <2>6, ShareIs
  <2>8. Head(process[p].todo).entity.id = row[Head(process[p].todo).node].id
    BY <2>2, <2>7 DEF Agrees
  <2> QED
    BY <2>6, <2>8 DEF Duplicate
<1>3. ~Due'
  BY <1>2
<1> QED
  BY <1>3, CoveredPost, Zenon

LEMMA CoveredStep ==
  ASSUME IInv, Steps
  PROVE  Covered'
<1>0. Requests \subseteq Processes /\ Cleaner \in Processes
  BY DEF Processes
<1>1. ASSUME Fine PROVE settled' => settled
  BY <1>1, Zenon DEF Fine, history
<1>2. ASSUME NEW p \in Processes, Failed(p) PROVE Covered'
  BY <1>2, FailedIs, CoveredUnsettled
<1>3. ASSUME NEW p \in Processes, Ended(p) \/ Again(p) \/ Answers(p) PROVE Covered'
  <2>1. \E r : Becomes(p, r) /\ r.pc \notin {"assign", "layers"} /\ r.todo = <<>>
    BY <1>3 DEF Ended, Again, Answers, Resting
  <2>2. Fine /\ row' = row /\ fresh' = fresh /\ process[p].pc \notin {"assign", "layers"}
    BY <1>3 DEF Ended, Again, Answers, still
  <2> QED
    BY <1>1, <2>1, <2>2, CoveredSame
<1>4. ASSUME NEW p \in Processes, Found(p) \/ Reloaded(p) PROVE Covered'
  <2>1. Fine /\ row' = row /\ fresh' = fresh /\ process[p].pc \in {"find", "findAgain"}
    BY <1>4 DEF Found, Reloaded, still
  <2>2. process[p].todo = <<>>
    BY <2>1, ProcessIs DEF IInv, Holding
  <2>3. \E r : Becomes(p, r) /\ r.pc \notin {"assign", "layers"} /\ r.todo = <<>>
    BY <1>4, <2>2 DEF Found, Reloaded, Loads, Loaded
  <2> QED
    BY <1>1, <2>1, <2>3, CoveredSame
<1>5. ASSUME NEW p \in Processes, Skipped(p) PROVE Covered'
  BY <1>5, CoveredReading DEF Skipped, Loaded
<1>6. ASSUME NEW p \in Requests, NEW m \in sent, Admits(p, m) PROVE Covered'
  <2>1. settled' => settled
    BY <1>6, Zenon DEF Admits
  <2>2. row' = row /\ fresh' = fresh /\ process[p].pc = "idle" /\ Becomes(p, Resting("find", m))
    BY <1>6 DEF Admits, still, Busy
  <2>3. Resting("find", m).pc = "find" /\ Resting("find", m).todo = <<>>
    BY DEF Resting
  <2> QED
    BY <1>0, <2>1, <2>2, <2>3, CoveredSame
<1>7. ASSUME FindsStale PROVE Covered'
  <2>1. settled' => settled
    BY <1>7, Zenon DEF FindsStale
  <2>2. /\ row' = row /\ fresh' = fresh /\ process[Cleaner].pc = "idle"
        /\ Becomes(Cleaner, Resting("delete", NoMessage))
    BY <1>7 DEF FindsStale, still, Busy
  <2>3. Resting("delete", NoMessage).pc = "delete" /\ Resting("delete", NoMessage).todo = <<>>
    BY DEF Resting
  <2> QED
    BY <1>0, <2>1, <2>2, <2>3, CoveredSame
<1>8. ASSUME Deletes PROVE Covered'
  <2>1. CASE Becomes(Cleaner, Loaded(process[Cleaner], "layers", process[Cleaner].entity))
    BY <1>0, <2>1, CoveredReading DEF Loaded
  <2>2. CASE Stale = {} /\ Becomes(Cleaner, Resting("idle", NoMessage))
    <3>1. settled' => settled
      BY <1>1, <1>8 DEF Deletes
    <3>2. row' = row /\ fresh' = fresh /\ process[Cleaner].pc = "delete"
      BY <1>8, <2>2 DEF Deletes, IInv, Table
    <3>3. Resting("idle", NoMessage).pc = "idle" /\ Resting("idle", NoMessage).todo = <<>>
      BY DEF Resting
    <3> QED
      BY <1>0, <2>2, <3>1, <3>2, <3>3, CoveredSame
  <2> QED
    BY <1>8, <2>1, <2>2 DEF Deletes
<1>9. ASSUME Restart PROVE Covered'
  <2>1. ~settled'
    BY <1>9, Zenon DEF Restart, Fail
  <2> QED
    BY <2>1, CoveredUnsettled
<1>10. ASSUME NEW n \in Nodes, Touch(n) PROVE Covered'
  <2>1. ~settled'
    BY <1>10, Zenon DEF Touch
  <2> QED
    BY <2>1, CoveredUnsettled
<1>11. ASSUME process' = process, row' = row, fresh' \subseteq fresh, settled' = settled
       PROVE  Covered'
  <2>1. ASSUME Due'
        PROVE  \E S \in SUBSET Nodes : \E share \in [S -> Ranges] : Divided(S, share)'
    <3>1. settled /\ \A q \in Processes : process[q].pc # "layers"
      BY <1>11, <2>1, Zenon DEF Due
    <3>2. fresh' # {} \/ \E q \in Processes : process[q].pc = "assign"
      BY <1>11, <2>1, Zenon DEF Due
    <3>3. fresh # {} \/ \E q \in Processes : process[q].pc = "assign"
      BY <1>11, <3>2
    <3>4. Due
      BY <3>1, <3>3, Zenon DEF Due
    <3>5. PICK S, share : S \in SUBSET Nodes /\ share \in [S -> Ranges] /\ Divided(S, share)
      BY <3>4, CoveredIs DEF IInv
    <3>6. Divided(S, share)'
      BY <1>11, <3>5 DEF Divided, Present
    <3> QED
      BY <3>5, <3>6
  <2> QED
    BY <2>1, CoveredPost, Zenon
<1>12. ASSUME NEW n \in Nodes, Silence(n) PROVE Covered'
  <2>1. process' = process /\ row' = row /\ fresh' \subseteq fresh
    BY <1>12 DEF Silence
  <2>2. settled' = settled
    BY <1>12, Zenon DEF Silence, history
  <2> QED
    BY <1>11, <2>1, <2>2
<1>13. ASSUME NEW n \in Nodes, NEW m \in Message, Signs(n, m) PROVE Covered'
  <2>1. process' = process /\ row' = row /\ fresh' \subseteq fresh
    BY <1>13 DEF Signs
  <2>2. settled' = settled
    BY <1>13, Zenon DEF Signs
  <2> QED
    BY <1>11, <2>1, <2>2
<1> QED
  BY <1>2, <1>3, <1>4, <1>5, <1>6, <1>7, <1>8, <1>9, <1>10, <1>12, <1>13,
     CoveredDivides, CoveredSaves, CoveredSaved, CoveredLeaves DEF Steps

-----------------------------------------------------------------------------
(* Readiness lasts. *)

LEMMA ReadyIs ==
  ASSUME IInv, ~disturbed
  PROVE  Unanswered /\ NoneLater /\ StaysReady
  BY Zenon DEF IInv, ReadyKept

LEMMA ReadyPost ==
  ASSUME ~disturbed' => Unanswered' /\ NoneLater' /\ StaysReady'
  PROVE  ReadyKept'
  BY Zenon DEF ReadyKept

\* A process goes on with its message, and what rows remain are as ready as they were.
LEMMA ReadySame ==
  ASSUME IInv, NEW p \in Processes, NEW r, Becomes(p, r),
         ~disturbed' => ~disturbed,
         UNCHANGED <<seen, clock, sent, answered>>,
         p = Cleaner \/ r.pc = "idle" \/ (Busy(p) /\ r.msg = process[p].msg),
         r.pc = "answer" => r.msg.kind = "register",
         ~disturbed => \A n \in Nodes : row'[n].id # 0 =>
                         row[n].id # 0 /\ row'[n].ready = row[n].ready
  PROVE  ReadyKept'
<1> SUFFICES ASSUME ~disturbed, ~disturbed' PROVE Unanswered' /\ NoneLater' /\ StaysReady'
  BY ReadyPost, Zenon
<1>0. process \in [Processes -> Process] /\ Requests \subseteq Processes
  BY DEF IInv, InHand, Processes
<1>1. Unanswered /\ NoneLater /\ StaysReady
  BY ReadyIs
<1>2. \A q \in Processes : process'[q] = IF q = p THEN r ELSE process[q]
  BY <1>0 DEF Becomes
<1>3. Unanswered'
  BY <1>0, <1>1, <1>2, BoundsAssumption DEF Unanswered, Busy
<1>4. NoneLater'
  BY <1>1 DEF NoneLater, LastReady
<1>5. StaysReady'
  <2> SUFFICES ASSUME NEW m \in sent, m.kind = "ready", m.ts = clock[m.node],
                      row'[m.node].id # 0,
                      \/ answered[m.node] = m.ts
                      \/ \E q \in Processes : process'[q].pc = "answer" /\ process'[q].msg = m
               PROVE  row'[m.node].ready
    BY DEF StaysReady, Present
  <2>1. m.node \in Nodes
    BY DEF IInv, Network, Message
  <2>2. Present(m.node) /\ row'[m.node].ready = row[m.node].ready
    BY <2>1 DEF Present
  <2>3. answered[m.node] = m.ts
        \/ \E q \in Processes : process[q].pc = "answer" /\ process[q].msg = m
    BY <1>2
  <2>4. row[m.node].ready
    BY <1>1, <2>2, <2>3 DEF StaysReady
  <2> QED
    BY <2>2, <2>4
<1> QED
  BY <1>3, <1>4, <1>5

LEMMA ReadySigns ==
  ASSUME IInv, NEW n \in Nodes, NEW m \in Message, Signs(n, m)
  PROVE  ReadyKept'
<1>0. /\ m.node = n /\ (m.kind = "ready" => clock[n] > 0 /\ answered[n] = clock[n])
      /\ sent' = sent \cup {m} /\ m.ts = clock[n] + 1
      /\ UNCHANGED <<row, process, answered, seen>>
  BY DEF Signs
<1>1. /\ m \notin sent /\ clock[n] \in Nat /\ clock'[n] = m.ts
      /\ \A o \in Nodes \ {n} : clock'[o] = clock[o]
      /\ \A o \in sent : o.node = n => o.ts < m.ts
  BY NewMessage
<1>2. ~disturbed' => ~disturbed
  BY Zenon DEF Signs
<1> SUFFICES ASSUME ~disturbed PROVE Unanswered' /\ NoneLater' /\ StaysReady'
  BY <1>2, ReadyPost, Zenon
<1>3. Unanswered /\ NoneLater /\ StaysReady
  BY ReadyIs
<1>4. answered[n] \in Nat /\ answered[n] <= clock[n]
  BY DEF IInv, Network
<1>5. \A o \in sent : o.node \in Nodes /\ o.ts \in Nat
  BY DEF IInv, Network, Message
<1>6. Unanswered'
  BY <1>0, <1>3 DEF Unanswered, Busy
<1>7. NoneLater'
  <2> SUFFICES ASSUME NEW o \in Nodes,
                      LastReady(o)' \/ (answered[o] = clock'[o] /\ clock'[o] > 0),
                      NEW x \in sent', x.node = o, x.kind = "register"
               PROVE  x.ts <= seen["register"][o]
    BY <1>0 DEF NoneLater
  <2>1. CASE o # n
    <3>1. LastReady(o)' => LastReady(o)
      BY <1>0, <1>1, <2>1 DEF LastReady
    <3>2. x \in sent /\ clock'[o] = clock[o]
      BY <1>0, <1>1, <2>1
    <3> QED
      BY <1>3, <3>1, <3>2 DEF NoneLater
  <2>2. CASE o = n
    <3>1. ~(answered[n] = clock'[n])
      BY <1>0, <1>1, <1>4
    <3>2. PICK y \in sent' : y.node = n /\ y.kind = "ready" /\ y.ts = clock'[n]
      BY <2>2, <3>1 DEF LastReady
    <3>3. y = m
      BY <1>0, <1>1, <1>5, <3>2
    <3>4. m.kind = "ready" /\ x \in sent
      BY <1>0, <3>2, <3>3
    <3> QED
      BY <1>0, <1>3, <2>2, <3>4 DEF NoneLater
  <2> QED
    BY <2>1, <2>2
<1>8. StaysReady'
  <2> SUFFICES ASSUME NEW x \in sent', x.kind = "ready", x.ts = clock'[x.node],
                      row[x.node].id # 0,
                      \/ answered[x.node] = x.ts
                      \/ \E q \in Processes : process[q].pc = "answer" /\ process[q].msg = x
               PROVE  row[x.node].ready
    BY <1>0 DEF StaysReady, Present
  <2>1. CASE x.node # n
    <3>1. x \in sent /\ x.node \in Nodes
      BY <1>0, <1>5, <2>1
    <3>2. x.ts = clock[x.node]
      BY <1>1, <2>1, <3>1
    <3> QED
      BY <1>3, <3>1, <3>2 DEF StaysReady, Present
  <2>2. CASE x.node = n
    <3>1. x = m
      BY <1>0, <1>1, <1>5, <2>2
    <3>2. answered[n] # m.ts
      BY <1>0, <1>4, <1>1
    <3>3. PICK q \in Processes : process[q].pc = "answer" /\ process[q].msg = m
      BY <2>2, <3>1, <3>2
    <3>4. q # Cleaner /\ Busy(q)
      BY <3>3, RequestIs, BoundsAssumption
    <3>5. m \in sent
      BY <3>3, <3>4, MessageIs DEF IInv
    <3> QED
      BY <1>1, <3>5
  <2> QED
    BY <2>1, <2>2
<1> QED
  BY <1>6, <1>7, <1>8

LEMMA ReadyAdmits ==
  ASSUME IInv, NEW p \in Requests, NEW m \in sent, Admits(p, m)
  PROVE  ReadyKept'
<1>0. /\ UNCHANGED <<row, seen, clock, sent, answered>> /\ Accepts(m)
      /\ process \in [Processes -> Process] /\ p \in Processes
      /\ process' = [process EXCEPT ![p] = Resting("find", m)]
      /\ Requests \subseteq Processes
  BY DEF Admits, still, IInv, InHand, Processes, Becomes
<1>1. ~disturbed' => ~disturbed
  BY Zenon DEF Admits
<1> SUFFICES ASSUME ~disturbed PROVE Unanswered' /\ NoneLater' /\ StaysReady'
  BY <1>1, ReadyPost, Zenon
<1>2. Unanswered /\ NoneLater /\ StaysReady
  BY ReadyIs
<1>3. \A q \in Processes : process'[q] = IF q = p THEN Resting("find", m) ELSE process[q]
  BY <1>0
<1>4. Resting("find", m).pc = "find" /\ Resting("find", m).msg = m
  BY DEF Resting
<1>5. Unanswered'
  BY <1>0, <1>2, <1>3, <1>4 DEF Unanswered, Busy, Accepts
<1>6. NoneLater'
  BY <1>0, <1>2 DEF NoneLater, LastReady
<1>7. StaysReady'
  BY <1>0, <1>2, <1>3, <1>4 DEF StaysReady, Present
<1> QED
  BY <1>5, <1>6, <1>7

\* While no call fails, a registration at work is not older than the last word of its node.
LEMMA NoOldRegistration ==
  ASSUME IInv, ~disturbed, NEW p \in Requests, Busy(p), process[p].msg.kind = "register"
  PROVE  ~LastReady(process[p].msg.node)
<1>0. p \in Processes /\ p # Cleaner
  BY BoundsAssumption DEF Processes
<1> DEFINE m == process[p].msg
<1>1. m \in sent /\ m.node \in Nodes /\ m.ts \in Nat
  BY <1>0, MessageIs DEF IInv
<1>2. m.ts > seen["register"][m.node]
  BY ReadyIs DEF Unanswered
<1>3. seen["register"][m.node] \in Nat
  BY <1>1 DEF IInv, Network, Kinds
<1>4. LastReady(m.node) => m.ts <= seen["register"][m.node]
  BY <1>1, ReadyIs DEF NoneLater
<1> QED
  BY <1>1, <1>2, <1>3, <1>4

LEMMA ReadySaved ==
  ASSUME IInv, NEW p \in Processes, Saved(p)
  PROVE  ReadyKept'
<1> DEFINE m == process[p].msg
           e == process[p].entity
           r == Resting(IF m.kind = "register" THEN "layers" ELSE "answer", m)
<1>0. /\ UNCHANGED <<seen, clock, sent, answered>> /\ p \in Requests /\ Busy(p)
      /\ process \in [Processes -> Process] /\ Becomes(p, r)
      /\ Requests \subseteq Processes /\ Store(m.node, e, m.kind = "register")
  BY DEF Saved, IInv, InHand, Processes, Busy
<1>1. ~disturbed' => ~disturbed
  BY Zenon DEF Saved
<1> SUFFICES ASSUME ~disturbed PROVE Unanswered' /\ NoneLater' /\ StaysReady'
  BY <1>1, ReadyPost, Zenon
<1>2. Unanswered /\ NoneLater /\ StaysReady
  BY ReadyIs
<1>3. /\ m \in sent /\ m \in Message /\ m.node \in Nodes /\ e \in Row /\ e.weight # 0
      /\ e.id <= ids /\ (m.kind = "ready" => e.ready) /\ m.kind \in Kinds
  BY SavedIs DEF Message
<1>4. /\ \A o \in Nodes : o # m.node => row'[o] = row[o]
      /\ row'[m.node].ready = e.ready
  BY <1>0, <1>3, StoreIs DEF IInv
<1>5. r.msg = m /\ (r.pc = "answer" => m.kind # "register")
  BY DEF Resting
<1>6. m.kind = "register" => ~LastReady(m.node)
  BY <1>0, NoOldRegistration
<1> HIDE DEF m, e, r
<1>7. \A q \in Processes : process'[q] = IF q = p THEN r ELSE process[q]
  BY <1>0 DEF Becomes
<1>8. Unanswered'
  <2>1. process[p].msg = m
    BY DEF m
  <2> QED
    BY <1>0, <1>2, <1>5, <1>7, <2>1 DEF Unanswered, Busy
<1>9. NoneLater'
  BY <1>0, <1>2 DEF NoneLater, LastReady
<1>10. StaysReady'
  <2> SUFFICES ASSUME NEW x \in sent, x.kind = "ready", x.ts = clock[x.node],
                      row'[x.node].id # 0,
                      \/ answered[x.node] = x.ts
                      \/ \E q \in Processes : process'[q].pc = "answer" /\ process'[q].msg = x
               PROVE  row'[x.node].ready
    BY <1>0 DEF StaysReady, Present
  <2>0. x.node \in Nodes /\ LastReady(x.node)
    BY DEF IInv, Network, Message, LastReady
  <2>1. CASE x.node # m.node
    <3>1. row'[x.node] = row[x.node]
      BY <1>4, <2>0, <2>1
    <3>2. \A q \in Processes : process'[q].pc = "answer" /\ process'[q].msg = x =>
            process[q].pc = "answer" /\ process[q].msg = x
      BY <1>5, <1>7, <2>1
    <3> QED
      BY <1>2, <3>1, <3>2 DEF StaysReady, Present
  <2>2. CASE x.node = m.node
    <3>1. m.kind = "ready"
      BY <1>3, <1>6, <2>0, <2>2 DEF Kinds
    <3> QED
      BY <1>3, <1>4, <2>2, <3>1
  <2> QED
    BY <2>1, <2>2
<1> QED
  BY <1>8, <1>9, <1>10

LEMMA ReadyAnswers ==
  ASSUME IInv, NEW p \in Processes, Answers(p)
  PROVE  ReadyKept'
<1> DEFINE m == process[p].msg
<1>0. /\ UNCHANGED <<row, clock, sent>> /\ p \in Requests /\ Busy(p)
      /\ process[p].pc = "answer"
      /\ process \in [Processes -> Process] /\ Becomes(p, Resting("idle", NoMessage))
      /\ Requests \subseteq Processes
  BY DEF Answers, IInv, InHand, Processes, Busy
<1>1. ~disturbed' => ~disturbed
  BY Zenon DEF Answers, Fine, history
<1> SUFFICES ASSUME ~disturbed PROVE Unanswered' /\ NoneLater' /\ StaysReady'
  BY <1>1, ReadyPost, Zenon
<1>2. Unanswered /\ NoneLater /\ StaysReady
  BY ReadyIs
<1>3. /\ m \in sent /\ m.node \in Nodes /\ m.kind \in Kinds /\ m.ts \in Nat
      /\ m.ts <= clock[m.node]
      /\ \A n \in Nodes : answered'[n] = IF n = m.node THEN m.ts ELSE answered[n]
      /\ \A k \in Kinds, n \in Nodes :
           seen'[k][n] = IF k = m.kind /\ n = m.node THEN m.ts ELSE seen[k][n]
  BY AnswersIs
<1>4. \A q \in Processes : process'[q].pc = "idle"
  <2>1. \A q \in Processes \ {p} : process[q].pc = "idle"
    BY <1>0, OthersIdle DEF Busy
  <2> QED
    BY <1>0, <2>1 DEF Becomes, Resting
<1>5. m.kind = "register" => ~LastReady(m.node)
  BY <1>0, NoOldRegistration
<1>6. StaysReady'
  <2> SUFFICES ASSUME NEW x \in sent, x.kind = "ready", x.ts = clock[x.node],
                      row[x.node].id # 0, answered'[x.node] = x.ts
               PROVE  row[x.node].ready
    BY <1>0, <1>4 DEF StaysReady, Present
  <2>0. x.node \in Nodes
    BY DEF IInv, Network, Message
  <2>1. CASE x.node # m.node
    BY <1>2, <1>3, <2>0, <2>1 DEF StaysReady, Present
  <2>2. CASE x.node = m.node
    <3>1. x = m
      BY <1>3, <2>2 DEF IInv, Network
    <3>2. p \in Processes /\ process[p].pc = "answer" /\ process[p].msg = x
      BY <1>0, <3>1
    <3> QED
      BY <1>2, <3>2 DEF StaysReady, Present
  <2> QED
    BY <2>1, <2>2
<1> HIDE DEF m
<1>7. Unanswered'
  BY <1>0, <1>4 DEF Unanswered, Busy
<1>8. NoneLater'
  <2> SUFFICES ASSUME NEW n \in Nodes,
                      LastReady(n) \/ (answered'[n] = clock[n] /\ clock[n] > 0),
                      NEW x \in sent, x.node = n, x.kind = "register"
               PROVE  x.ts <= seen'["register"][n]
    BY <1>0 DEF NoneLater, LastReady
  <2>0. "register" \in Kinds /\ "ready" \in Kinds
    BY DEF Kinds
  <2>1. CASE n # m.node
    BY <1>2, <1>3, <2>0, <2>1 DEF NoneLater
  <2>2. CASE n = m.node /\ m.kind = "ready"
    <3>1. answered'[n] = clock[n] => LastReady(n)
      BY <1>3, <2>2 DEF LastReady
    <3>2. seen'["register"][n] = seen["register"][n]
      BY <1>3, <2>0, <2>2
    <3> QED
      BY <1>2, <3>1, <3>2 DEF NoneLater
  <2>3. CASE n = m.node /\ m.kind = "register"
    <3>1. clock[n] = m.ts /\ seen'["register"][n] = m.ts
      BY <1>3, <1>5, <2>0, <2>3
    <3>2. x.ts <= clock[n]
      BY DEF IInv, Network
    <3> QED
      BY <3>1, <3>2
  <2> QED
    BY <1>3, <2>1, <2>2, <2>3 DEF Kinds
<1> QED
  BY <1>6, <1>7, <1>8

LEMMA ReadyStep ==
  ASSUME IInv, Steps
  PROVE  ReadyKept'
<1>0. Requests \subseteq Processes /\ Cleaner \in Processes
  BY DEF Processes
<1>1. ASSUME Fine PROVE ~disturbed' => ~disturbed
  BY <1>1, Zenon DEF Fine, history
<1>2. ASSUME disturbed' PROVE ReadyKept'
  BY <1>2, ReadyPost, Zenon
<1>3. ASSUME NEW p \in Processes, Failed(p) PROVE ReadyKept'
  BY <1>2, <1>3, FailedIs
<1>4. ASSUME NEW p \in Processes,
             Ended(p) \/ Found(p) \/ Again(p) \/ Reloaded(p) \/ Skipped(p)
      PROVE  ReadyKept'
  <2>1. \E r : Becomes(p, r) /\ r.pc # "answer" /\ (r.pc = "idle" \/ r.msg = process[p].msg)
    BY <1>4 DEF Ended, Found, Again, Reloaded, Skipped, Loads, Loaded, Resting
  <2>2. Fine /\ Busy(p) /\ UNCHANGED <<row, seen, clock, sent, answered>>
    BY <1>4 DEF Ended, Found, Again, Reloaded, Skipped, Busy, still
  <2> QED
    BY <1>1, <2>1, <2>2, ReadySame
<1>5. ASSUME NEW p \in Processes, Divides(p) PROVE ReadyKept'
  <2>1. PICK nodes \in ByAge : Becomes(p, Dividing(process[p], Assignment(nodes)))
    BY <1>5 DEF Divides
  <2>2. \A todo : /\ Dividing(process[p], todo).pc = "assign"
                  /\ Dividing(process[p], todo).msg = process[p].msg
    BY DEF Dividing
  <2>3. Busy(p) /\ UNCHANGED <<row, seen, clock, sent, answered>>
    BY <1>5 DEF Divides, Busy, still
  <2>4. ~disturbed' => ~disturbed
    BY <1>5, Zenon DEF Divides
  <2> QED
    BY <2>1, <2>2, <2>3, <2>4, ReadySame
<1>6. ASSUME NEW p \in Processes, process[p].pc \in {"layers", "assign"}, AfterLayers(p)
      PROVE  \E r : /\ Becomes(p, r) /\ (r.pc = "answer" => r.msg.kind = "register")
                    /\ r.pc = "idle" \/ (Busy(p) /\ r.msg = process[p].msg)
  <2>1. p \in Requests => process[p].msg.kind = "register"
    BY <1>6, ProcessIs DEF IInv, Holding
  <2>2. p \in Requests <=> p # Cleaner
    BY ProcessIs DEF IInv
  <2>3. CASE p = Cleaner
    <3>1. Becomes(p, Resting("idle", NoMessage))
      BY <1>6, <2>3, AfterLayersIs
    <3> QED
      BY <3>1 DEF Resting
  <2>4. CASE p # Cleaner
    <3>1. Becomes(p, Resting("answer", process[p].msg))
      BY <1>6, <2>4, AfterLayersIs
    <3> QED
      BY <1>6, <2>1, <2>2, <2>4, <3>1 DEF Resting, Busy
  <2> QED
    BY <2>3, <2>4
<1>7. ASSUME NEW p \in Processes, Leaves(p) PROVE ReadyKept'
  <2>1. /\ Fine /\ UNCHANGED <<row, seen, clock, sent, answered>> /\ AfterLayers(p)
        /\ process[p].pc \in {"layers", "assign"}
    BY <1>7 DEF Leaves, still
  <2> QED
    BY <1>1, <1>6, <2>1, ReadySame
<1>8. ASSUME NEW p \in Processes, Saves(p) PROVE ReadyKept'
  <2>1. Fine /\ process[p].pc = "assign" /\ UNCHANGED <<seen, clock, sent, answered>> /\ Busy(p)
    BY <1>8 DEF Saves, Busy
  <2>2. \E r : /\ Becomes(p, r) /\ (r.pc = "answer" => r.msg.kind = "register")
               /\ r.pc = "idle" \/ (Busy(p) /\ r.msg = process[p].msg)
    <3>1. CASE AfterLayers(p)
      BY <1>6, <2>1, <3>1
    <3>2. CASE Becomes(p, Dividing(process[p], Tail(process[p].todo)))
      <4>1. /\ Dividing(process[p], Tail(process[p].todo)).pc = "assign"
            /\ Dividing(process[p], Tail(process[p].todo)).msg = process[p].msg
        BY DEF Dividing
      <4> QED
        BY <2>1, <3>2, <4>1
    <3> QED
      BY <1>8, <3>1, <3>2 DEF Saves
  <2>3. ~disturbed => \A n \in Nodes : row'[n].id # 0 =>
                        row[n].id # 0 /\ row'[n].ready = row[n].ready
    BY <1>8, SavesAlone
  <2> QED
    BY <1>1, <2>1, <2>2, <2>3, ReadySame
<1>9. ASSUME FindsStale PROVE ReadyKept'
  <2>1. /\ Becomes(Cleaner, Resting("delete", NoMessage))
        /\ UNCHANGED <<row, seen, clock, sent, answered>>
    BY <1>9 DEF FindsStale, still
  <2>2. ~disturbed' => ~disturbed
    BY <1>9, Zenon DEF FindsStale
  <2>3. Resting("delete", NoMessage).pc = "delete"
    BY DEF Resting
  <2> QED
    BY <1>0, <2>1, <2>2, <2>3, ReadySame
<1>10. ASSUME Deletes PROVE ReadyKept'
  <2>1. \E r : Becomes(Cleaner, r) /\ r.pc # "answer"
    BY <1>10 DEF Deletes, Loaded, Resting
  <2>2. Fine /\ UNCHANGED <<seen, clock, sent, answered>>
    BY <1>10 DEF Deletes
  <2>3. \A n \in Nodes : row'[n].id # 0 => row[n].id # 0 /\ row'[n].ready = row[n].ready
    BY <1>10 DEF Deletes, NoRow
  <2> QED
    BY <1>0, <1>1, <2>1, <2>2, <2>3, ReadySame
<1>11. ASSUME Restart PROVE ReadyKept'
  <2>1. disturbed'
    BY <1>11, Zenon DEF Restart, Fail
  <2> QED
    BY <1>2, <2>1
<1>12. ASSUME NEW n \in Nodes, Silence(n) \/ Touch(n) PROVE ReadyKept'
  <2>1. UNCHANGED <<row, process, seen, clock, sent, answered>>
    BY <1>12 DEF Silence, Touch, agents
  <2>2. ~disturbed' => ~disturbed
    BY <1>12, Zenon DEF Silence, Touch, history
  <2>3. ASSUME ~disturbed' PROVE Unanswered' /\ NoneLater' /\ StaysReady'
    BY <2>1, <2>2, <2>3, ReadyIs
       DEF Unanswered, NoneLater, StaysReady, LastReady, Busy, Present
  <2> QED
    BY <2>3, ReadyPost, Zenon
<1> QED
  BY <1>3, <1>4, <1>5, <1>7, <1>8, <1>9, <1>10, <1>11, <1>12,
     ReadySigns, ReadyAdmits, ReadySaved, ReadyAnswers DEF Steps

-----------------------------------------------------------------------------
(* The theorems. *)

LEMMA Stutter ==
  ASSUME IInv, UNCHANGED vars
  PROVE  IInv'
<1>1. /\ UNCHANGED <<row, fresh, ids, seen, process, clock, sent, answered, faults>>
  BY DEF vars, table, agents
<1>2. disturbed' = disturbed /\ settled' = settled
  BY Zenon DEF vars, history
<1>3. Network' /\ Table' /\ InHand'
  BY <1>1 DEF IInv, Network, Table, InHand, Present
<1>4. Flags'
  BY <1>1, <1>2, Zenon DEF IInv, Flags
<1>5. Alone'
  BY <1>1, <1>2, AloneSame, Zenon
<1>6. Covered'
  <2>1. ASSUME Due'
        PROVE  \E S \in SUBSET Nodes : \E share \in [S -> Ranges] : Divided(S, share)'
    <3>1. Due
      BY <1>1, <1>2, <2>1, Zenon DEF Due
    <3>2. PICK S, share : S \in SUBSET Nodes /\ share \in [S -> Ranges] /\ Divided(S, share)
      BY <3>1, CoveredIs DEF IInv
    <3>3. Divided(S, share)'
      BY <1>1, <3>2 DEF Divided, Present
    <3> QED
      BY <3>2, <3>3
  <2> QED
    BY <2>1, CoveredPost, Zenon
<1>7. ReadyKept'
  <2>1. ASSUME ~disturbed' PROVE Unanswered' /\ NoneLater' /\ StaysReady'
    <3>1. Unanswered /\ NoneLater /\ StaysReady
      BY <1>2, <2>1, ReadyIs, Zenon
    <3> QED
      BY <1>1, <3>1 DEF Unanswered, NoneLater, StaysReady, LastReady, Busy, Present
  <2> QED
    BY <2>1, ReadyPost, Zenon
<1> QED
  BY <1>3, <1>4, <1>5, <1>6, <1>7 DEF IInv

LEMMA InvStep == IInv /\ [Next]_vars => IInv'
<1> SUFFICES ASSUME IInv, [Next]_vars PROVE IInv'
  OBVIOUS
<1>1. CASE Next
  <2>1. Steps
    BY <1>1, StepIs
  <2> QED
    BY <2>1, NetworkStep, TableStep, InHandStep, FlagsStep, AloneStep, CoveredStep, ReadyStep
       DEF IInv
<1>2. CASE UNCHANGED vars
  BY <1>2, Stutter
<1> QED
  BY <1>1, <1>2

\* The rows, the operations between their awaits, the network and the histories agree as
\* said above, whatever registerNode, markReady, assignLayers, removeStaleNodes, failed
\* calls and restarts do.
THEOREM Inductive == Spec => []IInv
<1> QED
  BY InitInv, InvStep, PTL DEF Spec

LEMMA TypeOKIs == IInv => TypeOK
<1> SUFFICES ASSUME IInv PROVE TypeOK
  OBVIOUS
<1>1. Cardinality(sent) \in Nat /\ Cardinality(sent) <= MaxSent
  BY FS_CardinalityType DEF IInv, Network
<1>2. clock \in [Nodes -> 0..MaxSent] /\ answered \in [Nodes -> 0..MaxSent]
  <2>1. clock \in [Nodes -> 0..Cardinality(sent)]
    BY DEF IInv, Network
  <2>2. \A n \in Nodes : clock[n] \in 0..MaxSent
    BY <1>1, <2>1, BoundsAssumption
  <2>3. answered \in [Nodes -> Nat] /\ \A n \in Nodes : answered[n] <= clock[n]
    BY DEF IInv, Network
  <2>4. \A n \in Nodes : answered[n] \in 0..MaxSent
    BY <2>2, <2>3, BoundsAssumption
  <2> QED
    BY <2>1, <2>2, <2>3, <2>4
<1>3. /\ row \in [Nodes -> Row] /\ fresh \subseteq Nodes
      /\ ids \in Nat /\ \A n \in Nodes : row[n].id <= ids
  BY DEF IInv, Table
<1>4. seen \in [Kinds -> [Nodes -> Nat]] /\ sent \subseteq Message
  BY DEF IInv, Network
<1>5. \A p \in Processes :
        /\ process[p].pc \in Stages
        /\ process[p].msg \in Message \cup {NoMessage}
        /\ process[p].entity \in Row
        /\ process[p].todo \in Seq([node: Nodes, entity: Row])
        /\ process[p].pc = "assign" <=> process[p].todo # <<>>
  BY ProcessIs DEF IInv, Holding, Shares
<1>6. history \in BOOLEAN \X BOOLEAN /\ faults \in [FaultKinds -> Nat]
  <2>1. disturbed \in BOOLEAN /\ settled \in BOOLEAN /\ faults \in [FaultKinds -> Nat]
    BY DEF IInv, Flags
  <2> QED
    BY <2>1 DEF history
<1> QED
  BY <1>2, <1>3, <1>4, <1>5, <1>6 DEF TypeOK

\* Whatever overlaps, every row, message, entity between its findOne and its save, and
\* share that assignLayers has yet to save is one that the code could make, and no row
\* has a number that the table has not given.
THEOREM TypeCorrect == Spec => []TypeOK
<1> QED
  BY Inductive, TypeOKIs, PTL

LEMMA CoveredAtRest == IInv => LayersCovered
<1> SUFFICES ASSUME IInv, settled, Quiet, Stale = {}, fresh # {}, NEW l \in 0..Layers - 1
             PROVE  \E n \in Nodes : Holds(n, l) /\ \A o \in Nodes : Holds(o, l) => o = n
  BY Zenon DEF LayersCovered
<1>1. \A p \in Processes : process[p].pc = "idle" /\ process[p].todo = <<>>
  BY ProcessIs DEF IInv, Holding, Quiet, Busy
<1>2. Due
  <2>1. \A p \in Processes : process[p].pc # "layers"
    BY <1>1
  <2> QED
    BY <2>1, Zenon DEF Due
<1>3. PICK S, share : S \in SUBSET Nodes /\ share \in [S -> Ranges] /\ Divided(S, share)
  BY <1>2, CoveredIs DEF IInv
<1>4. \A n \in Nodes : Present(n) <=> n \in S
  BY <1>3 DEF Divided, Stale
<1>5. \A n \in S : Has(row[n], share[n])
  BY <1>1, <1>3 DEF Divided
<1>6. \A n \in Nodes : Holds(n, l) <=> n \in S /\ Inside(l, share[n])
  BY <1>4, <1>5 DEF Holds, Inside, Has
<1>7. PICK n \in S : Inside(l, share[n]) /\ \A o \in S : Inside(l, share[o]) => o = n
  BY <1>3 DEF Divided, CoversOnce
<1> QED
  BY <1>3, <1>6, <1>7

\* At rest, with no node silent, the layers are covered exactly once if assignLayers ran
\* alone when it last split them: for any nodes, capacities and layers, and whatever
\* happened before it.
THEOREM LayersCoveredAlways == Spec => []LayersCovered
<1> QED
  BY Inductive, CoveredAtRest, PTL

LEMMA ReadyIsKept == IInv => ReadyLastsAlone
<1> SUFFICES ASSUME IInv, ~disturbed, NEW m \in sent, m.kind = "ready",
                    m.ts = clock[m.node], answered[m.node] = m.ts, Present(m.node)
             PROVE  row[m.node].ready
  BY Zenon DEF ReadyLastsAlone
<1>1. StaysReady
  BY ReadyIs
<1> QED
  BY <1>1 DEF StaysReady

\* A node whose last word was that it is ready, and which markReady answered so, stays
\* ready whatever older messages come again, which registerNode refuses by timestamp:
\* while operations come one at a time and no call fails.
THEOREM ReadyLasts == Spec => []ReadyLastsAlone
<1> QED
  BY Inductive, ReadyIsKept, PTL

=============================================================================

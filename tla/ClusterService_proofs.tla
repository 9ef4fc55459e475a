------------------------ MODULE ClusterService_proofs ------------------------
(***************************************************************************)
(* For any finite number of nodes, of runs and of operations of            *)
(* PipelineService, any speeds, layers, memory sizes, times and faults:    *)
(* the types of the clusters, that their shares fit, and that the cluster  *)
(* remembered is whole in the table.                                       *)
(***************************************************************************)
EXTENDS ClusterService, LayerSplit_proofs

\* The row of the i-th member of a cluster.
RowOf(id, members, i) ==
  [cluster |-> id, mode |-> IF i = 1 THEN "coordinator" ELSE "rpc-server",
   first |-> LayersUpTo(members)[i - 1], last |-> LayersUpTo(members)[i]]

\* The members of a cluster: at least one, each once.
IsTeam(members) ==
  members \in Seq(Nodes) /\ Len(members) > 0 /\ IsInjective(members)

JobState == [pc: Stages, nodes: SUBSET Nodes, id: Ids \cup {0}, members: Seq(Nodes),
             written: Nat]

Forms(j) == job[j].pc = "upsert"

PipeState == [pc: Phases, todo: Seq(Nodes), entity: [Nodes -> Row]]

Types ==
  /\ eligible \in SUBSET Nodes
  /\ row \in [Nodes -> Row] /\ rewritten \in SUBSET Nodes
  /\ \A n \in Nodes \ rewritten : row[n].last <= Layers
  /\ oldest \in Entry \cup {NoCluster} /\ newest \in Entry \cup {NoCluster}
  /\ oldest = NoCluster <=> newest = NoCluster
  /\ offline \in [Nodes -> 0..Grace \cup {Never}]
  /\ job \in [Jobs -> JobState]
  /\ pipe \in [Operations -> PipeState]
  /\ \A o \in Operations : pipe[o].pc \in {"register", "save"} => pipe[o].todo # <<>>
  /\ disturbed \in BOOLEAN
  /\ faults \in [FaultKinds -> Nat]

\* Only a run that forms a cluster has a new id, which no other run has, and members.
Forming ==
  /\ \A j \in Jobs : IF Forms(j)
                     THEN /\ job[j].id # 0 /\ IsTeam(job[j].members)
                          /\ job[j].written < Len(job[j].members)
                     ELSE job[j].id = 0 /\ job[j].written = 0
  /\ \A j, k \in Jobs : Forms(j) /\ Forms(k) /\ job[j].id = job[k].id => j = k

\* PipelineService aside, no row has the id of a cluster being formed, but those
\* already written.
Own ==
  \A j \in Jobs, n \in Nodes \ rewritten : Forms(j) /\ row[n].cluster = job[j].id =>
    \E k \in 1..job[j].written :
      n = job[j].members[k] /\ row[n] = RowOf(job[j].id, job[j].members, k)

\* The row of a node, or a copy of it that is still to be saved, has this id.
Named(id, n) ==
  row[n].cluster = id \/ \E o \in Operations : pipe[o].entity[n].cluster = id

\* Only members have the id of a cluster that is being formed, or of the newest one.
Kept ==
  /\ \A j \in Jobs, n \in Nodes :
       Forms(j) /\ Named(job[j].id, n) => n \in Range(job[j].members)
  /\ newest # NoCluster =>
       /\ IsTeam(newest.members)
       /\ \A n \in Nodes : Named(newest.id, n) => n \in Range(newest.members)
       /\ \A j \in Jobs : Forms(j) => job[j].id # newest.id

\* The rows of the first members of a cluster are there, but those PipelineService
\* has changed.
InTable(id, members, n) ==
  \A k \in 1..n : members[k] \notin rewritten => row[members[k]] = RowOf(id, members, k)

\* Undisturbed, there is one run at most, what it has written stays, and until it writes
\* the newest cluster remembered is in the table.
Whole ==
  ~disturbed =>
    /\ \A j, k \in Jobs : job[j].pc # "idle" /\ job[k].pc # "idle" => j = k
    /\ \A j \in Jobs : InTable(job[j].id, job[j].members, job[j].written)
    /\ newest # NoCluster /\ (\A j \in Jobs : job[j].written = 0) =>
         InTable(newest.id, newest.members, Len(newest.members))

IInv == Types /\ Forming /\ Own /\ SharesFit /\ Kept /\ Whole

-----------------------------------------------------------------------------
(* The layers of the members. *)

\* What one more member brings to the layers given so far.
Given(members, i, x) ==
  LET left == Layers - x
  IN  x + Capped(IF i = Len(members) THEN left ELSE Portion(members, i, left))

IsUpTo(f, members, n) ==
  f = [i \in 0..n |-> IF i = 0 THEN 0 ELSE Given(members, i, f[i - 1])]

LEMMA UpToExists ==
  ASSUME NEW members
  PROVE  \A n \in Nat : \E f : IsUpTo(f, members, n)
<1> DEFINE S == {n \in Nat : \E f : IsUpTo(f, members, n)}
<1>1. 0 \in S
  <2> DEFINE f == [i \in 0..0 |-> 0]
  <2>1. IsUpTo(f, members, 0)
    BY DEF IsUpTo
  <2> QED
    BY <2>1
<1>2. ASSUME NEW n \in Nat, n \in S PROVE n + 1 \in S
  <2>1. PICK f : IsUpTo(f, members, n)
    BY <1>2
  <2> DEFINE g == [i \in 0..n + 1 |-> IF i = n + 1 THEN Given(members, n + 1, f[n]) ELSE f[i]]
  <2>2. \A i \in 0..n : f[i] = IF i = 0 THEN 0 ELSE Given(members, i, f[i - 1])
    BY <2>1 DEF IsUpTo
  <2>3. \A i \in 0..n + 1 : g[i] = IF i = 0 THEN 0 ELSE Given(members, i, g[i - 1])
    BY <2>2
  <2>4. g = [i \in 0..n + 1 |-> g[i]]
    OBVIOUS
  <2> HIDE DEF g
  <2>5. IsUpTo(g, members, n + 1)
    BY <2>3, <2>4 DEF IsUpTo
  <2> QED
    BY <2>5
<1> HIDE DEF S
<1>3. Nat \subseteq S
  BY <1>1, <1>2, NatInd
<1> QED
  BY <1>3 DEF S

LEMMA UpToIs ==
  ASSUME NEW members \in Seq(Nodes)
  PROVE  \A i \in 0..Len(members) :
           LayersUpTo(members)[i] =
             IF i = 0 THEN 0 ELSE Given(members, i, LayersUpTo(members)[i - 1])
<1> DEFINE f == LayersUpTo(members)
<1>0. Len(members) \in Nat
  OBVIOUS
<1>1. \E g : IsUpTo(g, members, Len(members))
  BY <1>0, UpToExists
<1>2. f = CHOOSE g : IsUpTo(g, members, Len(members))
  BY Zenon DEF LayersUpTo, IsUpTo, Given
<1>3. IsUpTo(f, members, Len(members))
  BY <1>1, <1>2, Zenon
<1> HIDE DEF f
<1>4. \A i \in 0..Len(members) : f[i] = IF i = 0 THEN 0 ELSE Given(members, i, f[i - 1])
  BY <1>3 DEF IsUpTo
<1> QED
  BY <1>4 DEF f

LEMMA CapNat == MemoryCap \in Nat
<1> DEFINE a == NodeMemory * Layers
<1>1. a \in Nat /\ Required \in Nat /\ Required > 0
  BY ClusterAssumption
<1> HIDE DEF a
<1>2. a \div Required \in Nat
  BY <1>1
<1> QED
  BY <1>2 DEF MemoryCap, a

LEMMA PortionIs ==
  ASSUME NEW members \in Seq(Nodes), NEW i \in 1..Len(members), NEW left \in Nat
  PROVE  Portion(members, i, left) \in 0..left
<1> DEFINE weights == [k \in DOMAIN members |-> Weight(members[k])]
           total == Sum(weights)[Len(members)]
<1>1. Len(members) \in Nat \ {0} /\ DOMAIN members = 1..Len(members)
  OBVIOUS
<1>2. \A n \in Nodes : Weight(n) \in Nat \ {0}
  BY ClusterAssumption DEF Weight
<1>3. weights \in [1..Len(members) -> Nat \ {0}] /\ Len(weights) = Len(members)
  BY <1>1, <1>2
<1> HIDE DEF weights
<1>4. total \in Nat \ {0}
  BY <1>1, <1>3, SumPositive
<1> HIDE DEF total
<1>5. Weight(members[i]) \in Nat
  BY <1>1, <1>2
<1>6. PICK product \in Nat : product = Layers * Weight(members[i])
  BY <1>5, ClusterAssumption
<1>7. Round(product, total) \in Nat
  BY <1>4, RoundNat
<1>8. Portion(members, i, left) = Smaller(Larger(1, Round(Layers * Weight(members[i]), total)), left)
  BY Zenon DEF Portion, total, weights
<1> QED
  BY <1>6, <1>7, <1>8 DEF Smaller, Larger

\* One member more: no more layers than are left, and than its memory holds; the last
\* member has all that are left, if its memory holds them.
LEMMA GivenIs ==
  ASSUME NEW members \in Seq(Nodes), NEW i \in 1..Len(members), NEW x \in 0..Layers
  PROVE  LET y == Given(members, i, x)
         IN  /\ y \in x..Layers /\ y - x <= Larger(1, MemoryCap)
             /\ i = Len(members) => y = Layers \/ y - x = Larger(1, MemoryCap)
<1> DEFINE left == Layers - x
           count == IF i = Len(members) THEN left ELSE Portion(members, i, left)
<1>1. left \in Nat /\ Layers \in Nat /\ x \in Nat /\ left = Layers - x
  BY ClusterAssumption
<1> HIDE DEF left
<1>2. count \in 0..left /\ (i = Len(members) => count = left)
  BY <1>1, PortionIs
<1>3. Given(members, i, x) = x + Capped(count)
  BY DEF Given, left
<1> HIDE DEF count
<1>4. /\ Capped(count) \in 0..left /\ Capped(count) <= Larger(1, MemoryCap)
      /\ Capped(count) = count \/ Capped(count) = Larger(1, MemoryCap)
  BY <1>1, <1>2, CapNat DEF Capped, Larger
<1>5. Larger(1, MemoryCap) \in Nat
  BY CapNat DEF Larger
<1> QED
  BY <1>1, <1>2, <1>3, <1>4, <1>5

\* The shares of a cluster are ranges of the layers, one after the other, within the
\* memory; and they end with the last layer or with what the last member can hold.
THEOREM UpToGrows ==
  ASSUME NEW members \in Seq(Nodes)
  PROVE  LET up == LayersUpTo(members)
             n  == Len(members)
         IN  /\ up[0] = 0 /\ \A i \in 0..n : up[i] \in 0..Layers
             /\ \A i \in 1..n : up[i] - up[i - 1] <= Larger(1, MemoryCap)
             /\ \A i, k \in 0..n : i <= k => up[i] <= up[k]
             /\ n > 0 => up[n] = Layers \/ up[n] - up[n - 1] = Larger(1, MemoryCap)
<1> DEFINE up == LayersUpTo(members)
           n == Len(members)
<1>0. \A i \in 0..n : up[i] = IF i = 0 THEN 0 ELSE Given(members, i, up[i - 1])
  BY UpToIs
<1> HIDE DEF up
<1>1. n \in Nat /\ Layers \in Nat
  BY ClusterAssumption
<1> HIDE DEF n
<1>2. up[0] = 0
  BY <1>0, <1>1
<1> DEFINE S == {k \in Nat : k <= n => \A i \in 0..k : up[i] \in 0..Layers /\ up[i] <= up[k]}
<1>3. 0 \in S
  BY <1>1, <1>2
<1>4. ASSUME NEW k \in Nat, k \in S PROVE k + 1 \in S
  <2> SUFFICES ASSUME k + 1 <= n
               PROVE  \A i \in 0..k + 1 : up[i] \in 0..Layers /\ up[i] <= up[k + 1]
    OBVIOUS
  <2>1. k + 1 \in 1..n /\ k + 1 \in 0..n /\ k <= n
    BY <1>1
  <2>2. up[k] \in 0..Layers
    BY <1>4, <2>1
  <2>3. up[k + 1] = Given(members, k + 1, up[k])
    BY <1>0, <2>1
  <2>4. up[k + 1] \in up[k]..Layers
    BY <2>1, <2>2, <2>3, GivenIs DEF n
  <2>5. ASSUME NEW i \in 0..k PROVE up[i] \in 0..Layers /\ up[i] <= up[k + 1]
    BY <1>1, <1>4, <2>1, <2>2, <2>4
  <2> QED
    BY <1>1, <2>2, <2>4, <2>5
<1> HIDE DEF S
<1>5. Nat \subseteq S
  BY <1>3, <1>4, NatInd
<1>6. \A k \in 0..n : \A i \in 0..k : up[i] \in 0..Layers /\ up[i] <= up[k]
  <2> TAKE k \in 0..n
  <2>1. k \in Nat /\ k <= n /\ k \in S
    BY <1>1, <1>5
  <2> QED
    BY <2>1 DEF S
<1>7. \A i, k \in 0..n : i <= k => i \in 0..k
  BY <1>1
<1>8. \A i \in 1..n : /\ up[i] - up[i - 1] <= Larger(1, MemoryCap)
                      /\ i = n => up[i] = Layers \/ up[i] - up[i - 1] = Larger(1, MemoryCap)
  <2> TAKE i \in 1..n
  <2>1. i \in 0..n /\ i # 0 /\ i - 1 \in 0..n
    BY <1>1
  <2>2. up[i - 1] \in 0..Layers /\ up[i] = Given(members, i, up[i - 1])
    BY <1>0, <1>6, <2>1
  <2> QED
    BY <2>2, GivenIs DEF n
<1>9. \A i \in 0..n : up[i] \in 0..Layers
  BY <1>1, <1>6
<1>10. n > 0 => n \in 1..n
  BY <1>1
<1> QED
  BY <1>2, <1>6, <1>7, <1>8, <1>9, <1>10 DEF up, n

-----------------------------------------------------------------------------
(* Members, ids and runs. *)

LEMMA NeededIs == Needed \in 1..Required
<1> DEFINE T == {k \in Nat : k * NodeMemory >= Required}
<1>0. NodeMemory \in Nat /\ NodeMemory >= 1 /\ Required \in Nat /\ Required > 0
  BY ClusterAssumption
<1>1. Required \in T
  <2>1. Required * NodeMemory >= Required
    BY <1>0
  <2> QED
    BY <1>0, <2>1
<1>2. PICK k \in T : \A o \in T : k <= o
  BY <1>1, LeastNat
<1>3. k \in Nat /\ k * NodeMemory >= Required /\ k <= Required
  BY <1>1, <1>2
<1>4. k # 0
  BY <1>0, <1>3
<1>5. k - 1 \in Nat /\ k - 1 \notin T
  BY <1>2, <1>3, <1>4
<1>6. ~((k - 1) * NodeMemory >= Required)
  BY <1>5
<1>7. (k - 1) * NodeMemory < Required
  <2>1. (k - 1) * NodeMemory \in Nat
    BY <1>0, <1>5
  <2> QED
    BY <1>0, <1>6, <2>1
<1> HIDE DEF T
<1>8. k \in 1..Required /\ k * NodeMemory >= Required /\ (k - 1) * NodeMemory < Required
  BY <1>0, <1>3, <1>4, <1>7
<1> QED
  BY <1>8 DEF Needed

\* Whoever is selected, it is a team.
LEMMA SelectionsIs ==
  ASSUME NEW nodes \in SUBSET Nodes, NEW members \in Selections(nodes)
  PROVE  IsTeam(members)
<1>1. members \in [1..Needed -> nodes] /\ IsInjective(members)
  BY DEF Selections, Injection
<1>2. Needed \in Nat /\ Needed > 0
  BY NeededIs, ClusterAssumption
<1> HIDE DEF Needed
<1>3. members \in Seq(Nodes) /\ Len(members) = Needed
  BY <1>1, <1>2
<1> QED
  BY <1>1, <1>2, <1>3 DEF IsTeam

\* The ids in use are images of nodes, runs and pairs of an operation and a node, and
\* two more.
LEMMA UnionIs ==
  ASSUME NEW S, NEW T, IsFiniteSet(S), IsFiniteSet(T)
  PROVE  /\ IsFiniteSet(S \cup T) /\ Cardinality(S \cup T) \in Nat
         /\ Cardinality(S \cup T) <= Cardinality(S) + Cardinality(T)
<1>1. IsFiniteSet(S \cap T) /\ Cardinality(S \cap T) \in Nat
  BY FS_Intersection, FS_CardinalityType
<1>2. /\ IsFiniteSet(S \cup T)
      /\ Cardinality(S \cup T) = Cardinality(S) + Cardinality(T) - Cardinality(S \cap T)
  BY FS_Union
<1>3. Cardinality(S) \in Nat /\ Cardinality(T) \in Nat /\ Cardinality(S \cup T) \in Nat
  BY <1>2, FS_CardinalityType
<1> QED
  BY <1>1, <1>2, <1>3

\* There is an id that nobody has.
LEMMA FreshIdIs == FreshId \in Ids /\ FreshId \notin Used
<1> DEFINE A == {row[n].cluster : n \in Nodes}
           B == {job[k].id : k \in Jobs}
           C == {c.id : c \in {oldest, newest} \ {NoCluster}}
           D == {oldest.id, newest.id}
           P == Operations \X Nodes
           E == {pipe[o].entity[n].cluster : o \in Operations, n \in Nodes}
           f == [n \in Nodes |-> row[n].cluster]
           g == [k \in Jobs |-> job[k].id]
           h == [p \in P |-> pipe[p[1]].entity[p[2]].cluster]
           nodes == Cardinality(Nodes)
           jobs == Cardinality(Jobs)
           pairs == Cardinality(P)
<1>0. /\ nodes \in Nat /\ jobs \in Nat /\ IsFiniteSet(Nodes) /\ IsFiniteSet(Jobs)
      /\ IsFiniteSet(Operations) /\ Cardinality(Operations) \in Nat
  BY ClusterAssumption, FS_CardinalityType
<1>1. IsFiniteSet(P) /\ pairs \in Nat /\ pairs = Cardinality(Operations) * nodes
  BY <1>0, FS_Product, FS_CardinalityType
<1>2. IsFiniteSet(A) /\ Cardinality(A) <= nodes
  <2>1. f \in Surjection(Nodes, A)
    BY DEF Surjection
  <2> QED
    BY <1>0, <2>1, FS_Surjection
<1>3. IsFiniteSet(B) /\ Cardinality(B) <= jobs
  <2>1. g \in Surjection(Jobs, B)
    BY DEF Surjection
  <2> QED
    BY <1>0, <2>1, FS_Surjection
<1>4. IsFiniteSet(C) /\ Cardinality(C) <= 2
  <2>1. IsFiniteSet({oldest.id}) /\ Cardinality({oldest.id}) = 1
    BY FS_Singleton
  <2>2. D = {oldest.id} \cup {newest.id}
    OBVIOUS
  <2>3. IsFiniteSet(D) /\ (Cardinality(D) = 1 \/ Cardinality(D) = 2)
    BY <2>1, <2>2, FS_AddElement
  <2>4. C \in SUBSET D
    OBVIOUS
  <2>5. IsFiniteSet(C) /\ Cardinality(C) <= Cardinality(D) /\ Cardinality(C) \in Nat
    BY <2>3, <2>4, FS_Subset, FS_CardinalityType
  <2> QED
    BY <2>3, <2>5
<1>5. IsFiniteSet(E) /\ Cardinality(E) <= pairs
  <2>1. \A p \in P : p[1] \in Operations /\ p[2] \in Nodes
    OBVIOUS
  <2>2. ASSUME NEW e \in E PROVE \E p \in P : h[p] = e
    <3>1. PICK o \in Operations, n \in Nodes : e = pipe[o].entity[n].cluster
      OBVIOUS
    <3>2. <<o, n>> \in P /\ h[<<o, n>>] = e
      BY <3>1
    <3> QED
      BY <3>2
  <2>3. h \in [P -> E]
    BY <2>1
  <2> HIDE DEF h, P, E
  <2>4. h \in Surjection(P, E)
    BY <2>2, <2>3 DEF Surjection
  <2> QED
    BY <1>1, <2>4, FS_Surjection
<1>6. Used = ((A \cup B) \cup C) \cup E
  BY DEF Used
<1> HIDE DEF A, B, C, D, E, P, f, g, h
<1>7. /\ Cardinality(A) \in Nat /\ Cardinality(B) \in Nat /\ Cardinality(C) \in Nat
      /\ Cardinality(E) \in Nat
  BY <1>2, <1>3, <1>4, <1>5, FS_CardinalityType
<1>8. /\ IsFiniteSet(A \cup B) /\ Cardinality(A \cup B) \in Nat
      /\ Cardinality(A \cup B) <= nodes + jobs
  BY <1>0, <1>2, <1>3, <1>7, UnionIs
<1> DEFINE X == A \cup B
           Y == X \cup C
<1>9. IsFiniteSet(X) /\ Cardinality(X) \in Nat /\ Cardinality(X) <= nodes + jobs
  BY <1>8
<1> HIDE DEF X
<1>10. IsFiniteSet(Y) /\ Cardinality(Y) \in Nat /\ Cardinality(Y) <= nodes + jobs + 2
  BY <1>0, <1>4, <1>7, <1>9, UnionIs
<1>11. Used = Y \cup E
  BY <1>6 DEF X
<1> HIDE DEF Y, nodes, jobs, pairs
<1>12. /\ IsFiniteSet(Used) /\ Cardinality(Used) \in Nat
       /\ Cardinality(Used) <= nodes + jobs + 2 + pairs
  BY <1>0, <1>1, <1>5, <1>7, <1>10, <1>11, UnionIs
<1> DEFINE top == nodes * (Cardinality(Operations) + 1) + jobs + 3
           free == Ids \ Used
<1>13. top = nodes + jobs + pairs + 3
  BY <1>0, <1>1
<1>14. Ids = 1..top
  BY DEF Ids, nodes, jobs
<1> HIDE DEF top
<1>15. top \in Nat /\ top > 0 /\ Cardinality(Used) < top
  BY <1>0, <1>1, <1>12, <1>13
<1>16. Cardinality(Ids) = top
  BY <1>14, <1>15, FS_Interval
<1>17. free # {} /\ free \subseteq Nat
  <2>1. ASSUME Ids \subseteq Used PROVE FALSE
    <3>1. Cardinality(Ids) <= Cardinality(Used)
      BY <1>12, <2>1, FS_Subset
    <3> QED
      BY <1>12, <1>15, <1>16, <3>1
  <2> QED
    BY <1>14, <1>15, <2>1
<1>18. FreshId = CHOOSE id \in free : \A other \in free : id <= other
  BY Zenon DEF FreshId
<1> HIDE DEF free
<1>19. \E id \in free : \A other \in free : id <= other
  BY <1>17, LeastNat
<1>20. FreshId \in free
  BY <1>18, <1>19, Zenon
<1> QED
  BY <1>20 DEF free

LEMMA RowOfIs ==
  ASSUME NEW id \in Ids, NEW members \in Seq(Nodes), NEW i \in 1..Len(members)
  PROVE  /\ RowOf(id, members, i) \in Row /\ RowOf(id, members, i).cluster = id
         /\ RowOf(id, members, i).last <= Layers
         /\ RowOf(id, members, i).first = LayersUpTo(members)[i - 1]
         /\ RowOf(id, members, i).last = LayersUpTo(members)[i]
         /\ RowOf(id, members, i).mode = IF i = 1 THEN "coordinator" ELSE "rpc-server"
<1>1. i \in 0..Len(members) /\ i - 1 \in 0..Len(members)
  OBVIOUS
<1>2. LayersUpTo(members)[i - 1] \in 0..Layers /\ LayersUpTo(members)[i] \in 0..Layers
  BY <1>1, UpToGrows
<1> QED
  BY <1>2, ClusterAssumption DEF RowOf, Row, Modes

\* Run j becomes r.
Becomes(j, r) == job' = [job EXCEPT ![j] = r]

LEMMA IdleIs == /\ Idle \in JobState /\ Idle.pc = "idle" /\ Idle.id = 0 /\ Idle.written = 0
  BY DEF Idle, JobState, Stages

LEMMA DecidingIs ==
  ASSUME NEW nodes \in SUBSET Nodes
  PROVE  LET r == Deciding(nodes)
         IN  r \in JobState /\ r.pc = "decide" /\ r.id = 0 /\ r.written = 0
  BY DEF Deciding, JobState, Stages

LEMMA WritingIs ==
  ASSUME NEW id \in Ids, NEW members \in Seq(Nodes), NEW written \in Nat
  PROVE  LET r == Writing(id, members, written)
         IN  /\ r \in JobState /\ r.pc = "upsert" /\ r.id = id /\ r.members = members
             /\ r.written = written
  BY DEF Writing, JobState, Stages

LEMMA DecideIs ==
  ASSUME IInv, NEW j \in Jobs, Decide(j)
  PROVE  \/ Becomes(j, Idle)
         \/ \E members : IsTeam(members) /\ Becomes(j, Writing(FreshId, members, 0))
<1>1. job[j].nodes \in SUBSET Nodes
  BY DEF IInv, Types, JobState
<1>2. CASE Stop(j)
  BY <1>2 DEF Stop, Becomes
<1>3. CASE \E members \in Selections(job[j].nodes) :
             job' = [job EXCEPT ![j] = Writing(FreshId, members, 0)]
  <2>1. PICK members \in Selections(job[j].nodes) : Becomes(j, Writing(FreshId, members, 0))
    BY <1>3 DEF Becomes
  <2> QED
    BY <1>1, <2>1, SelectionsIs
<1> QED
  BY <1>2, <1>3, Zenon DEF Decide

\* What a run that forms a cluster writes.
LEMMA UpsertIs ==
  ASSUME IInv, NEW j \in Jobs, Upsert(j)
  PROVE  LET id      == job[j].id
             members == job[j].members
             i       == job[j].written + 1
         IN  /\ Forms(j) /\ id \in Ids /\ IsTeam(members) /\ i \in 1..Len(members)
             /\ members[i] \in Nodes /\ job[j].written \in Nat
             /\ row' = [row EXCEPT ![members[i]] = RowOf(id, members, i)]
             /\ rewritten' = rewritten \ {members[i]} /\ pipe' = pipe
             /\ \/ i = Len(members) /\ Remember(j) /\ Becomes(j, Idle)
                \/ /\ i # Len(members) /\ UNCHANGED <<oldest, newest>>
                   /\ Becomes(j, Writing(id, members, i))
<1> DEFINE r == job[j]
           i == r.written + 1
<1>1. Forms(j) /\ job \in [Jobs -> JobState]
  BY DEF Upsert, Forms, IInv, Types
<1>2. r \in JobState /\ r.id \in Ids /\ r.written \in Nat /\ r.members \in Seq(Nodes)
  BY <1>1 DEF JobState, IInv, Forming
<1>3. IsTeam(r.members) /\ r.written < Len(r.members)
  BY <1>1 DEF IInv, Forming
<1>4. i \in 1..Len(r.members) /\ r.members[i] \in Nodes
  BY <1>2, <1>3
<1>5. /\ row' = [row EXCEPT ![r.members[i]] = RowOf(r.id, r.members, i)]
      /\ rewritten' = rewritten \ {r.members[i]} /\ pipe' = pipe
  BY DEF Upsert, MemberRow, RowOf
<1>6. CASE i = Len(r.members)
  <2>1. Remember(j) /\ Becomes(j, Idle)
    BY <1>6 DEF Upsert, Stop, Becomes
  <2> QED
    BY <1>1, <1>2, <1>3, <1>4, <1>5, <1>6, <2>1
<1>7. CASE i # Len(r.members)
  <2>1. Becomes(j, Writing(r.id, r.members, i)) /\ UNCHANGED <<oldest, newest>>
    BY <1>7 DEF Upsert, Becomes
  <2> QED
    BY <1>1, <1>2, <1>3, <1>4, <1>5, <1>7, <2>1
<1> QED
  BY <1>6, <1>7
-----------------------------------------------------------------------------
(* Initially. *)

LEMMA NoRowIs == NoRow \in Row /\ NoRow.cluster = 0 /\ NoRow.last <= Layers
  BY ClusterAssumption DEF NoRow, Row, Modes

LEMMA NoCopiesIs ==
  NoCopies \in [Nodes -> Row] /\ \A n \in Nodes : NoCopies[n].cluster = 0
  BY NoRowIs DEF NoCopies

LEMMA RestingIs ==
  /\ Resting \in PipeState /\ Resting.pc = "idle" /\ Resting.entity = NoCopies
  BY NoCopiesIs DEF Resting, PipeState, Phases

LEMMA SplittingIs ==
  /\ Splitting \in PipeState /\ Splitting.pc = "layers" /\ Splitting.entity = NoCopies
  BY NoCopiesIs DEF Splitting, PipeState, Phases

LEMMA SavingIs ==
  ASSUME NEW phase \in Phases, NEW todo \in Seq(Nodes), NEW entity \in [Nodes -> Row]
  PROVE  LET r == Saving(phase, todo, entity)
         IN  r \in PipeState /\ r.pc = phase /\ r.todo = todo /\ r.entity = entity
  BY DEF Saving, PipeState

LEMMA InitInv == Init => IInv
<1> SUFFICES ASSUME Init PROVE IInv
  OBVIOUS
<1>1. NoRow \in Row /\ NoRow.cluster = 0
  BY ClusterAssumption DEF NoRow, Row, Modes
<1>2. row \in [Nodes -> Row] /\ \A n \in Nodes : row[n] = NoRow
  BY <1>1 DEF Init
<1>3. job \in [Jobs -> JobState] /\ \A j \in Jobs : job[j] = Idle
  BY IdleIs DEF Init
<1>4. pipe \in [Operations -> PipeState] /\ \A o \in Operations : pipe[o] = Resting
  BY RestingIs DEF Init
<1>5. Types
  <2>1. \A o \in Operations : pipe[o].pc = "idle"
    BY <1>4, RestingIs
  <2>2. \A n \in Nodes : row[n].last <= Layers
    BY <1>2, ClusterAssumption DEF NoRow
  <2>3. faults \in [FaultKinds -> Nat] /\ rewritten = {}
    BY ClusterAssumption DEF Init
  <2> QED
    BY <1>2, <1>3, <1>4, <2>1, <2>2, <2>3 DEF Init, Types
<1>6. \A j \in Jobs : job[j].pc = "idle" /\ job[j].id = 0 /\ job[j].written = 0
  BY <1>3, IdleIs
<1>7. newest = NoCluster
  BY DEF Init
<1>8. Forming
  BY <1>6 DEF Forming, Forms
<1>9. Own
  BY <1>6 DEF Own, Forms
<1>10. SharesFit
  BY <1>1, <1>2 DEF SharesFit
<1>11. Kept
  BY <1>6, <1>7 DEF Kept, Forms
<1>12. Whole
  BY <1>6, <1>7 DEF Whole, InTable
<1> QED
  BY <1>5, <1>8, <1>9, <1>10, <1>11, <1>12 DEF IInv

-----------------------------------------------------------------------------
(* One run moves on, and no row changes. *)

LEMMA BecomesIs ==
  ASSUME Types, NEW j \in Jobs, NEW r \in JobState, Becomes(j, r)
  PROVE  job' \in [Jobs -> JobState] /\ \A k \in Jobs : job'[k] = IF k = j THEN r ELSE job[k]
  BY DEF Types, Becomes

\* It is between two runs, or has decided to form a cluster, with a new id.
Rests(r)  == r \in JobState /\ r.pc # "upsert" /\ r.id = 0 /\ r.written = 0
Begins(r) == /\ r \in JobState /\ r.pc = "upsert" /\ r.id = FreshId /\ r.written = 0
             /\ IsTeam(r.members)

LEMMA FreshIsNew ==
  /\ \A k \in Jobs : job[k].id # FreshId
  /\ \A n \in Nodes : ~Named(FreshId, n)
  /\ newest # NoCluster => newest.id # FreshId
  BY FreshIdIs DEF Used, Named

LEMMA FormingMoves ==
  ASSUME Types, Forming, NEW j \in Jobs, NEW r, Rests(r) \/ Begins(r), Becomes(j, r)
  PROVE  Forming'
<1>1. \A k \in Jobs : job'[k] = IF k = j THEN r ELSE job[k]
  BY BecomesIs DEF Rests, Begins
<1>2. FreshId # 0 /\ \A k \in Jobs : job[k].id # FreshId
  BY FreshIdIs, FreshIsNew, ClusterAssumption, FS_CardinalityType DEF Ids
<1>3. IF r.pc = "upsert"
      THEN r.id # 0 /\ IsTeam(r.members) /\ r.written < Len(r.members)
      ELSE r.id = 0 /\ r.written = 0
  <2>1. CASE Rests(r)
    BY <2>1 DEF Rests
  <2>2. CASE Begins(r)
    BY <1>2, <2>2 DEF Begins, IsTeam
  <2> QED
    BY <2>1, <2>2
<1>4. \A k \in Jobs : IF job'[k].pc = "upsert"
                     THEN /\ job'[k].id # 0 /\ IsTeam(job'[k].members)
                          /\ job'[k].written < Len(job'[k].members)
                     ELSE job'[k].id = 0 /\ job'[k].written = 0
  BY <1>1, <1>3, Zenon DEF Forming, Forms
<1>5. r.pc = "upsert" => r.id = FreshId
  BY DEF Rests, Begins
<1>6. \A k, l \in Jobs : job'[k].pc = "upsert" /\ job'[l].pc = "upsert"
                         /\ job'[k].id = job'[l].id => k = l
  BY <1>1, <1>2, <1>5, Zenon DEF Forming, Forms
<1> QED
  BY <1>4, <1>6, Zenon DEF Forming, Forms, IsTeam

LEMMA OwnMoves ==
  ASSUME Types, Own, NEW j \in Jobs, NEW r, Rests(r) \/ Begins(r), Becomes(j, r),
         UNCHANGED table
  PROVE  Own'
<1>1. \A k \in Jobs : job'[k] = IF k = j THEN r ELSE job[k]
  BY BecomesIs DEF Rests, Begins
<1>2. \A n \in Nodes : row[n].cluster # FreshId
  BY FreshIsNew DEF Named
<1>3. r.pc = "upsert" => r.id = FreshId
  BY DEF Rests, Begins
<1>4. ASSUME NEW k \in Jobs, NEW n \in Nodes,
             job'[k].pc = "upsert", row[n].cluster = job'[k].id
      PROVE  job'[k] = job[k]
  BY <1>1, <1>2, <1>3, <1>4
<1> SUFFICES ASSUME NEW k \in Jobs, NEW n \in Nodes \ rewritten',
                    job'[k].pc = "upsert", row'[n].cluster = job'[k].id
             PROVE  \E i \in 1..job'[k].written :
                      /\ n = job'[k].members[i]
                      /\ row'[n] = RowOf(job'[k].id, job'[k].members, i)
  BY DEF Own, Forms
<1>5. row' = row /\ rewritten' = rewritten /\ job'[k] = job[k]
  BY <1>4 DEF table
<1> QED
  BY <1>5 DEF Own, Forms

LEMMA SharesStay ==
  ASSUME SharesFit, UNCHANGED table PROVE SharesFit'
  BY DEF SharesFit, Holds, table

LEMMA KeptMoves ==
  ASSUME Types, Kept, NEW j \in Jobs, NEW r, Rests(r) \/ Begins(r), Becomes(j, r),
         UNCHANGED <<row, newest, pipe>>
  PROVE  Kept'
<1>1. \A k \in Jobs : job'[k] = IF k = j THEN r ELSE job[k]
  BY BecomesIs DEF Rests, Begins
<1>2. /\ \A n \in Nodes : ~Named(FreshId, n)
      /\ newest # NoCluster => newest.id # FreshId
  BY FreshIsNew
<1>3. r.pc = "upsert" => r.id = FreshId
  BY DEF Rests, Begins
<1>4. \A id, n : Named(id, n)' <=> Named(id, n)
  BY DEF Named
<1>5. ASSUME NEW k \in Jobs, NEW n \in Nodes, job'[k].pc = "upsert", Named(job'[k].id, n)
      PROVE  n \in Range(job'[k].members)
  <2>1. job'[k] = job[k]
    BY <1>1, <1>2, <1>3, <1>5
  <2> QED
    BY <1>5, <2>1 DEF Kept, Forms
<1>6. ASSUME newest # NoCluster, NEW k \in Jobs, job'[k].pc = "upsert"
      PROVE  job'[k].id # newest.id
  BY <1>1, <1>2, <1>3, <1>6 DEF Kept, Forms
<1>7. newest # NoCluster => /\ IsTeam(newest.members)
                            /\ \A n \in Nodes : Named(newest.id, n) => n \in Range(newest.members)
  BY DEF Kept
<1>8. row' = row /\ newest' = newest /\ pipe' = pipe
  OBVIOUS
<1> QED
  BY <1>5, <1>6, <1>7, <1>8 DEF Kept, Forms, Named, IsTeam

LEMMA WholeThen ==
  ASSUME \A k, l \in Jobs : job'[k].pc # "idle" /\ job'[l].pc # "idle" => k = l,
         \A k \in Jobs : InTable(job[k].id, job[k].members, job[k].written)',
         newest' # NoCluster /\ (\A k \in Jobs : job'[k].written = 0) =>
           InTable(newest.id, newest.members, Len(newest.members))'
  PROVE  Whole'
  BY DEF Whole, InTable

LEMMA WholeMoves ==
  ASSUME Types, Whole, NEW j \in Jobs, NEW r, Rests(r) \/ Begins(r), Becomes(j, r),
         UNCHANGED <<table, newest>>,
         ~disturbed' => /\ ~disturbed /\ job[j].written = 0
                        /\ r.pc = "idle" \/ \A k \in Jobs \ {j} : job[k].pc = "idle"
  PROVE  Whole'
<1> SUFFICES ASSUME ~disturbed' PROVE Whole'
  BY DEF Whole
<1>1. \A k \in Jobs : job'[k] = IF k = j THEN r ELSE job[k]
  BY BecomesIs DEF Rests, Begins
<1>2. r.written = 0 /\ job[j].written = 0 /\ ~disturbed
  BY DEF Rests, Begins
<1>3. \A k, l \in Jobs : job'[k].pc # "idle" /\ job'[l].pc # "idle" => k = l
  <2>1. r.pc = "idle" \/ \A k \in Jobs \ {j} : job[k].pc = "idle"
    OBVIOUS
  <2>2. \A k, l \in Jobs : job[k].pc # "idle" /\ job[l].pc # "idle" => k = l
    BY <1>2 DEF Whole
  <2> QED
    BY <1>1, <2>1, <2>2
<1>4. row' = row /\ rewritten' = rewritten /\ newest' = newest
  BY DEF table
<1>5. ASSUME NEW k \in Jobs, NEW i \in 1..job'[k].written, job'[k].members[i] \notin rewritten
      PROVE  row[job'[k].members[i]] = RowOf(job'[k].id, job'[k].members, i)
  <2>1. job'[k] \in JobState
    BY BecomesIs DEF Rests, Begins
  <2>2. job'[k].written # 0
    BY <2>1 DEF JobState
  <2>3. job'[k] = job[k]
    BY <1>1, <1>2, <2>2
  <2> QED
    BY <1>2, <1>5, <2>3 DEF Whole, InTable
<1>6. (\A k \in Jobs : job'[k].written = 0) => \A k \in Jobs : job[k].written = 0
  BY <1>1, <1>2
<1>7. newest # NoCluster /\ (\A k \in Jobs : job'[k].written = 0) =>
         InTable(newest.id, newest.members, Len(newest.members))
  BY <1>2, <1>6 DEF Whole
<1> QED
  BY <1>3, <1>4, <1>5, <1>7 DEF Whole, InTable
-----------------------------------------------------------------------------
(* No run moves, and no row changes. *)

LEMMA JobsStay ==
  ASSUME IInv, UNCHANGED <<newest, job, disturbed>>,
         \A n \in Nodes \ rewritten' : n \notin rewritten /\ row'[n] = row[n],
         \A id \in Ids, n \in Nodes : Named(id, n)' => Named(id, n)
  PROVE  Forming' /\ Own' /\ SharesFit' /\ Kept' /\ Whole'
<1>0. newest' = newest /\ job' = job /\ disturbed' = disturbed
  OBVIOUS
<1>1. Forming'
  BY <1>0 DEF IInv, Forming, Forms
<1>2. Own'
  BY <1>0 DEF IInv, Own, Forms
<1>3. SharesFit'
  BY DEF IInv, SharesFit, Holds
<1>4. Kept'
  <2>1. \A j \in Jobs : Forms(j) => job[j].id \in Ids
    BY DEF IInv, Types, Forming, JobState
  <2>2. newest # NoCluster => newest.id \in Ids
    BY DEF IInv, Types, Entry
  <2>3. ASSUME NEW j \in Jobs, NEW n \in Nodes, Forms(j), Named(job[j].id, n)'
        PROVE  n \in Range(job[j].members)
    <3>1. Named(job[j].id, n)
      BY <1>0, <2>1, <2>3 DEF Named
    <3> QED
      BY <2>3, <3>1 DEF IInv, Kept
  <2>4. ASSUME newest # NoCluster, NEW n \in Nodes, Named(newest.id, n)'
        PROVE  n \in Range(newest.members)
    <3>1. Named(newest.id, n)
      BY <1>0, <2>2, <2>4 DEF Named
    <3> QED
      BY <2>4, <3>1 DEF IInv, Kept
  <2>5. newest # NoCluster => /\ IsTeam(newest.members)
                              /\ \A j \in Jobs : Forms(j) => job[j].id # newest.id
    BY DEF IInv, Kept
  <2> QED
    BY <1>0, <2>3, <2>4, <2>5 DEF Kept, Forms, IsTeam
<1>5. Whole'
  <2> SUFFICES ASSUME ~disturbed PROVE Whole'
    BY <1>0 DEF Whole
  <2>1. \A id, members, n : InTable(id, members, n) /\ (\A k \in 1..n : members[k] \in Nodes)
          => \A k \in 1..n : members[k] \notin rewritten' => row'[members[k]] = RowOf(id, members, k)
    BY DEF InTable
  <2>2. ASSUME NEW j \in Jobs
        PROVE  \A k \in 1..job[j].written : job[j].members[k] \in Nodes
    <3>1. job[j] \in JobState
      BY DEF IInv, Types
    <3>2. job[j].members \in Seq(Nodes) /\ job[j].written \in Nat /\ Len(job[j].members) \in Nat
      BY <3>1 DEF JobState
    <3>3. job[j].written = 0 \/ job[j].written < Len(job[j].members)
      BY DEF IInv, Forming
    <3> QED
      BY <3>2, <3>3
  <2>3. newest # NoCluster => \A k \in 1..Len(newest.members) : newest.members[k] \in Nodes
    BY DEF IInv, Types, Entry
  <2>4. /\ \A j, k \in Jobs : job[j].pc # "idle" /\ job[k].pc # "idle" => j = k
        /\ \A j \in Jobs : InTable(job[j].id, job[j].members, job[j].written)
        /\ newest # NoCluster /\ (\A j \in Jobs : job[j].written = 0) =>
             InTable(newest.id, newest.members, Len(newest.members))
    BY DEF IInv, Whole
  <2>5. \A j \in Jobs : \A k \in 1..job[j].written :
          job[j].members[k] \notin rewritten' =>
            row'[job[j].members[k]] = RowOf(job[j].id, job[j].members, k)
    BY <2>1, <2>2, <2>4
  <2>6. newest # NoCluster /\ (\A j \in Jobs : job[j].written = 0) =>
          \A k \in 1..Len(newest.members) :
            newest.members[k] \notin rewritten' =>
              row'[newest.members[k]] = RowOf(newest.id, newest.members, k)
    BY <2>1, <2>3, <2>4
  <2> QED
    BY <1>0, <2>4, <2>5, <2>6 DEF Whole, InTable
<1> QED
  BY <1>1, <1>2, <1>3, <1>4, <1>5

LEMMA TableStays ==
  ASSUME IInv, UNCHANGED <<table, newest, job, pipe, disturbed>>
  PROVE  Forming' /\ Own' /\ SharesFit' /\ Kept' /\ Whole'
<1>1. row' = row /\ rewritten' = rewritten /\ pipe' = pipe
  BY DEF table
<1>2. \A id \in Ids, n \in Nodes : Named(id, n)' => Named(id, n)
  BY <1>1 DEF Named
<1> QED
  BY <1>1, <1>2, JobsStay

LEMMA SpendIs ==
  ASSUME Types, NEW kind \in FaultKinds, Spend(kind)
  PROVE  faults' \in [FaultKinds -> Nat]
  BY DEF Types, Spend

LEMMA JoinInv ==
  ASSUME IInv, NEW n \in Nodes, Join(n) PROVE IInv'
<1>1. Types'
  BY DEF IInv, Types, Join, cache, table
<1>2. UNCHANGED <<table, newest, job, pipe, disturbed>>
  BY DEF Join, cache
<1> QED
  BY <1>1, <1>2, TableStays DEF IInv

LEMMA LeaveInv ==
  ASSUME IInv, NEW n \in Nodes, Leave(n) PROVE IInv'
<1>1. faults' \in [FaultKinds -> Nat]
  BY SpendIs DEF IInv, Leave, FaultKinds
<1>2. Types'
  BY <1>1 DEF IInv, Types, Leave, cache, table
<1>3. UNCHANGED <<table, newest, job, pipe, disturbed>>
  BY DEF Leave, cache
<1> QED
  BY <1>2, <1>3, TableStays DEF IInv

LEMMA OlderEntry ==
  ASSUME NEW c \in Entry PROVE [c EXCEPT !.age = Older(@, MinAge)] \in Entry
<1>1. Older(c.age, MinAge) \in 0..MinAge
  BY ClusterAssumption DEF Entry, Older
<1> QED
  BY <1>1 DEF Entry

LEMMA OlderMark ==
  ASSUME NEW age \in 0..Grace \cup {Never}
  PROVE  Older(age, Grace) \in 0..Grace \cup {Never}
  BY ClusterAssumption DEF Older

LEMMA TickInv ==
  ASSUME IInv, Tick PROVE IInv'
<1>1. offline' \in [Nodes -> 0..Grace \cup {Never}]
  <2>1. \A n \in Nodes : Older(offline[n], Grace) \in 0..Grace \cup {Never}
    BY OlderMark DEF IInv, Types
  <2> QED
    BY <2>1 DEF Tick
<1>2. /\ oldest' \in Entry \cup {NoCluster}
      /\ oldest' = NoCluster <=> oldest = NoCluster
  <2>1. CASE oldest = NoCluster
    BY <2>1 DEF Tick
  <2>2. CASE oldest # NoCluster
    <3>1. oldest \in Entry
      BY <2>2 DEF IInv, Types
    <3>2. oldest' = [oldest EXCEPT !.age = Older(@, MinAge)]
      BY <2>2 DEF Tick
    <3>3. oldest' \in Entry
      BY <3>1, <3>2, OlderEntry, Zenon
    <3> QED
      BY <2>2, <3>3, NoEntryAssumption
  <2> QED
    BY <2>1, <2>2
<1>3. Types'
  BY <1>1, <1>2 DEF IInv, Types, Tick, table
<1>4. UNCHANGED <<table, newest, job, pipe, disturbed>>
  BY DEF Tick
<1> QED
  BY <1>3, <1>4, TableStays DEF IInv

-----------------------------------------------------------------------------
(* A run reads, decides or fails. *)

LEMMA ReadNodesInv ==
  ASSUME IInv, NEW j \in Jobs, ReadNodes(j) PROVE IInv'
<1> DEFINE r == Deciding(eligible)
<1>1. Becomes(j, r) /\ job[j].pc = "idle"
  BY DEF ReadNodes, Becomes
<1>2. Rests(r) /\ r \in JobState
  BY DecidingIs DEF IInv, Types, Rests
<1> HIDE DEF r
<1>3. UNCHANGED <<eligible, table, oldest, newest, offline, pipe>>
  BY DEF ReadNodes, cache
<1>4. disturbed' \in BOOLEAN /\ faults' \in [FaultKinds -> Nat]
  <2>1. CASE Quiet
    BY <2>1, Zenon DEF ReadNodes, IInv, Types
  <2>2. CASE ~Quiet
    BY <2>2, SpendIs, Zenon DEF ReadNodes, IInv, FaultKinds
  <2> QED
    BY <2>1, <2>2
<1>5. job' \in [Jobs -> JobState]
  BY <1>1, <1>2, BecomesIs DEF IInv
<1>6. Types'
  BY <1>3, <1>4, <1>5 DEF IInv, Types, table
<1>7. ~disturbed' => Quiet /\ ~disturbed
  BY Zenon DEF ReadNodes
<1>8. ~disturbed' => /\ ~disturbed /\ job[j].written = 0
                     /\ \A k \in Jobs \ {j} : job[k].pc = "idle"
  BY <1>1, <1>7 DEF Quiet, IInv, Forming, Forms
<1> QED
  BY <1>1, <1>2, <1>3, <1>6, <1>8, FormingMoves, OwnMoves, SharesStay, KeptMoves, WholeMoves
     DEF IInv, table

LEMMA MarkIs ==
  ASSUME Types, NEW nodes, IF nodes = {} THEN UNCHANGED offline ELSE Mark(nodes)
  PROVE  offline' \in [Nodes -> 0..Grace \cup {Never}]
<1>1. offline' = offline \/ \E m : offline' = [offline EXCEPT ![m] = 0]
  BY Zenon DEF Mark
<1>2. offline \in [Nodes -> 0..Grace \cup {Never}] /\ 0 \in 0..Grace
  BY ClusterAssumption DEF Types
<1>3. CASE offline' = offline
  BY <1>2, <1>3
<1>4. CASE \E m : offline' = [offline EXCEPT ![m] = 0]
  <2>1. PICK m : offline' = [offline EXCEPT ![m] = 0]
    BY <1>4
  <2> QED
    BY <1>2, <2>1
<1> QED
  BY <1>1, <1>3, <1>4

LEMMA DecideInv ==
  ASSUME IInv, NEW j \in Jobs, Decide(j) PROVE IInv'
<1>1. PICK r : Becomes(j, r) /\ r \in JobState /\ (Rests(r) \/ Begins(r))
  <2>1. CASE Becomes(j, Idle)
    BY <2>1, IdleIs DEF Rests
  <2>2. CASE \E members : IsTeam(members) /\ Becomes(j, Writing(FreshId, members, 0))
    <3>1. PICK members : IsTeam(members) /\ Becomes(j, Writing(FreshId, members, 0))
      BY <2>2
    <3>2. FreshId \in Ids /\ members \in Seq(Nodes)
      BY <3>1, FreshIdIs DEF IsTeam
    <3> DEFINE w == Writing(FreshId, members, 0)
    <3>3. /\ w \in JobState /\ w.pc = "upsert" /\ w.id = FreshId /\ w.members = members
          /\ w.written = 0
      BY <3>2, WritingIs
    <3> HIDE DEF w
    <3>4. Begins(w)
      BY <3>1, <3>3 DEF Begins
    <3> QED
      BY <3>1, <3>3, <3>4 DEF w
  <2> QED
    BY <2>1, <2>2, DecideIs
<1>2. /\ job[j].pc = "decide"
      /\ UNCHANGED <<eligible, table, oldest, newest, pipe, disturbed, faults>>
  BY Zenon DEF Decide
<1>3. offline' \in [Nodes -> 0..Grace \cup {Never}]
  BY MarkIs, Zenon DEF Decide, IInv
<1>4. job' \in [Jobs -> JobState]
  BY <1>1, BecomesIs DEF IInv
<1>5. Types'
  BY <1>2, <1>3, <1>4 DEF IInv, Types, table
<1>6. job[j].written = 0
  BY <1>2 DEF IInv, Forming, Forms
<1>7. ~disturbed' => /\ ~disturbed /\ job[j].written = 0
                     /\ \A k \in Jobs \ {j} : job[k].pc = "idle"
  <2>1. ~disturbed' => ~disturbed
    BY <1>2
  <2>2. ~disturbed => \A k \in Jobs \ {j} : job[k].pc = "idle"
    BY <1>2 DEF IInv, Whole
  <2> QED
    BY <1>6, <2>1, <2>2, Zenon
<1> QED
  BY <1>1, <1>2, <1>5, <1>7, FormingMoves, OwnMoves, SharesStay, KeptMoves, WholeMoves
     DEF IInv, table

LEMMA FailInv ==
  ASSUME IInv, NEW j \in Jobs, Fail(j) PROVE IInv'
<1>1. Becomes(j, Idle)
  BY DEF Fail, Stop, Becomes
<1>2. Rests(Idle) /\ Idle \in JobState /\ Idle.pc = "idle"
  BY IdleIs DEF Rests
<1>3. UNCHANGED <<eligible, table, oldest, newest, offline, pipe>>
  BY DEF Fail, cache
<1>4. faults' \in [FaultKinds -> Nat]
  BY SpendIs DEF Fail, IInv, FaultKinds
<1>5. disturbed' \in BOOLEAN
  BY DEF Fail
<1>6. job' \in [Jobs -> JobState]
  BY <1>1, <1>2, BecomesIs DEF IInv
<1>7. Types'
  BY <1>3, <1>4, <1>5, <1>6 DEF IInv, Types, table
<1>8. ~disturbed' => ~disturbed /\ ~(job[j].written > 0)
  BY Zenon DEF Fail
<1>9. job[j].written \in Nat
  BY DEF IInv, Types, JobState
<1>10. ~disturbed' => ~disturbed /\ job[j].written = 0
  BY <1>8, <1>9
<1> QED
  BY <1>1, <1>2, <1>3, <1>7, <1>10, FormingMoves, OwnMoves, SharesStay, KeptMoves, WholeMoves
     DEF IInv, table

-----------------------------------------------------------------------------
(* PipelineService reads, splits, saves and removes rows. *)

\* Operation o becomes r, which copies what is there, rows or copies.
LEMMA PipeIs ==
  ASSUME Types, NEW o \in Operations, NEW r \in PipeState, pipe' = [pipe EXCEPT ![o] = r],
         r.pc \in {"register", "save"} => r.todo # <<>>
  PROVE  /\ pipe' \in [Operations -> PipeState]
         /\ \A p \in Operations : pipe'[p] = IF p = o THEN r ELSE pipe[p]
         /\ \A p \in Operations : pipe'[p].pc \in {"register", "save"} => pipe'[p].todo # <<>>
  BY DEF Types

\* It only reads.
LEMMA ReadsInv ==
  ASSUME IInv, NEW o \in Operations, NEW r \in PipeState, pipe' = [pipe EXCEPT ![o] = r],
         r.pc \in {"register", "save"} => r.todo # <<>>,
         \A n \in Nodes : \/ r.entity[n].cluster \in {0, row[n].cluster}
                           \/ r.entity[n] = pipe[o].entity[n],
         UNCHANGED <<eligible, table, oldest, newest, offline, job, disturbed>>,
         faults' \in [FaultKinds -> Nat]
  PROVE  IInv'
<1>1. /\ pipe' \in [Operations -> PipeState]
      /\ \A p \in Operations : pipe'[p] = IF p = o THEN r ELSE pipe[p]
      /\ \A p \in Operations : pipe'[p].pc \in {"register", "save"} => pipe'[p].todo # <<>>
  BY PipeIs DEF IInv
<1>2. row' = row /\ rewritten' = rewritten
  BY DEF table
<1>3. Types'
  BY <1>1, <1>2 DEF IInv, Types
<1>4. ASSUME NEW id \in Ids, NEW n \in Nodes, Named(id, n)' PROVE Named(id, n)
  <2>1. id # 0
    BY ClusterAssumption, FS_CardinalityType DEF Ids
  <2>2. row[n].cluster = id \/ \E p \in Operations : pipe'[p].entity[n].cluster = id
    BY <1>2, <1>4 DEF Named
  <2> QED
    BY <1>1, <2>1, <2>2 DEF Named
<1> QED
  BY <1>2, <1>3, <1>4, JobsStay DEF IInv

\* It writes the rows of some nodes: nothing, or what it had copied of them.
LEMMA WritesInv ==
  ASSUME IInv, NEW o \in Operations, NEW r \in PipeState, pipe' = [pipe EXCEPT ![o] = r],
         r.pc \in {"register", "save"} => r.todo # <<>>,
         \A n \in Nodes : r.entity[n].cluster = 0 \/ r.entity[n] = pipe[o].entity[n],
         row' \in [Nodes -> Row], rewritten' \in SUBSET Nodes, rewritten \subseteq rewritten',
         \A n \in Nodes : \/ row'[n] = row[n]
                           \/ /\ n \in rewritten'
                              /\ row'[n].cluster = 0 \/ row'[n] = pipe[o].entity[n],
         UNCHANGED <<eligible, oldest, newest, offline, job, disturbed>>,
         faults' \in [FaultKinds -> Nat]
  PROVE  IInv'
<1>1. /\ pipe' \in [Operations -> PipeState]
      /\ \A p \in Operations : pipe'[p] = IF p = o THEN r ELSE pipe[p]
      /\ \A p \in Operations : pipe'[p].pc \in {"register", "save"} => pipe'[p].todo # <<>>
  BY PipeIs DEF IInv
<1>2. \A n \in Nodes \ rewritten' : n \notin rewritten /\ row'[n] = row[n]
  OBVIOUS
<1>3. Types'
  <2>1. \A n \in Nodes \ rewritten' : row'[n].last <= Layers
    BY <1>2 DEF IInv, Types
  <2> QED
    BY <1>1, <2>1 DEF IInv, Types
<1>4. ASSUME NEW id \in Ids, NEW n \in Nodes, Named(id, n)' PROVE Named(id, n)
  <2>1. id # 0
    BY ClusterAssumption, FS_CardinalityType DEF Ids
  <2>2. row'[n].cluster = id \/ \E p \in Operations : pipe'[p].entity[n].cluster = id
    BY <1>4 DEF Named
  <2> QED
    BY <1>1, <2>1, <2>2 DEF Named
<1> QED
  BY <1>2, <1>3, <1>4, JobsStay DEF IInv

LEMMA CopiesIs ==
  ASSUME Types, NEW nodes
  PROVE  /\ Copies(nodes) \in [Nodes -> Row]
         /\ \A n \in Nodes : Copies(nodes)[n].cluster \in {0, row[n].cluster}
  BY NoRowIs DEF Types, Copies

\* A registration or a mark of readiness that has read the row of its node.
LEMMA SavingOneIs ==
  ASSUME Types, NEW n \in Nodes, NEW phase \in {"register", "save"}
  PROVE  LET r == Saving(phase, <<n>>, Copies({n}))
         IN  r \in PipeState /\ r.todo # <<>> /\ r.entity = Copies({n})
<1> DEFINE todo == <<n>>
           entity == Copies({n})
<1>1. todo \in Seq(Nodes) /\ todo # <<>>
  OBVIOUS
<1>2. entity \in [Nodes -> Row]
  BY CopiesIs
<1>3. phase \in Phases
  BY DEF Phases
<1> HIDE DEF todo, entity
<1>4. LET r == Saving(phase, todo, entity)
      IN  r \in PipeState /\ r.todo # <<>> /\ r.entity = entity
  BY <1>1, <1>2, <1>3, SavingIs
<1> QED
  BY <1>4 DEF todo, entity

LEMMA ReadRowInv ==
  ASSUME IInv, NEW o \in Operations, NEW n \in Nodes, ReadRow(o, n) PROVE IInv'
<1>1. PICK phase \in {"register", "save"} :
        pipe' = [pipe EXCEPT ![o] = Saving(phase, <<n>>, Copies({n}))]
  BY DEF ReadRow
<1> DEFINE r == Saving(phase, <<n>>, Copies({n}))
<1>3. /\ Copies({n}) \in [Nodes -> Row]
      /\ \A m \in Nodes : Copies({n})[m].cluster \in {0, row[m].cluster}
  BY CopiesIs DEF IInv
<1>4. r \in PipeState /\ r.todo # <<>> /\ r.entity = Copies({n})
  BY SavingOneIs, Zenon DEF IInv
<1>5. pipe' = [pipe EXCEPT ![o] = r]
  BY <1>1
<1> HIDE DEF r
<1>6. faults' \in [FaultKinds -> Nat]
  BY SpendIs DEF IInv, ReadRow, FaultKinds
<1>7. UNCHANGED <<eligible, table, oldest, newest, offline, job, disturbed>>
  BY DEF ReadRow, cache
<1> QED
  BY <1>3, <1>4, <1>5, <1>6, <1>7, ReadsInv

LEMMA RemoveRowsInv ==
  ASSUME IInv, NEW o \in Operations, NEW nodes \in SUBSET Nodes, RemoveRows(o, nodes)
  PROVE  IInv'
<1>1. /\ row' = [n \in Nodes |-> IF n \in nodes THEN NoRow ELSE row[n]]
      /\ rewritten' = rewritten \cup {n \in nodes : row[n] # NoRow}
      /\ pipe' = [pipe EXCEPT ![o] = Splitting]
      /\ UNCHANGED <<eligible, oldest, newest, offline, job, disturbed>>
  BY DEF RemoveRows, cache
<1>2. row' \in [Nodes -> Row] /\ rewritten' \in SUBSET Nodes
  BY <1>1, NoRowIs DEF IInv, Types
<1>3. \A n \in Nodes : row'[n] = row[n] \/ (n \in rewritten' /\ row'[n].cluster = 0)
  BY <1>1, NoRowIs
<1>4. \A n \in Nodes : Splitting.entity[n].cluster = 0
  BY SplittingIs, NoCopiesIs
<1>5. faults' \in [FaultKinds -> Nat]
  BY SpendIs DEF IInv, RemoveRows, FaultKinds
<1> QED
  BY <1>1, <1>2, <1>3, <1>4, <1>5, SplittingIs, WritesInv

\* The shares of assignLayers are natural numbers.
LEMMA AssignedIs ==
  ASSUME Types, NEW active \in Orders
  PROVE  /\ Assigned(active) \in [Nodes -> Row]
         /\ \A n \in Nodes : Assigned(active)[n].cluster \in {0, row[n].cluster}
<1> DEFINE weights == [i \in DOMAIN active |-> Capacity[active[i]]]
           shares == Split(weights, Layers)
           share(n) == shares[CHOOSE i \in DOMAIN active : active[i] = n]
<1>1. active \in Seq(Nodes) /\ active # <<>>
  BY ClusterAssumption
<1>2. /\ Len(active) \in Nat \ {0} /\ DOMAIN active = 1..Len(active)
      /\ \A i \in DOMAIN active : active[i] \in Nodes
  BY <1>1
<1>3. weights \in [1..Len(active) -> Nat \ {0}] /\ Len(weights) = Len(active)
  BY <1>2, ClusterAssumption
<1> HIDE DEF weights
<1>4. \A i \in DOMAIN active : shares[i].first \in Nat /\ shares[i].last \in Nat
  <2>1. shares \in [1..Len(active) -> [first: Nat, last: Nat]]
    BY <1>2, <1>3, ClusterAssumption, SplitCovers
  <2> QED
    BY <1>2, <2>1
<1> HIDE DEF shares
<1>5. ASSUME NEW n \in Range(active) PROVE share(n).first \in Nat /\ share(n).last \in Nat
  <2>1. \E i \in DOMAIN active : active[i] = n
    BY DEF Range
  <2>2. (CHOOSE i \in DOMAIN active : active[i] = n) \in DOMAIN active
    BY <2>1
  <2> QED
    BY <1>4, <2>2
<1> DEFINE entity(n) == IF n \notin Range(active) \/ row[n].cluster = 0 THEN NoRow
                        ELSE [row[n] EXCEPT !.first = share(n).first, !.last = share(n).last]
<1>6. Assigned(active) = [n \in Nodes |-> entity(n)]
  BY Zenon DEF Assigned, shares, weights
<1> HIDE DEF share
<1>7. ASSUME NEW n \in Nodes PROVE entity(n) \in Row /\ entity(n).cluster \in {0, row[n].cluster}
  BY <1>5, NoRowIs DEF Types, Row
<1> HIDE DEF entity
<1> QED
  BY <1>6, <1>7

LEMMA ReadActiveInv ==
  ASSUME IInv, NEW o \in Operations, ReadActive(o) PROVE IInv'
<1>1. PICK active \in Orders :
        pipe' = [pipe EXCEPT ![o] = Saving("save", active, Assigned(active))]
  BY DEF ReadActive
<1> DEFINE r == Saving("save", active, Assigned(active))
<1>2. "save" \in Phases /\ active \in Seq(Nodes) /\ active # <<>>
  BY ClusterAssumption DEF Phases
<1>3. /\ Assigned(active) \in [Nodes -> Row]
      /\ \A m \in Nodes : Assigned(active)[m].cluster \in {0, row[m].cluster}
  BY AssignedIs DEF IInv
<1>4. r \in PipeState /\ r.todo # <<>> /\ r.entity = Assigned(active)
  BY <1>2, <1>3, SavingIs
<1>5. pipe' = [pipe EXCEPT ![o] = r]
  BY <1>1
<1> HIDE DEF r
<1>6. UNCHANGED <<eligible, table, oldest, newest, offline, job, disturbed, faults>>
  BY DEF ReadActive, cache
<1> QED
  BY <1>3, <1>4, <1>5, <1>6, ReadsInv DEF IInv, Types

LEMMA FindDuplicateInv ==
  ASSUME IInv, NEW o \in Operations, FindDuplicate(o) PROVE IInv'
<1> DEFINE n == Head(pipe[o].todo)
           r == Saving("register", <<n>>, Copies({n}))
<1>1. pipe[o] \in PipeState /\ pipe[o].todo # <<>>
  BY DEF IInv, Types, FindDuplicate
<1>2. n \in Nodes
  BY <1>1 DEF PipeState
<1>3. pipe' = [pipe EXCEPT ![o] = r]
  BY DEF FindDuplicate
<1> HIDE DEF n
<1>5. /\ Copies({n}) \in [Nodes -> Row]
      /\ \A m \in Nodes : Copies({n})[m].cluster \in {0, row[m].cluster}
  BY CopiesIs DEF IInv
<1>6. r \in PipeState /\ r.todo # <<>> /\ r.entity = Copies({n})
  BY <1>2, SavingOneIs, Zenon DEF IInv
<1> HIDE DEF r
<1>7. UNCHANGED <<eligible, table, oldest, newest, offline, job, disturbed, faults>>
  BY DEF FindDuplicate, cache
<1> QED
  BY <1>3, <1>5, <1>6, <1>7, ReadsInv DEF IInv, Types

LEMMA GiveUpInv ==
  ASSUME IInv, NEW o \in Operations, GiveUp(o) PROVE IInv'
<1>1. \A n \in Nodes : Resting.entity[n].cluster = 0
  BY RestingIs, NoCopiesIs
<1>2. /\ pipe' = [pipe EXCEPT ![o] = Resting]
      /\ UNCHANGED <<eligible, table, oldest, newest, offline, job, disturbed, faults>>
  BY DEF GiveUp, cache
<1> QED
  BY <1>1, <1>2, RestingIs, ReadsInv DEF IInv, Types

\* After a save an operation has no copies but those it had.
LEMMA AfterSaveIs ==
  ASSUME Types, NEW o \in Operations, pipe[o].todo # <<>>
  PROVE  LET r == AfterSave(o)
         IN  /\ r \in PipeState /\ (r.pc \in {"register", "save"} => r.todo # <<>>)
             /\ \A n \in Nodes : r.entity[n].cluster = 0 \/ r.entity[n] = pipe[o].entity[n]
<1> DEFINE old == pipe[o]
           todo == Tail(old.todo)
           entity == [old.entity EXCEPT ![Head(old.todo)] = NoRow]
<1>1. old.todo \in Seq(Nodes) /\ old.entity \in [Nodes -> Row]
  BY DEF Types, PipeState
<1>2. AfterSave(o) = IF old.pc = "register" THEN Splitting
                     ELSE IF todo = <<>> THEN Resting ELSE Saving("save", todo, entity)
  BY Zenon DEF AfterSave
<1>3. todo \in Seq(Nodes)
  BY <1>1
<1>4. /\ entity \in [Nodes -> Row]
      /\ \A n \in Nodes : entity[n].cluster = 0 \/ entity[n] = old.entity[n]
  BY <1>1, NoRowIs
<1> HIDE DEF todo, entity, old
<1>5. "save" \in Phases
  BY DEF Phases
<1>6. LET r == Saving("save", todo, entity)
      IN  r \in PipeState /\ r.pc = "save" /\ r.todo = todo /\ r.entity = entity
  BY <1>3, <1>4, <1>5, SavingIs
<1>7. CASE AfterSave(o) = Splitting
  BY <1>7, SplittingIs, NoCopiesIs
<1>8. CASE AfterSave(o) = Resting
  BY <1>8, RestingIs, NoCopiesIs
<1>9. CASE AfterSave(o) = Saving("save", todo, entity) /\ todo # <<>>
  BY <1>4, <1>6, <1>9 DEF old
<1> QED
  BY <1>2, <1>7, <1>8, <1>9

LEMMA SaveRowInv ==
  ASSUME IInv, NEW o \in Operations, SaveRow(o) PROVE IInv'
<1> DEFINE n == Head(pipe[o].todo)
           saved == pipe[o].entity[n]
           r == AfterSave(o)
<1>1. pipe[o] \in PipeState /\ pipe[o].todo # <<>>
  BY DEF IInv, Types, SaveRow
<1>2. n \in Nodes /\ saved \in Row
  BY <1>1 DEF PipeState
<1>3. /\ row' = [row EXCEPT ![n] = saved]
      /\ rewritten' = IF row[n] = saved THEN rewritten ELSE rewritten \cup {n}
      /\ pipe' = [pipe EXCEPT ![o] = r]
      /\ UNCHANGED <<eligible, oldest, newest, offline, job, disturbed, faults>>
  BY DEF SaveRow, cache
<1>4. /\ r \in PipeState /\ (r.pc \in {"register", "save"} => r.todo # <<>>)
      /\ \A m \in Nodes : r.entity[m].cluster = 0 \/ r.entity[m] = pipe[o].entity[m]
  BY <1>1, AfterSaveIs DEF IInv
<1>5. saved = pipe[o].entity[n]
  OBVIOUS
<1> HIDE DEF n, r, saved
<1>6. row \in [Nodes -> Row] /\ rewritten \in SUBSET Nodes /\ faults \in [FaultKinds -> Nat]
  BY DEF IInv, Types
<1>7. row' \in [Nodes -> Row] /\ rewritten' \in SUBSET Nodes /\ rewritten \subseteq rewritten'
  BY <1>2, <1>3, <1>6
<1>8. \A m \in Nodes : row'[m] = row[m] \/ (m \in rewritten' /\ row'[m] = pipe[o].entity[m])
  BY <1>2, <1>3, <1>5, <1>6
<1>9. /\ pipe' = [pipe EXCEPT ![o] = r] /\ faults' \in [FaultKinds -> Nat]
      /\ UNCHANGED <<eligible, oldest, newest, offline, job, disturbed>>
  BY <1>3, <1>6
<1> QED
  BY <1>4, <1>7, <1>8, <1>9, WritesInv

LEMMA PipelineInv ==
  ASSUME IInv, NEW o \in Operations, Pipeline(o) PROVE IInv'
<1>1. ASSUME NEW n \in Nodes, ReadRow(o, n) PROVE IInv'
  BY <1>1, ReadRowInv
<1>2. ASSUME NEW nodes \in SUBSET Nodes, RemoveRows(o, nodes) PROVE IInv'
  BY <1>2, RemoveRowsInv
<1>3. CASE ReadActive(o)
  BY <1>3, ReadActiveInv
<1>4. CASE SaveRow(o)
  BY <1>4, SaveRowInv
<1>5. CASE FindDuplicate(o)
  BY <1>5, FindDuplicateInv
<1>6. CASE GiveUp(o)
  BY <1>6, GiveUpInv
<1> QED
  BY <1>1, <1>2, <1>3, <1>4, <1>5, <1>6 DEF Pipeline

-----------------------------------------------------------------------------
(* The process restarts. *)

LEMMA RestartInv ==
  ASSUME IInv, Restart PROVE IInv'
<1>1. job' \in [Jobs -> JobState] /\ \A j \in Jobs : job'[j] = Idle
  BY IdleIs DEF Restart
<1>2. pipe' \in [Operations -> PipeState] /\ \A o \in Operations : pipe'[o].pc = "idle"
  BY RestingIs DEF Restart
<1>3. /\ oldest' = NoCluster /\ newest' = NoCluster /\ disturbed' \in BOOLEAN
      /\ offline' \in [Nodes -> 0..Grace \cup {Never}] /\ UNCHANGED <<eligible, table>>
  BY DEF Restart
<1>4. faults' \in [FaultKinds -> Nat]
  BY SpendIs DEF Restart, IInv, FaultKinds
<1>5. Types'
  BY <1>1, <1>2, <1>3, <1>4 DEF IInv, Types, table
<1>6. \A j \in Jobs : job'[j].pc = "idle" /\ job'[j].id = 0 /\ job'[j].written = 0
  BY <1>1, IdleIs
<1>7. Forming'
  BY <1>6 DEF Forming, Forms
<1>8. Own'
  BY <1>6 DEF Own, Forms
<1>9. SharesFit'
  BY <1>3, SharesStay DEF IInv
<1>10. Kept'
  BY <1>3, <1>6 DEF Kept, Forms
<1>11. Whole'
  BY <1>3, <1>6 DEF Whole, InTable
<1> QED
  BY <1>5, <1>7, <1>8, <1>9, <1>10, <1>11 DEF IInv
-----------------------------------------------------------------------------
(* A run writes the row of one more member. *)

LEMMA UpsertTypes ==
  ASSUME IInv, NEW j \in Jobs, Upsert(j) PROVE Types'
<1> DEFINE id == job[j].id
           members == job[j].members
           i == job[j].written + 1
           info == [id |-> id, members |-> members, age |-> 0]
<1>1. /\ id \in Ids /\ members \in Seq(Nodes) /\ i \in 1..Len(members) /\ i \in Nat
      /\ row' = [row EXCEPT ![members[i]] = RowOf(id, members, i)]
      /\ rewritten' = rewritten \ {members[i]} /\ pipe' = pipe
      /\ \/ Remember(j) /\ Becomes(j, Idle)
         \/ UNCHANGED <<oldest, newest>> /\ Becomes(j, Writing(id, members, i))
  BY UpsertIs DEF IsTeam
<1>2. RowOf(id, members, i) \in Row /\ RowOf(id, members, i).last <= Layers
  BY <1>1, RowOfIs
<1>3. info \in Entry
  BY <1>1, ClusterAssumption DEF Entry
<1>4. Remember(j) => newest' = info /\ oldest' = IF oldest = NoCluster THEN info ELSE oldest
  BY DEF Remember
<1> HIDE DEF id, members, i, info
<1>5. /\ row' \in [Nodes -> Row] /\ rewritten' \in SUBSET Nodes
      /\ \A n \in Nodes \ rewritten' : row'[n].last <= Layers
  BY <1>1, <1>2 DEF IInv, Types
<1>6. job' \in [Jobs -> JobState]
  <2>1. Becomes(j, Idle) => job' \in [Jobs -> JobState]
    BY IdleIs, BecomesIs DEF IInv
  <2>2. Becomes(j, Writing(id, members, i)) => job' \in [Jobs -> JobState]
    BY <1>1, WritingIs, BecomesIs DEF IInv
  <2> QED
    BY <1>1, <2>1, <2>2
<1>7. /\ oldest' \in Entry \cup {NoCluster} /\ newest' \in Entry \cup {NoCluster}
      /\ oldest' = NoCluster <=> newest' = NoCluster
  <2>1. ASSUME Remember(j)
        PROVE  /\ oldest' \in Entry \cup {NoCluster} /\ newest' \in Entry \cup {NoCluster}
               /\ oldest' = NoCluster <=> newest' = NoCluster
    BY <1>3, <1>4, <2>1, NoEntryAssumption DEF IInv, Types
  <2>2. ASSUME UNCHANGED <<oldest, newest>>
        PROVE  /\ oldest' \in Entry \cup {NoCluster} /\ newest' \in Entry \cup {NoCluster}
               /\ oldest' = NoCluster <=> newest' = NoCluster
    BY <2>2 DEF IInv, Types
  <2> QED
    BY <1>1, <2>1, <2>2
<1>8. UNCHANGED <<eligible, offline, pipe, disturbed, faults>>
  BY DEF Upsert
<1> QED
  BY <1>5, <1>6, <1>7, <1>8 DEF IInv, Types

\* What a step of Upsert does, in the state before and the state after.
LEMMA UpsertDoes ==
  ASSUME IInv, NEW j \in Jobs, Upsert(j)
  PROVE  LET id      == job[j].id
             members == job[j].members
             i       == job[j].written + 1
         IN  /\ id \in Ids /\ id # 0 /\ IsTeam(members) /\ i \in 1..Len(members)
             /\ members[i] \in Nodes
             /\ \A n \in Nodes : row'[n] = IF n = members[i] THEN RowOf(id, members, i) ELSE row[n]
             /\ rewritten' = rewritten \ {members[i]} /\ pipe' = pipe
             /\ \A k \in Jobs : k # j => job'[k] = job[k]
             /\ \A n \in Nodes \ rewritten : row[n].cluster = id =>
                  \E k \in 1..i - 1 : n = members[k] /\ row[n] = RowOf(id, members, k)
             /\ \A k \in Jobs : k # j /\ job[k].pc = "upsert" => job[k].id # id
             /\ RowOf(id, members, i).cluster = id
             /\ IF i = Len(members)
                THEN job'[j] = Idle /\ newest' = [id |-> id, members |-> members, age |-> 0]
                ELSE /\ newest' = newest /\ job'[j].pc = "upsert" /\ job'[j].id = id
                     /\ job'[j].members = members /\ job'[j].written = i
<1> DEFINE id == job[j].id
           members == job[j].members
           i == job[j].written + 1
<1>1. /\ Forms(j) /\ id \in Ids /\ IsTeam(members) /\ i \in 1..Len(members) /\ i \in Nat
      /\ members[i] \in Nodes /\ members \in Seq(Nodes) /\ i - 1 = job[j].written
      /\ row' = [row EXCEPT ![members[i]] = RowOf(id, members, i)]
      /\ rewritten' = rewritten \ {members[i]} /\ pipe' = pipe
      /\ \/ i = Len(members) /\ Remember(j) /\ Becomes(j, Idle)
         \/ /\ i # Len(members) /\ UNCHANGED <<oldest, newest>>
            /\ Becomes(j, Writing(id, members, i))
  BY UpsertIs DEF IsTeam
<1>2. Forms(j) => \A n \in Nodes \ rewritten : row[n].cluster = id =>
        \E k \in 1..job[j].written : n = members[k] /\ row[n] = RowOf(id, members, k)
  BY DEF IInv, Own
<1>3. \A k \in Jobs : k # j /\ job[k].pc = "upsert" => job[k].id # id
  BY <1>1 DEF IInv, Forming, Forms
<1>4. id # 0
  BY <1>1 DEF IInv, Forming
<1>5. Remember(j) => newest' = [id |-> id, members |-> members, age |-> 0]
  BY DEF Remember
<1> HIDE DEF id, members, i
<1>6. \A n \in Nodes : row'[n] = IF n = members[i] THEN RowOf(id, members, i) ELSE row[n]
  BY <1>1 DEF IInv, Types
<1>7. RowOf(id, members, i).cluster = id
  BY <1>1, RowOfIs
<1>8. Becomes(j, Idle) => job'[j] = Idle /\ \A k \in Jobs : k # j => job'[k] = job[k]
  BY IdleIs, BecomesIs DEF IInv
<1>9. Becomes(j, Writing(id, members, i)) =>
        /\ job'[j].pc = "upsert" /\ job'[j].id = id /\ job'[j].members = members
        /\ job'[j].written = i /\ \A k \in Jobs : k # j => job'[k] = job[k]
  BY <1>1, WritingIs, BecomesIs DEF IInv
<1>10. \A n \in Nodes \ rewritten : row[n].cluster = id =>
         \E k \in 1..i - 1 : n = members[k] /\ row[n] = RowOf(id, members, k)
  BY <1>1, <1>2
<1>11. \A k \in Jobs : k # j => job'[k] = job[k]
  BY <1>1, <1>8, <1>9
<1>12. IF i = Len(members)
       THEN job'[j] = Idle /\ newest' = [id |-> id, members |-> members, age |-> 0]
       ELSE /\ newest' = newest /\ job'[j].pc = "upsert" /\ job'[j].id = id
            /\ job'[j].members = members /\ job'[j].written = i
  BY <1>1, <1>5, <1>8, <1>9
<1>13. /\ id \in Ids /\ id # 0 /\ IsTeam(members) /\ i \in 1..Len(members) /\ members[i] \in Nodes
       /\ rewritten' = rewritten \ {members[i]} /\ pipe' = pipe
  BY <1>1, <1>4
<1> QED
  BY <1>3, <1>6, <1>7, <1>10, <1>11, <1>12, <1>13, Zenon DEF id, members, i

LEMMA UpsertForming ==
  ASSUME IInv, NEW j \in Jobs, Upsert(j) PROVE Forming'
<1> DEFINE id == job[j].id
           members == job[j].members
           i == job[j].written + 1
<1>1. /\ id # 0 /\ IsTeam(members) /\ i \in 1..Len(members)
      /\ \A k \in Jobs : k # j => job'[k] = job[k]
      /\ \A k \in Jobs : k # j /\ job[k].pc = "upsert" => job[k].id # id
      /\ IF i = Len(members)
         THEN job'[j] = Idle
         ELSE /\ job'[j].pc = "upsert" /\ job'[j].id = id
              /\ job'[j].members = members /\ job'[j].written = i
  BY UpsertDoes
<1> HIDE DEF id, members, i
<1>2. i # Len(members) => i < Len(members)
  BY <1>1 DEF IsTeam
<1>3. IF job'[j].pc = "upsert"
      THEN /\ job'[j].id = id /\ id # 0 /\ IsTeam(job'[j].members)
           /\ job'[j].written < Len(job'[j].members)
      ELSE job'[j].id = 0 /\ job'[j].written = 0
  <2>1. CASE i = Len(members)
    BY <1>1, <2>1, IdleIs
  <2>2. CASE i # Len(members)
    BY <1>1, <1>2, <2>2
  <2> QED
    BY <2>1, <2>2
<1>4. \A k \in Jobs : IF job'[k].pc = "upsert"
                     THEN /\ job'[k].id # 0 /\ IsTeam(job'[k].members)
                          /\ job'[k].written < Len(job'[k].members)
                     ELSE job'[k].id = 0 /\ job'[k].written = 0
  <2> TAKE k \in Jobs
  <2>1. CASE k = j
    BY <1>3, <2>1
  <2>2. CASE k # j
    BY <1>1, <2>2 DEF IInv, Forming, Forms
  <2> QED
    BY <2>1, <2>2
<1>5. \A k, l \in Jobs : job'[k].pc = "upsert" /\ job'[l].pc = "upsert"
                         /\ job'[k].id = job'[l].id => k = l
  <2>1. \A k, l \in Jobs : job[k].pc = "upsert" /\ job[l].pc = "upsert"
                           /\ job[k].id = job[l].id => k = l
    BY DEF IInv, Forming, Forms
  <2> QED
    BY <1>1, <1>3, <2>1
<1> QED
  BY <1>4, <1>5, Zenon DEF Forming, Forms, IsTeam

LEMMA UpsertOwn ==
  ASSUME IInv, NEW j \in Jobs, Upsert(j) PROVE Own'
<1> DEFINE id == job[j].id
           members == job[j].members
           i == job[j].written + 1
<1> SUFFICES ASSUME NEW k \in Jobs, NEW n \in Nodes \ rewritten',
                    job'[k].pc = "upsert", row'[n].cluster = job'[k].id
             PROVE  \E h \in 1..job'[k].written :
                      /\ n = job'[k].members[h]
                      /\ row'[n] = RowOf(job'[k].id, job'[k].members, h)
  BY DEF Own, Forms
<1>1. /\ i \in 1..Len(members) /\ IsTeam(members)
      /\ \A m \in Nodes : row'[m] = IF m = members[i] THEN RowOf(id, members, i) ELSE row[m]
      /\ rewritten' = rewritten \ {members[i]}
      /\ k # j => job'[k] = job[k]
      /\ \A m \in Nodes \ rewritten : row[m].cluster = id =>
           \E h \in 1..i - 1 : m = members[h] /\ row[m] = RowOf(id, members, h)
      /\ k # j /\ job[k].pc = "upsert" => job[k].id # id
      /\ RowOf(id, members, i).cluster = id
      /\ IF i = Len(members)
         THEN job'[j] = Idle
         ELSE /\ job'[j].pc = "upsert" /\ job'[j].id = id
              /\ job'[j].members = members /\ job'[j].written = i
  BY UpsertDoes
<1> HIDE DEF id, members, i
<1>2. i \in Nat /\ i > 0
  BY <1>1 DEF IsTeam
<1>3. CASE k = j
  <2>1. job'[j].id = id /\ job'[j].members = members /\ job'[j].written = i
    BY <1>1, <1>3, IdleIs
  <2>2. CASE n = members[i]
    BY <1>1, <1>2, <1>3, <2>1, <2>2
  <2>3. CASE n # members[i]
    <3>1. PICK h \in 1..i - 1 : n = members[h] /\ row[n] = RowOf(id, members, h)
      BY <1>1, <1>3, <2>1, <2>3
    <3>2. h \in 1..i /\ row'[n] = row[n]
      BY <1>1, <1>2, <2>3
    <3> QED
      BY <1>3, <2>1, <3>1, <3>2
  <2> QED
    BY <2>2, <2>3
<1>4. CASE k # j
  <2>1. job'[k] = job[k] /\ n # members[i] /\ row'[n] = row[n] /\ n \notin rewritten
    BY <1>1, <1>4
  <2> QED
    BY <2>1 DEF IInv, Own, Forms
<1> QED
  BY <1>3, <1>4

\* The rows of two members of a cluster share no layer.
LEMMA Apart ==
  ASSUME NEW id \in Ids, NEW members \in Seq(Nodes), NEW i \in 1..Len(members),
         NEW k \in 1..i - 1, NEW l \in 0..Layers - 1
  PROVE  LET a == RowOf(id, members, i)
             b == RowOf(id, members, k)
         IN  ~(a.first <= l /\ l < a.last /\ b.first <= l /\ l < b.last)
<1> DEFINE up == LayersUpTo(members)
           n == Len(members)
<1>0. n \in Nat
  OBVIOUS
<1>1. /\ \A m \in 0..n : up[m] \in 0..Layers
      /\ \A m, o \in 0..n : m <= o => up[m] <= up[o]
  BY UpToGrows
<1>2. k \in 1..n /\ k \in 0..n /\ i - 1 \in 0..n /\ i \in 0..n /\ k <= i - 1 /\ i \in 1..n
  BY <1>0
<1>3. RowOf(id, members, i).first = up[i - 1] /\ RowOf(id, members, k).last = up[k]
  BY <1>2, RowOfIs
<1> HIDE DEF up, n
<1>4. up[k] <= up[i - 1] /\ up[k] \in Nat /\ up[i - 1] \in Nat /\ l \in Nat
  BY <1>1, <1>2, ClusterAssumption
<1>5. ~(up[i - 1] <= l /\ l < up[k])
  BY <1>4
<1> QED
  BY <1>3, <1>5

LEMMA UpsertShares ==
  ASSUME IInv, NEW j \in Jobs, Upsert(j) PROVE SharesFit'
<1> DEFINE id == job[j].id
           members == job[j].members
           i == job[j].written + 1
           new == RowOf(id, members, i)
<1>1. /\ id \in Ids /\ members \in Seq(Nodes) /\ i \in 1..Len(members) /\ members[i] \in Nodes
      /\ \A n \in Nodes : row'[n] = IF n = members[i] THEN new ELSE row[n]
      /\ rewritten' = rewritten \ {members[i]}
      /\ \A n \in Nodes \ rewritten : row[n].cluster = id =>
           \E k \in 1..i - 1 : n = members[k] /\ row[n] = RowOf(id, members, k)
      /\ new.cluster = id
  BY UpsertDoes DEF IsTeam
<1> HIDE DEF id, members, i
<1>2. new.last - new.first <= Larger(1, MemoryCap)
  BY <1>1, RowOfIs, UpToGrows
<1>3. ASSUME NEW o \in Nodes \ rewritten, o # members[i], row[o].cluster = id,
             NEW l \in 0..Layers - 1
      PROVE  ~(new.first <= l /\ l < new.last /\ row[o].first <= l /\ l < row[o].last)
  <2>1. PICK k \in 1..i - 1 : row[o] = RowOf(id, members, k)
    BY <1>1, <1>3
  <2> QED
    BY <1>1, <2>1, Apart
<1> HIDE DEF new
<1> SUFFICES ASSUME NEW n \in Nodes \ rewritten', row'[n].cluster # 0
             PROVE  /\ row'[n].last - row'[n].first <= Larger(1, MemoryCap)
                    /\ \A o \in Nodes \ (rewritten' \cup {n}) : row'[o].cluster = row'[n].cluster =>
                         \A l \in 0..Layers - 1 :
                           ~(/\ row'[n].first <= l /\ l < row'[n].last
                             /\ row'[o].first <= l /\ l < row'[o].last)
  BY DEF SharesFit, Holds
<1>4. \A m \in Nodes \ rewritten : row[m].cluster # 0 =>
        /\ row[m].last - row[m].first <= Larger(1, MemoryCap)
        /\ \A o \in Nodes \ (rewritten \cup {m}) : row[o].cluster = row[m].cluster =>
             \A l \in 0..Layers - 1 :
               ~(/\ row[m].first <= l /\ l < row[m].last
                 /\ row[o].first <= l /\ l < row[o].last)
  BY DEF IInv, SharesFit, Holds
<1>5. row'[n].last - row'[n].first <= Larger(1, MemoryCap)
  BY <1>1, <1>2, <1>4
<1>6. ASSUME NEW o \in Nodes \ (rewritten' \cup {n}), row'[o].cluster = row'[n].cluster, NEW l \in 0..Layers - 1
      PROVE  ~(/\ row'[n].first <= l /\ l < row'[n].last
               /\ row'[o].first <= l /\ l < row'[o].last)
  <2>1. CASE n = members[i]
    <3>1. /\ row'[n] = new /\ row'[o] = row[o] /\ o # members[i] /\ row[o].cluster = id
          /\ o \notin rewritten
      BY <1>1, <1>6, <2>1
    <3> QED
      BY <1>3, <3>1
  <2>2. CASE o = members[i]
    <3>1. /\ row'[o] = new /\ row'[n] = row[n] /\ n # members[i] /\ row[n].cluster = id
          /\ n \notin rewritten
      BY <1>1, <1>6, <2>2
    <3> QED
      BY <1>3, <3>1
  <2>3. CASE n # members[i] /\ o # members[i]
    <3>1. row'[o] = row[o] /\ row'[n] = row[n] /\ o \notin rewritten /\ n \notin rewritten
      BY <1>1, <2>3
    <3> QED
      BY <1>4, <1>6, <3>1
  <2> QED
    BY <2>1, <2>2, <2>3
<1> QED
  BY <1>5, <1>6

LEMMA UpsertKept ==
  ASSUME IInv, NEW j \in Jobs, Upsert(j) PROVE Kept'
<1> DEFINE id == job[j].id
           members == job[j].members
           i == job[j].written + 1
           info == [id |-> id, members |-> members, age |-> 0]
<1>1. /\ IsTeam(members) /\ i \in 1..Len(members) /\ members[i] \in Nodes
      /\ \A n \in Nodes : row'[n] = IF n = members[i] THEN RowOf(id, members, i) ELSE row[n]
      /\ RowOf(id, members, i).cluster = id /\ pipe' = pipe
      /\ \A k \in Jobs : k # j => job'[k] = job[k]
      /\ \A k \in Jobs : k # j /\ job[k].pc = "upsert" => job[k].id # id
      /\ IF i = Len(members)
         THEN job'[j] = Idle /\ newest' = info
         ELSE /\ newest' = newest /\ job'[j].pc = "upsert" /\ job'[j].id = id
              /\ job'[j].members = members /\ job'[j].written = i
  BY UpsertDoes
<1>2. \A k \in Jobs, n \in Nodes :
        job[k].pc = "upsert" /\ Named(job[k].id, n) => n \in Range(job[k].members)
  BY DEF IInv, Kept, Forms
<1>3. newest # NoCluster =>
        /\ IsTeam(newest.members)
        /\ \A n \in Nodes : Named(newest.id, n) => n \in Range(newest.members)
        /\ \A k \in Jobs : job[k].pc = "upsert" => job[k].id # newest.id
  BY DEF IInv, Kept, Forms
<1>4. job[j].pc = "upsert" /\ job[j].id = id /\ job[j].members = members
  BY DEF Upsert
<1>5. info.id = id /\ info.members = members
  OBVIOUS
<1> HIDE DEF id, members, i, info
<1>6. members[i] \in Range(members)
  BY <1>1 DEF Range, IsTeam
<1> DEFINE Then(other, n) ==
             row'[n].cluster = other \/ \E o \in Operations : pipe[o].entity[n].cluster = other
<1>7. ASSUME NEW other, other # id, NEW n \in Nodes, Then(other, n) PROVE Named(other, n)
  BY <1>1, <1>7 DEF Named
<1>8. ASSUME NEW n \in Nodes, Then(id, n) PROVE n \in Range(members)
  <2>1. CASE n = members[i]
    BY <1>6, <2>1
  <2>2. CASE n # members[i]
    <3>1. Named(id, n)
      BY <1>1, <1>8, <2>2 DEF Named
    <3> QED
      BY <1>2, <1>4, <3>1
  <2> QED
    BY <2>1, <2>2
<1> HIDE DEF Then
<1>9. ASSUME NEW k \in Jobs, NEW n \in Nodes, job'[k].pc = "upsert", Then(job'[k].id, n)
      PROVE  n \in Range(job'[k].members)
  <2>1. CASE k = j
    <3>1. job'[j].id = id /\ job'[j].members = members
      BY <1>1, <1>9, <2>1, IdleIs
    <3> QED
      BY <1>8, <1>9, <2>1, <3>1
  <2>2. CASE k # j
    <3>1. job'[k] = job[k] /\ job[k].id # id
      BY <1>1, <1>9, <2>2
    <3>2. Named(job[k].id, n)
      BY <1>7, <1>9, <3>1
    <3> QED
      BY <1>2, <1>9, <3>1, <3>2
  <2> QED
    BY <2>1, <2>2
<1>10. newest' # NoCluster =>
         /\ IsTeam(newest'.members)
         /\ \A n \in Nodes : Then(newest'.id, n) => n \in Range(newest'.members)
         /\ \A k \in Jobs : job'[k].pc = "upsert" => job'[k].id # newest'.id
  <2>1. CASE i = Len(members)
    <3>1. job'[j] = Idle /\ newest' = info
      BY <1>1, <2>1
    <3>2. \A k \in Jobs : job'[k].pc = "upsert" => job'[k].id # id
      BY <1>1, <3>1, IdleIs
    <3> QED
      BY <1>1, <1>5, <1>8, <3>1, <3>2
  <2>2. CASE i # Len(members)
    <3>1. newest' = newest /\ job'[j].pc = "upsert" /\ job'[j].id = id
      BY <1>1, <2>2
    <3>2. newest # NoCluster => newest.id # id
      BY <1>3, <1>4
    <3>3. newest # NoCluster => \A k \in Jobs : job'[k].pc = "upsert" => job'[k].id # newest.id
      BY <1>1, <1>3, <3>1, <3>2
    <3> QED
      BY <1>3, <1>7, <3>1, <3>2, <3>3
  <2> QED
    BY <2>1, <2>2
<1>11. pipe' = pipe
  BY <1>1
<1> QED
  BY <1>9, <1>10, <1>11 DEF Kept, Forms, Named, Then, IsTeam

LEMMA UpsertWhole ==
  ASSUME IInv, NEW j \in Jobs, Upsert(j) PROVE Whole'
<1> DEFINE id == job[j].id
           members == job[j].members
           i == job[j].written + 1
           info == [id |-> id, members |-> members, age |-> 0]
<1> SUFFICES ASSUME ~disturbed' PROVE Whole'
  BY DEF Whole
<1>1. /\ IsTeam(members) /\ i \in 1..Len(members)
      /\ \A n \in Nodes : row'[n] = IF n = members[i] THEN RowOf(id, members, i) ELSE row[n]
      /\ \A k \in Jobs : k # j => job'[k] = job[k]
      /\ rewritten' = rewritten \ {members[i]}
      /\ IF i = Len(members)
         THEN job'[j] = Idle /\ newest' = info
         ELSE /\ newest' = newest /\ job'[j].pc = "upsert" /\ job'[j].id = id
              /\ job'[j].members = members /\ job'[j].written = i
  BY UpsertDoes
<1>2. job[j].pc = "upsert" /\ ~disturbed
  BY DEF Upsert
<1>3. \A k \in Jobs : k # j => job[k].pc = "idle" /\ job[k].written = 0
  BY <1>2 DEF IInv, Whole, Forming, Forms
<1>4. \A k \in 1..i - 1 : members[k] \notin rewritten => row[members[k]] = RowOf(id, members, k)
  <2>1. i - 1 = job[j].written
    BY DEF IInv, Types, JobState
  <2> QED
    BY <1>2, <2>1 DEF IInv, Whole, InTable
<1> HIDE DEF id, members, i
<1>5. members \in Seq(Nodes) /\ i \in Nat /\ i > 0 /\ Len(members) \in Nat
  BY <1>1 DEF IsTeam
<1>6. \A k \in 1..Len(members) : members[k] \in Nodes /\ (members[k] = members[i] => k = i)
  <2>1. DOMAIN members = 1..Len(members) /\ \A k \in 1..Len(members) : members[k] \in Nodes
    BY <1>5
  <2>2. \A k, l \in DOMAIN members : members[k] = members[l] => k = l
    BY <1>1, Zenon DEF IsTeam, IsInjective
  <2> QED
    BY <1>1, <2>1, <2>2, Zenon
<1>7. \A k \in 1..i : members[k] \notin rewritten' => row'[members[k]] = RowOf(id, members, k)
  <2> TAKE k \in 1..i
  <2>1. k \in 1..Len(members) /\ (k # i => k \in 1..i - 1)
    BY <1>1, <1>5
  <2> QED
    BY <1>1, <1>4, <1>6, <2>1
<1>8. \A k, l \in Jobs : job'[k].pc # "idle" /\ job'[l].pc # "idle" => k = l
  BY <1>1, <1>3
<1>9. ASSUME NEW k \in Jobs, NEW h \in 1..job'[k].written, job'[k].members[h] \notin rewritten'
      PROVE  row'[job'[k].members[h]] = RowOf(job'[k].id, job'[k].members, h)
  <2>1. k = j
    BY <1>1, <1>3, <1>9
  <2>2. i # Len(members)
    BY <1>1, <1>9, <2>1, IdleIs
  <2> QED
    BY <1>1, <1>7, <1>9, <2>1, <2>2
<1>10. ASSUME \A k \in Jobs : job'[k].written = 0
       PROVE  i = Len(members) /\ newest' = info
  BY <1>1, <1>5, <1>10
<1>11. info.id = id /\ info.members = members
  OBVIOUS
<1> HIDE DEF info
<1>12. newest' # NoCluster /\ (\A k \in Jobs : job'[k].written = 0) =>
         \A k \in 1..Len(newest'.members) :
           newest'.members[k] \notin rewritten' =>
             row'[newest'.members[k]] = RowOf(newest'.id, newest'.members, k)
  BY <1>1, <1>7, <1>10, <1>11
<1> QED
  BY <1>8, <1>9, <1>12, WholeThen DEF InTable

LEMMA UpsertInv ==
  ASSUME IInv, NEW j \in Jobs, Upsert(j) PROVE IInv'
  BY UpsertTypes, UpsertForming, UpsertOwn, UpsertShares, UpsertKept, UpsertWhole DEF IInv

-----------------------------------------------------------------------------
(* The theorems. *)

LEMMA StepInv == IInv /\ [Next]_vars => IInv'
<1> SUFFICES ASSUME IInv, [Next]_vars PROVE IInv'
  OBVIOUS
<1>1. ASSUME NEW n \in Nodes, Join(n) PROVE IInv'
  BY <1>1, JoinInv
<1>2. ASSUME NEW n \in Nodes, Leave(n) PROVE IInv'
  BY <1>2, LeaveInv
<1>3. ASSUME NEW o \in Operations, Pipeline(o) PROVE IInv'
  BY <1>3, PipelineInv
<1>4. CASE Tick
  BY <1>4, TickInv
<1>5. ASSUME NEW j \in Jobs, ReadNodes(j) PROVE IInv'
  BY <1>5, ReadNodesInv
<1>6. ASSUME NEW j \in Jobs, Decide(j) PROVE IInv'
  BY <1>6, DecideInv
<1>7. ASSUME NEW j \in Jobs, Upsert(j) PROVE IInv'
  BY <1>7, UpsertInv
<1>8. ASSUME NEW j \in Jobs, Fail(j) PROVE IInv'
  BY <1>8, FailInv
<1>9. CASE Restart
  BY <1>9, RestartInv
<1>10. CASE UNCHANGED vars
  <2>1. UNCHANGED <<eligible, table, oldest, newest, offline, job, pipe, disturbed, faults>>
    BY <1>10 DEF vars, cache
  <2>2. Types'
    BY <2>1 DEF IInv, Types, table
  <2> QED
    BY <2>1, <2>2, TableStays DEF IInv
<1> QED
  BY <1>1, <1>2, <1>3, <1>4, <1>5, <1>6, <1>7, <1>8, <1>9, <1>10 DEF Next, Run

\* What the theorems rest on: besides the types and the shares, only a run that forms
\* a cluster (formClusterFromNodes) has a new id and members, each of them once; of the
\* rows PipelineService has not changed since, only those upsertClusterAssignment has
\* written for it have that id, and what PipelineService puts back or has still to save
\* are rows of members; and in an undisturbed process those rows, and the rows of the
\* newest entry of the Map, stay.
THEOREM Inductive == Spec => []IInv
  BY InitInv, StepInv, PTL DEF Spec

\* The columns, the entries of the Map, the runs in flight and the timestamps have
\* their types: every id fits, the layers of every row are layers of the model, and a
\* run in upsertClusterAssignment always has a member left to write.
THEOREM TypeCorrect == Spec => []TypeOK
<1>1. IInv => TypeOK
  <2> SUFFICES ASSUME IInv PROVE TypeOK
    OBVIOUS
  <2>3. ASSUME NEW o \in Operations
        PROVE  /\ pipe[o].pc \in Phases
               /\ pipe[o].todo \in Seq(Nodes) /\ pipe[o].entity \in [Nodes -> Row]
    BY DEF IInv, Types, PipeState
  <2>1. ASSUME NEW j \in Jobs
        PROVE  /\ job[j].pc \in Stages /\ job[j].nodes \subseteq Nodes
               /\ job[j].id \in Ids \cup {0} /\ job[j].members \in Seq(Nodes)
               /\ job[j].written \in Nat
    BY DEF IInv, Types, JobState
  <2>2. ASSUME NEW j \in Jobs, job[j].pc = "upsert"
        PROVE  job[j].written \in 0..Len(job[j].members) - 1
    <3>1. Len(job[j].members) \in Nat
      BY <2>1
    <3>2. job[j].written < Len(job[j].members)
      BY <2>2 DEF IInv, Forming, Forms
    <3> QED
      BY <2>1, <3>1, <3>2
  <2> QED
    BY <2>1, <2>2, <2>3 DEF TypeOK, IInv, Types
<1> QED
  BY <1>1, Inductive, PTL

\* Whatever the speeds, the memory and the number of members, while formClusterFromNodes
\* writes one row after another, after a formation that failed, when runs of the cron
\* job overlap, and while PipelineService removes, splits and overwrites rows at any
\* moment: of the nodes whose row a formation was the last to change, two that name one
\* cluster hold no layer both, and none holds more layers than its memory.
THEOREM SharesAlwaysFit == Spec => []SharesFit
  BY Inductive, PTL DEF IInv

\* In a process in which no two runs overlapped and no formation broke off, the newest
\* entry of the Map ("Source of truth is DB, this is cache"), if PipelineService was not
\* the last to change a row of a member, is what getNodeAssignment tells its coordinator:
\* it leads exactly the other members, and the layers go from one to the next from layer
\* 0 on, to the last layer or to what the last member can hold.  Stale copies of rows that
\* PipelineService saves bring nobody into the cluster.
THEOREM RememberedWhole == Spec => []RememberedIsWhole
<1>1. IInv => RememberedIsWhole
  <2> SUFFICES ASSUME IInv, Quiet, ~disturbed, newest # NoCluster,
                      Range(newest.members) \cap rewritten = {}
               PROVE  RememberedIsWhole
    BY DEF RememberedIsWhole
  <2> DEFINE id == newest.id
             members == newest.members
             n == Len(members)
             up == LayersUpTo(members)
  <2>1. \A j \in Jobs : job[j].written = 0
    BY DEF Quiet, IInv, Forming, Forms
  <2>2. /\ IsTeam(members) /\ InTable(id, members, n)
        /\ \A m \in Nodes : Named(id, m) => m \in Range(members)
        /\ Range(members) \cap rewritten = {}
    BY <2>1 DEF IInv, Whole, Kept
  <2>3. id \in Ids
    BY DEF IInv, Types, Entry
  <2> HIDE DEF id, members
  <2>4. members \in Seq(Nodes) /\ n \in Nat /\ n > 0 /\ DOMAIN members = 1..n
    BY <2>2 DEF IsTeam
  <2>5. \A i \in 1..n : /\ row[members[i]].cluster = id
                        /\ row[members[i]].first = up[i - 1] /\ row[members[i]].last = up[i]
                        /\ row[members[i]].mode = IF i = 1 THEN "coordinator" ELSE "rpc-server"
    <3>1. \A i \in 1..n : members[i] \notin rewritten
      BY <2>2, <2>4 DEF Range
    <3> QED
      BY <2>2, <2>3, <2>4, <3>1, RowOfIs DEF InTable
  <2>6. up[0] = 0 /\ (up[n] = Layers \/ up[n] - up[n - 1] = Larger(1, MemoryCap))
    BY <2>4, UpToGrows
  <2> HIDE DEF up, n
  <2>7. 1 \in 1..n /\ n \in 1..n /\ \A i \in 1..n - 1 : i \in 1..n /\ i + 1 \in 1..n
    BY <2>4
  <2>8. row[members[1]].mode = "coordinator" /\ row[members[1]].first = 0
    BY <2>5, <2>6, <2>7
  <2>9. \A i \in 1..n - 1 : row[members[i]].last = row[members[i + 1]].first
    <3> TAKE i \in 1..n - 1
    <3>1. (i + 1) - 1 = i
      OBVIOUS
    <3> QED
      BY <2>5, <2>7, <3>1
  <2>10. row[members[n]].last = Layers
         \/ row[members[n]].last - row[members[n]].first = Larger(1, MemoryCap)
    BY <2>5, <2>6, <2>7
  <2>11. Team(members[1]) = Range(members)
    <3>1. row[members[1]].cluster = id /\ members[1] \in Range(members)
      BY <2>4, <2>5, <2>7 DEF Range
    <3>2. Team(members[1]) \subseteq Range(members)
      BY <2>2, <3>1 DEF Team, Peers, Named
    <3>3. ASSUME NEW i \in 1..n PROVE members[i] \in Team(members[1])
      <4>1. members[i] \in Nodes
        BY <2>4
      <4> QED
        BY <2>5, <3>1, <4>1 DEF Team, Peers
    <3>4. Range(members) \subseteq Team(members[1])
      BY <2>4, <3>3 DEF Range
    <3> QED
      BY <3>2, <3>4
  <2> QED
    BY <2>8, <2>9, <2>10, <2>11 DEF RememberedIsWhole, members, n
<1> QED
  BY <1>1, Inductive, PTL

=============================================================================

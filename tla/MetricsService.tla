--------------------------- MODULE MetricsService ---------------------------
(***************************************************************************)
(* The handler of a usage report, MetricsService.recordMetrics, with the   *)
(* restart of the process, the inference_metrics table, the agents that    *)
(* sign the reports and the network that carries them.                     *)
(*                                                                         *)
(* An agent reports CUMULATIVE counters (tokens, requests).  The oracle    *)
(* credits the difference to the counters it saw last, kept in memory, and *)
(* takes a smaller counter for an agent that started again from zero.  One *)
(* handler is one in-flight HTTP request; every await of the handler is a  *)
(* step boundary, and the code between two awaits is one atomic step.      *)
(***************************************************************************)
EXTENDS Integers, Sequences

CONSTANTS
  Wallets,          \* agents, by lowercase address
  Handlers,         \* requests the process may have in flight at once
  Counters,         \* the cumulative counters of a report
  NoReport,         \* what an idle handler holds
  TokenLimit,       \* MAX_TOKENS_PER_REPORT
  Overlap,          \* may two reports of one wallet be in flight together?
  MaxEpoch,         \* bound: the last epoch of the chain
  MaxProven,        \* bound: the last report of an agent that carries proofs
  MaxClock,         \* bound: the reports an agent signs
  MaxStep,          \* bound: the work an agent does between two reports
  ProofLists,       \* bound: the proofs a report may carry
  MaxFaults         \* bound: how often each kind of fault occurs

FaultKinds == {"restart", "read", "write", "reset", "silence"}

\* An inference proof: the tokens it claims, and whether its hashes are dummies.
Proof == [tokens: Nat, dummy: BOOLEAN]
ProofList == Seq(Proof)

ASSUME TokensAssumption == "tokens" \in Counters
ASSUME ProofsAssumption == ProofLists \subseteq ProofList
ASSUME BoundsAssumption ==
  /\ MaxEpoch \in Nat \ {0}
  /\ MaxProven \in Nat /\ MaxClock \in Nat
  /\ MaxStep \in Nat
  /\ TokenLimit \in Nat
  /\ MaxFaults \in [FaultKinds -> Nat]
  /\ Overlap \in BOOLEAN

VARIABLES
  tracked,    \* the three Maps: last raw counters and last timestamp
  uptimes,    \* wallets with an entry in the scorer's agentUptimes
  req,        \* the in-flight requests
  row,        \* table inference_metrics, unique on (wallet, epoch)
  proofs,     \* table inference_proofs, by id
  node,       \* table agent_nodes: status
  fresh,      \* wallets whose pipeline_assignments.updatedAt is recent
  epoch,      \* RewardPool.getCurrentEpoch
  agent,      \* the agents: counters since their last reset, work, clock
  sent,       \* reports signed so far; delivered in any order, any number of times
  credited,   \* history: total of the credit in the rows of a wallet
  booked,     \* history: timestamps of the reports saved for a wallet
  forgotten,  \* history: wallets a restart lost the baseline of
  faults      \* faults that may still occur

memory  == <<tracked, uptimes, req>>
tables  == <<row, proofs, node, fresh>>
world   == <<epoch, agent, sent>>
history == <<credited, booked, forgotten>>
vars    == <<memory, tables, world, history, faults>>

Epochs == 1..MaxEpoch
Count  == [Counters -> Nat]
Zero   == [c \in Counters |-> 0]

\* work is a history field: what the agent had really done when it signed.
Report   == [wallet: Wallets, ts: Nat, cum: Count, proofs: ProofList, work: Count]
Row      == [present: BOOLEAN, acc: Count, raw: Count, ts: Nat]
NoRow    == [present |-> FALSE, acc |-> Zero, raw |-> Zero, ts |-> 0]
Tracked  == [raw: Count, ts: Nat]
Nothing  == [raw |-> Zero, ts |-> 0]
\* The row of a proof; that it is number n of the report signed at ts is history.
ProofRow == [wallet: Wallets, epoch: Epochs, claim: Proof, verified: BOOLEAN,
             ts: Nat, n: Nat]
ProofTable == Seq(ProofRow)
Stages   == {"epoch", "row", "count", "save", "node", "touch", "proofs", "verify", "mark"}
Saved    == {"node", "touch", "proofs", "verify", "mark"}
\* n: how many proofs of the report have been saved; id: the row of the last one.
IdleReq  == [pc |-> "idle", msg |-> NoReport, epoch |-> 1, row |-> NoRow, n |-> 0, id |-> 0]

Busy(h)      == req[h].pc # "idle"
Quiet(w)     == \A h \in Handlers : Busy(h) => req[h].msg.wallet # w
Suffer(kind) == /\ faults[kind] > 0
                /\ faults' = [faults EXCEPT ![kind] = @ - 1]

(***************************************************************************)
(* The agents.  Timestamps are strictly increasing, work is never negative *)
(* and an agent may start its counters again at zero (its own restart, or  *)
(* the shouldReset the oracle answered).  Nothing relates the proofs of a  *)
(* report to its counters.                                                 *)
(***************************************************************************)
Attached(now) == IF now <= MaxProven THEN ProofLists ELSE {<<>>}

SendReport(w) ==
  /\ agent[w].clock < MaxClock
  /\ \E inc \in [Counters -> 0..MaxStep] :
       LET cum  == [c \in Counters |-> agent[w].cum[c] + inc[c]]
           work == [c \in Counters |-> agent[w].work[c] + inc[c]]
           now  == agent[w].clock + 1
       IN  /\ agent' = [agent EXCEPT ![w] = [cum |-> cum, work |-> work, clock |-> now]]
           /\ \E list \in Attached(now) :
                sent' = sent \cup {[wallet |-> w, ts |-> now, cum |-> cum,
                                    proofs |-> list, work |-> work]}
  /\ UNCHANGED <<memory, tables, epoch, history, faults>>

AgentReset(w) ==
  /\ Suffer("reset")
  /\ agent' = [agent EXCEPT ![w].cum = Zero]
  /\ UNCHANGED <<memory, tables, epoch, sent, history>>

AdvanceEpoch ==
  /\ epoch < MaxEpoch
  /\ epoch' = epoch + 1
  /\ UNCHANGED <<memory, tables, agent, sent, history, faults>>

(***************************************************************************)
(* recordMetrics.                                                          *)
(***************************************************************************)
\* ensureNodeRegistered: a first report creates the node, as active.
EnsureNodeRegistered(w) ==
  node' = [node EXCEPT ![w] = IF @ = "absent" THEN "active" ELSE @]

\* Mutant: no monotonic timestamp guard.
AcceptsAnyTime(m) == m.cum["tokens"] <= TokenLimit
\* Mutant: a report that brings no new tokens is taken for a replay.
AcceptsNewTokens(m) ==
  m.ts > tracked[m.wallet].ts /\ m.cum["tokens"] > tracked[m.wallet].raw["tokens"]

Accepts(m) == m.ts > tracked[m.wallet].ts /\ m.cum["tokens"] <= TokenLimit

Deliver(h, m) == ~Busy(h) /\ (Overlap \/ Quiet(m.wallet))

Admit(h, m) ==
  /\ Deliver(h, m)
  /\ Accepts(m)
  /\ EnsureNodeRegistered(m.wallet)
  /\ req' = [req EXCEPT ![h] = [IdleReq EXCEPT !.pc = "epoch", !.msg = m]]
  /\ UNCHANGED <<tracked, uptimes, row, proofs, fresh, world, history, faults>>

Reject(h, m) ==
  /\ Deliver(h, m)
  /\ ~Accepts(m)
  /\ EnsureNodeRegistered(m.wallet)
  /\ UNCHANGED <<memory, row, proofs, fresh, world, history, faults>>

ReadEpoch(h) ==
  /\ req[h].pc = "epoch"
  /\ req' = [req EXCEPT ![h].pc = "row", ![h].epoch = epoch]
  /\ UNCHANGED <<tracked, uptimes, tables, world, history, faults>>

\* findOne takes its answer from the table now; the handler goes on later.
ReadRow(h) ==
  /\ req[h].pc = "row"
  /\ req' = [req EXCEPT ![h].pc = "count",
                        ![h].row = row[req[h].msg.wallet][req[h].epoch]]
  /\ UNCHANGED <<tracked, uptimes, tables, world, history, faults>>

\* Mutant: no reset detection.
SignedDelta(old, new) == new - old
\* Mutant: an unchanged counter is taken for a reset as well.
EagerDelta(old, new) == IF new <= old THEN new ELSE new - old

\* A smaller counter is taken for a reset, and counts in full.
Delta(old, new) == IF new < old THEN new ELSE new - old

\* Mutant: the row is overwritten with the last delta.
OverwrittenRow(old, base, m) ==
  [present |-> old.present, raw |-> m.cum, ts |-> m.ts,
   acc |-> [c \in Counters |-> Delta(base.raw[c], m.cum[c])]]
\* Mutant: the accumulated sum is persisted as the agent's last raw counters.
SumAsRawRow(old, base, m) ==
  LET acc == [c \in Counters |-> old.acc[c] + Delta(base.raw[c], m.cum[c])]
  IN  [present |-> old.present, raw |-> acc, ts |-> m.ts, acc |-> acc]

\* present stays as it was read: FALSE makes the save an INSERT (isNewEpoch).
NewRow(old, base, m) ==
  [present |-> old.present, raw |-> m.cum, ts |-> m.ts,
   acc |-> [c \in Counters |-> old.acc[c] + Delta(base.raw[c], m.cum[c])]]

Accumulate(h) ==
  LET m == req[h].msg
  IN  /\ req[h].pc = "count"
      /\ req' = [req EXCEPT ![h].pc = "save",
                            ![h].row = NewRow(@, tracked[m.wallet], m)]
      /\ tracked' = [tracked EXCEPT ![m.wallet] = [raw |-> m.cum, ts |-> m.ts]]
      /\ UNCHANGED <<uptimes, tables, world, history, faults>>

\* Mutant: no unique key on (wallet, epoch).
NeverDuplicate(h) == FALSE

\* The INSERT of a row another request inserted meanwhile.
Duplicate(h) ==
  ~req[h].row.present /\ row[req[h].msg.wallet][req[h].epoch].present

Save(h) ==
  LET w   == req[h].msg.wallet
      e   == req[h].epoch
      new == req[h].row
  IN  /\ req[h].pc = "save"
      /\ ~Duplicate(h)
      /\ row' = [row EXCEPT ![w] = [@ EXCEPT ![e] = [new EXCEPT !.present = TRUE]]]
      /\ credited' = [credited EXCEPT ![w] =
                       [c \in Counters |-> @[c] + new.acc[c] - row[w][e].acc[c]]]
      /\ booked' = [booked EXCEPT ![w] = @ \cup {new.ts}]
      /\ req' = [req EXCEPT ![h].pc = "node"]
      /\ UNCHANGED <<tracked, uptimes, proofs, node, fresh, world, forgotten, faults>>

\* The catch of recordMetrics: the Maps keep what Accumulate wrote.
SaveFails(h) ==
  /\ req[h].pc = "save"
  /\ \/ Duplicate(h) /\ UNCHANGED faults
     \/ Suffer("write")
  /\ req' = [req EXCEPT ![h] = IdleReq]
  /\ UNCHANGED <<tracked, uptimes, tables, world, history>>

ReadFails(h) ==
  /\ req[h].pc \in {"epoch", "row"}
  /\ Suffer("read")
  /\ req' = [req EXCEPT ![h] = IdleReq]
  /\ UNCHANGED <<tracked, uptimes, tables, world, history>>

\* updateNodeMetricReport swallows its own errors.
UpdateNodeMetricReport(h) ==
  /\ req[h].pc = "node"
  /\ req' = [req EXCEPT ![h].pc = "touch"]
  /\ \/ /\ node' = [node EXCEPT ![req[h].msg.wallet] =
                      IF @ = "inactive" THEN "active" ELSE @]
        /\ UNCHANGED faults
     \/ Suffer("write") /\ UNCHANGED node
  /\ UNCHANGED <<tracked, uptimes, row, proofs, fresh, world, history>>

\* A failed touch is caught: the answer is a failure, the credit stays.
TouchAssignment(h) ==
  LET w == req[h].msg.wallet
  IN  /\ req[h].pc = "touch"
      /\ \/ /\ fresh' = fresh \cup {w}
            /\ uptimes' = uptimes \cup {w}
            /\ req' = [req EXCEPT ![h].pc = "proofs"]
            /\ UNCHANGED faults
         \/ /\ Suffer("write")
            /\ req' = [req EXCEPT ![h] = IdleReq]
            /\ UNCHANGED <<fresh, uptimes>>
      /\ UNCHANGED <<tracked, row, proofs, node, world, history>>

\* saveProof, once for every proof of the report.  A failed insert ends the loop for
\* the proofs that are left; the answer is a success all the same.
SaveProof(h) ==
  LET m == req[h].msg
      n == req[h].n + 1
  IN  /\ req[h].pc = "proofs"
      /\ n <= Len(m.proofs)
      /\ \/ /\ proofs' = Append(proofs, [wallet |-> m.wallet, epoch |-> req[h].epoch,
                                         claim |-> m.proofs[n], verified |-> FALSE,
                                         ts |-> m.ts, n |-> n])
            /\ req' = [req EXCEPT ![h].pc = "verify", ![h].n = n, ![h].id = Len(proofs) + 1]
            /\ UNCHANGED faults
         \/ /\ Suffer("write")
            /\ req' = [req EXCEPT ![h] = IdleReq]
            /\ UNCHANGED proofs
      /\ UNCHANGED <<tracked, uptimes, row, node, fresh, world, history>>

\* Mutant: no comparison with the tokens of the agent.
AnyTokens(p) == row[p.wallet][p.epoch].present /\ ~p.claim.dummy

\* verifyProofAgainstMetrics, when the metrics can be read.
Plausible(p) ==
  /\ row[p.wallet][p.epoch].present
  /\ p.claim.tokens <= row[p.wallet][p.epoch].acc["tokens"]
  /\ ~p.claim.dummy

VerifyProof(h) ==
  /\ req[h].pc = "verify"
  /\ \/ /\ req' = [req EXCEPT ![h].pc = IF Plausible(proofs[req[h].id]) THEN "mark"
                                                                       ELSE "proofs"]
        /\ UNCHANGED faults
     \/ Suffer("read") /\ req' = [req EXCEPT ![h].pc = "proofs"]
  /\ UNCHANGED <<tracked, uptimes, tables, world, history>>

\* A failed update ends the loop as well.
MarkVerified(h) ==
  /\ req[h].pc = "mark"
  /\ \/ /\ proofs' = [proofs EXCEPT ![req[h].id].verified = TRUE]
        /\ req' = [req EXCEPT ![h].pc = "proofs"]
        /\ UNCHANGED faults
     \/ /\ Suffer("write")
        /\ req' = [req EXCEPT ![h] = IdleReq]
        /\ UNCHANGED proofs
  /\ UNCHANGED <<tracked, uptimes, row, node, fresh, world, history>>

Answer(h) ==
  /\ req[h].pc = "proofs"
  /\ req[h].n = Len(req[h].msg.proofs)
  /\ req' = [req EXCEPT ![h] = IdleReq]
  /\ UNCHANGED <<tracked, uptimes, tables, world, history, faults>>

(***************************************************************************)
(* Silence: markInactiveNodes and the stale cutoff of the pipeline find an *)
(* agent that has not been heard of.                                       *)
(***************************************************************************)
Silence(w) ==
  /\ Suffer("silence")
  /\ node' = [node EXCEPT ![w] = IF @ = "active" THEN "inactive" ELSE @]
  /\ fresh' = fresh \ {w}
  /\ UNCHANGED <<memory, row, proofs, world, history>>

(***************************************************************************)
(* The process dies and starts again: onModuleInit reads the rows of the   *)
(* current epoch, or (its catch) starts with empty Maps.                   *)
(***************************************************************************)
\* Mutant: the timestamp guard is not restored.
BaselineWithoutTime(r) ==
  IF r.present THEN [raw |-> r.raw, ts |-> 0] ELSE Nothing

Baseline(r) == IF r.present THEN [raw |-> r.raw, ts |-> r.ts] ELSE Nothing
HasRow(w)   == \E e \in Epochs : row[w][e].present

Restart ==
  /\ Suffer("restart")
  /\ tracked' = [w \in Wallets |-> Baseline(row[w][epoch])]
  /\ forgotten' = forgotten \cup
       {w \in Wallets : HasRow(w) /\ ~row[w][epoch].present}
  /\ req' = [h \in Handlers |-> IdleReq]
  /\ uptimes' = {}
  /\ UNCHANGED <<tables, world, credited, booked>>

RestartUnrestored ==
  /\ faults["read"] > 0
  /\ faults["restart"] > 0
  /\ faults' = [faults EXCEPT !["read"] = @ - 1, !["restart"] = @ - 1]
  /\ tracked' = [w \in Wallets |-> Nothing]
  /\ forgotten' = forgotten \cup {w \in Wallets : HasRow(w)}
  /\ req' = [h \in Handlers |-> IdleReq]
  /\ uptimes' = {}
  /\ UNCHANGED <<tables, world, credited, booked>>

-----------------------------------------------------------------------------
Init ==
  /\ tracked = [w \in Wallets |-> Nothing]
  /\ uptimes = {}
  /\ req = [h \in Handlers |-> IdleReq]
  /\ row = [w \in Wallets |-> [e \in Epochs |-> NoRow]]
  /\ proofs = <<>>
  /\ node = [w \in Wallets |-> "absent"]
  /\ fresh = {}
  /\ epoch = 1
  /\ agent = [w \in Wallets |-> [cum |-> Zero, work |-> Zero, clock |-> 0]]
  /\ sent = {}
  /\ credited = [w \in Wallets |-> Zero]
  /\ booked = [w \in Wallets |-> {}]
  /\ forgotten = {}
  /\ faults = MaxFaults

SaveProofs(h) == SaveProof(h) \/ VerifyProof(h) \/ MarkVerified(h) \/ Answer(h)

Handle(h) ==
  \/ ReadEpoch(h) \/ ReadRow(h) \/ Accumulate(h) \/ Save(h)
  \/ UpdateNodeMetricReport(h) \/ TouchAssignment(h) \/ SaveProofs(h)

Next ==
  \/ \E w \in Wallets : SendReport(w) \/ AgentReset(w) \/ Silence(w)
  \/ AdvanceEpoch
  \/ \E h \in Handlers :
       \/ \E m \in sent : Admit(h, m) \/ Reject(h, m)
       \/ Handle(h) \/ SaveFails(h) \/ ReadFails(h)
  \/ Restart
  \/ RestartUnrestored

Spec == Init /\ [][Next]_vars

\* The event loop resumes every request whose await is over, and the network
\* delivers every report again until a newer one is accepted.
FairSpec ==
  /\ Spec
  /\ \A h \in Handlers : WF_vars(Handle(h) \/ SaveFails(h))
  /\ \A w \in Wallets :
       WF_vars(\E h \in Handlers : \E m \in {r \in sent : r.wallet = w} : Admit(h, m))

-----------------------------------------------------------------------------
TypeOK ==
  /\ tracked \in [Wallets -> Tracked]
  /\ uptimes \subseteq Wallets
  /\ req \in [Handlers -> [pc: Stages \cup {"idle"}, msg: Report \cup {NoReport},
                           epoch: Epochs, row: Row, n: Nat, id: Nat]]
  /\ \A h \in Handlers : Busy(h) => req[h].msg \in sent
  /\ row \in [Wallets -> [Epochs -> Row]]
  /\ proofs \in ProofTable
  /\ node \in [Wallets -> {"absent", "inactive", "active"}]
  /\ fresh \subseteq Wallets
  /\ epoch \in Epochs
  /\ agent \in [Wallets -> [cum: Count, work: Count, clock: Nat]]
  /\ sent \subseteq Report
  /\ credited \in [Wallets -> [Counters -> Int]]
  /\ booked \in [Wallets -> SUBSET Nat]
  /\ forgotten \subseteq Wallets
  /\ faults \in [FaultKinds -> Nat]

\* No wallet is credited more than the work it did, over all its epochs,
\* whatever order its reports arrive in, however often it resets, whichever
\* reads and saves fail and wherever the process dies (recordMetrics, the
\* delta of lines 155-204) -- unless a restart lost its baseline.
NoOverCredit ==
  \A w \in Wallets \ forgotten : \A c \in Counters :
    credited[w][c] <= agent[w].work[c]

\* The comment on onModuleInit: restoring the Maps prevents double-counting
\* when the process restarts mid-epoch.  No wallet is exempt.
NoDoubleCountAcrossRestart ==
  \A w \in Wallets : \A c \in Counters : credited[w][c] <= agent[w].work[c]

\* A saved report is covered: the credit is at least its counters, so no lost,
\* reordered or repeated report and no crash has cost the agent anything.
\* (While no agent resets and no save fails.)
BookedIsCovered ==
  \A m \in sent : m.ts \in booked[m.wallet] =>
    \A c \in Counters : m.cum[c] <= credited[m.wallet][c]

\* Between two reports of a wallet its newest row holds the very baseline the
\* Maps hold, so that onModuleInit restores what a crash destroys.  (While no
\* save fails.)
BaselineSurvivesRestart ==
  \A w \in Wallets \ forgotten : \A e \in Epochs :
    /\ Quiet(w)
    /\ row[w][e].present
    /\ \A f \in Epochs : row[w][f].present => f <= e
    => Baseline(row[w][e]) = tracked[w]

\* The proofs whose tokens the scorer adds up, to take in place of the metrics when
\* they are more: one that is verified claims no more than the row of its agent has
\* and has real hashes, whatever its report claimed; all are of reports that were
\* saved; and none is in the table twice, however often its report is delivered and
\* wherever the process dies -- unless a restart lost the baseline.
ProofsSound ==
  /\ \A i \in DOMAIN proofs :
       LET p == proofs[i]
       IN  /\ p.ts \in booked[p.wallet]
           /\ p.verified => /\ p.claim.tokens <= row[p.wallet][p.epoch].acc["tokens"]
                            /\ ~p.claim.dummy
  /\ \A i, j \in DOMAIN proofs :
       LET p == proofs[i]
           q == proofs[j]
       IN  p.wallet = q.wallet /\ p.wallet \notin forgotten /\ p.ts = q.ts /\ p.n = q.n
             => i = j

\* Of all requests in flight at most one has inserted the first row of a wallet
\* in an epoch and will answer shouldReset: two first reports that race are
\* stopped by the unique key.
OneResetOrder ==
  \A g, h \in Handlers :
    /\ req[g].pc \in Saved
    /\ req[h].pc \in Saved
    /\ ~req[g].row.present /\ ~req[h].row.present
    /\ req[g].msg.wallet = req[h].msg.wallet
    /\ req[g].epoch = req[h].epoch
    => g = h

\* A row never disappears, never loses credit and never goes back in time.
RowsOnlyGrow ==
  [][\A w \in Wallets \ forgotten : \A e \in Epochs :
       LET old == row[w][e]
           new == row'[w][e]
       IN  new # old =>
             /\ new.present
             /\ old.ts < new.ts
             /\ \A c \in Counters : old.acc[c] <= new.acc[c]]_vars

\* The newest report of every agent is saved in the end, whatever is delivered
\* before it and wherever the process dies.  (While no save fails.)
EventuallyBooked ==
  \A w \in Wallets :
    <>[](agent[w].clock > 0 => agent[w].clock \in booked[w])

\* The handler, with its Maps, rows and failures, implements the ledger: a report
\* is credited at most once, in the order of the timestamps, and never beyond the
\* work done when it was signed.
Claims == {[wallet |-> m.wallet, ts |-> m.ts, work |-> m.work] : m \in sent}
Ledger == INSTANCE UsageLedger WITH signed <- Claims, lost <- forgotten
ImplementsLedger == Ledger!Spec
=============================================================================

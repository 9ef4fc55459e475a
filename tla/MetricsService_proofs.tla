------------------------ MODULE MetricsService_proofs ------------------------
(***************************************************************************)
(* For any number of agents, handlers, counters, epochs, reports and       *)
(* faults: the types of the usage reports and that no work is credited     *)
(* twice; what restarts, resets and proofs leave true of the Maps and the  *)
(* rows; and that the handler implements UsageLedger.                      *)
(***************************************************************************)
EXTENDS MetricsInvariant, TLAPS

Request == [pc: Stages \cup {"idle"}, msg: Report \cup {NoReport},
            epoch: Epochs, row: Row, n: Nat, id: Nat]

LEMMA EmptyLists == <<>> \in ProofList /\ <<>> \in ProofTable
<1>1. \A S : <<>> \in Seq(S)
  OBVIOUS
<1> QED
  BY <1>1 DEF ProofList, ProofTable

LEMMA IdleReqType == IdleReq \in Request /\ IdleReq.pc = "idle"
  BY BoundsAssumption DEF IdleReq, Request, NoRow, Row, Zero, Count, Epochs

LEMMA DeltaNat ==
  ASSUME NEW old \in Nat, NEW new \in Nat
  PROVE  Delta(old, new) \in Nat
  BY DEF Delta

\* The entity a handler saves is a row again.
LEMMA NewRowType ==
  ASSUME NEW old \in Row, NEW base \in Tracked, NEW m \in Report
  PROVE  NewRow(old, base, m) \in Row
<1>1. \A c \in Counters : old.acc[c] + Delta(base.raw[c], m.cum[c]) \in Nat
  <2> TAKE c \in Counters
  <2>1. old.acc[c] \in Nat /\ base.raw[c] \in Nat /\ m.cum[c] \in Nat
    BY DEF Row, Tracked, Report, Count
  <2>2. Delta(base.raw[c], m.cum[c]) \in Nat
    BY <2>1, DeltaNat
  <2> QED
    BY <2>1, <2>2
<1> QED
  BY <1>1 DEF NewRow, Row, Tracked, Report, Count

\* A fault budget stays a budget.
LEMMA SufferType ==
  ASSUME TypeOK, NEW kind \in FaultKinds, Suffer(kind)
  PROVE  faults' \in [FaultKinds -> Nat]
  BY DEF Suffer, TypeOK

LEMMA RequestType == TypeOK => \A h \in Handlers : req[h] \in Request
  BY DEF TypeOK, Request

LEMMA BusyMessage ==
  ASSUME TypeOK, NEW h \in Handlers, req[h].pc # "idle"
  PROVE  /\ req[h].msg \in sent
         /\ req[h].msg \in Report
         /\ req[h].msg.wallet \in Wallets
  BY DEF TypeOK, Busy, Report

\* One request is replaced by a well-formed one.
LEMMA RequestStep ==
  ASSUME TypeOK, NEW h \in Handlers, NEW r \in Request,
         r.pc # "idle" => r.msg \in sent,
         req' = [req EXCEPT ![h] = r]
  PROVE  /\ req' \in [Handlers -> Request]
         /\ \A g \in Handlers : req'[g].pc # "idle" => req'[g].msg \in sent
  BY DEF TypeOK, Request, Busy

\* A row marked as verified stays a row.
LEMMA MarkedType ==
  ASSUME NEW s \in Seq(ProofRow), NEW i \in Nat
  PROVE  /\ [s EXCEPT ![i].verified = TRUE] \in Seq(ProofRow)
         /\ Len([s EXCEPT ![i].verified = TRUE]) = Len(s)
         /\ \A k \in 1..Len(s) :
              [s EXCEPT ![i].verified = TRUE][k]
                = IF k = i THEN [s[k] EXCEPT !.verified = TRUE] ELSE s[k]
<1> DEFINE t == [s EXCEPT ![i].verified = TRUE]
<1>1. \A k \in 1..Len(s) : s[k] \in ProofRow /\ [s[k] EXCEPT !.verified = TRUE] \in ProofRow
  <2>1. \A k \in 1..Len(s) : s[k] \in ProofRow
    OBVIOUS
  <2>2. \A p \in ProofRow : [p EXCEPT !.verified = TRUE] \in ProofRow
    BY DEF ProofRow
  <2> QED
    BY <2>1, <2>2
<1>2. /\ DOMAIN s = 1..Len(s) /\ Len(s) \in Nat
      /\ t = [k \in 1..Len(s) |-> IF k = i THEN [s[k] EXCEPT !.verified = TRUE] ELSE s[k]]
  <2>1. DOMAIN s = 1..Len(s) /\ Len(s) \in Nat
    OBVIOUS
  <2>2. t = [k \in DOMAIN s |-> IF k = i THEN [s[k] EXCEPT !.verified = TRUE] ELSE s[k]]
    BY Zenon
  <2> QED
    BY <2>1, <2>2
<1>3. t \in [1..Len(s) -> ProofRow]
  BY <1>1, <1>2
<1>4. t \in Seq(ProofRow) /\ Len(t) = Len(s)
  BY <1>2, <1>3
<1> QED
  BY <1>2, <1>4

\* What every step of the loop over the proofs keeps.
ProofStepType ==
  /\ faults' \in [FaultKinds -> Nat]
  /\ proofs' \in ProofTable
  /\ req' \in [Handlers -> Request]
  /\ \A g \in Handlers : req'[g].pc # "idle" => req'[g].msg \in sent
  /\ UNCHANGED <<tracked, uptimes, row, node, fresh, world, history>>

\* Appending the row of a proof, numbered, for the request that goes on.
LEMMA SaveProofType == ASSUME TypeOK, NEW h \in Handlers, SaveProof(h) PROVE ProofStepType
<1> DEFINE m == req[h].msg
           n == req[h].n + 1
           new == [wallet |-> m.wallet, epoch |-> req[h].epoch, claim |-> m.proofs[n],
                   verified |-> FALSE, ts |-> m.ts, n |-> n]
           r == [req[h] EXCEPT !.pc = "verify", !.n = n, !.id = Len(proofs) + 1]
<1>1. /\ m \in sent /\ m \in Report /\ req[h] \in Request /\ proofs \in Seq(ProofRow)
      /\ n \in Nat /\ n >= 1 /\ n <= Len(m.proofs) /\ m.proofs \in Seq(Proof)
  <2>1. m \in sent /\ m \in Report /\ req[h] \in Request
    BY BusyMessage, RequestType DEF SaveProof
  <2>2. proofs \in Seq(ProofRow) /\ m.proofs \in Seq(Proof)
    BY <2>1 DEF TypeOK, ProofTable, Report, ProofList
  <2>3. n \in Nat /\ n >= 1 /\ n <= Len(m.proofs)
    BY <2>1 DEF SaveProof, Request
  <2> QED
    BY <2>1, <2>2, <2>3
<1>2. m.proofs[n] \in Proof
  <2>1. Len(m.proofs) \in Nat /\ n \in 1..Len(m.proofs)
    BY <1>1
  <2> QED
    BY <1>1, <2>1
<1>3. new \in ProofRow
  BY <1>1, <1>2 DEF ProofRow, Report, Request
<1>4. r \in Request /\ r.msg = m
  <2>1. Len(proofs) + 1 \in Nat
    BY <1>1
  <2> QED
    BY <1>1, <2>1 DEF Request, Stages
<1>5. \/ /\ proofs' = Append(proofs, new) /\ req' = [req EXCEPT ![h] = r]
         /\ UNCHANGED faults
      \/ /\ proofs' = proofs /\ req' = [req EXCEPT ![h] = IdleReq]
         /\ Suffer("write")
  BY Zenon DEF SaveProof
<1>6. /\ faults' \in [FaultKinds -> Nat]
      /\ UNCHANGED <<tracked, uptimes, row, node, fresh, world, history>>
  BY <1>5, SufferType DEF FaultKinds, TypeOK, SaveProof
<1> HIDE DEF m, n, new, r
<1>7. proofs' \in ProofTable
  BY <1>1, <1>3, <1>5 DEF ProofTable
<1>8. /\ req' \in [Handlers -> Request]
      /\ \A g \in Handlers : req'[g].pc # "idle" => req'[g].msg \in sent
  BY <1>1, <1>4, <1>5, IdleReqType, RequestStep
<1> QED
  BY <1>6, <1>7, <1>8 DEF ProofStepType

LEMMA VerifyProofType == ASSUME TypeOK, NEW h \in Handlers, VerifyProof(h) PROVE ProofStepType
<1>1. PICK stage \in {"mark", "proofs"} : req' = [req EXCEPT ![h] = [@ EXCEPT !.pc = stage]]
  BY DEF VerifyProof
<1>2. /\ req[h] \in Request /\ req[h].msg \in sent
  BY BusyMessage, RequestType DEF VerifyProof
<1>3. /\ faults' \in [FaultKinds -> Nat]
      /\ proofs' \in ProofTable
      /\ UNCHANGED <<tracked, uptimes, row, node, fresh, world, history>>
  BY SufferType DEF VerifyProof, FaultKinds, TypeOK, tables
<1> DEFINE r == [req[h] EXCEPT !.pc = stage]
<1>4. r \in Request /\ r.msg = req[h].msg /\ req' = [req EXCEPT ![h] = r]
  BY <1>1, <1>2 DEF Request, Stages
<1> HIDE DEF r
<1>5. /\ req' \in [Handlers -> Request]
      /\ \A g \in Handlers : req'[g].pc # "idle" => req'[g].msg \in sent
  BY <1>2, <1>4, RequestStep
<1> QED
  BY <1>3, <1>5 DEF ProofStepType

LEMMA MarkVerifiedType == ASSUME TypeOK, NEW h \in Handlers, MarkVerified(h) PROVE ProofStepType
<1> DEFINE r == [req[h] EXCEPT !.pc = "proofs"]
<1>1. /\ req[h] \in Request /\ req[h].msg \in sent
  BY BusyMessage, RequestType DEF MarkVerified
<1>2. r \in Request /\ r.msg = req[h].msg
  BY <1>1 DEF Request, Stages
<1>3. /\ req' = [req EXCEPT ![h] = r] \/ req' = [req EXCEPT ![h] = IdleReq]
      /\ UNCHANGED <<tracked, uptimes, row, node, fresh, world, history>>
  BY DEF MarkVerified
<1>4. faults' \in [FaultKinds -> Nat]
  BY SufferType DEF MarkVerified, FaultKinds, TypeOK
<1>5. proofs' \in ProofTable
  <2>1. \/ proofs' = [proofs EXCEPT ![req[h].id].verified = TRUE]
        \/ proofs' = proofs
    BY DEF MarkVerified
  <2>2. proofs \in Seq(ProofRow)
    BY DEF TypeOK, ProofTable
  <2>3. req[h].id \in Nat
    BY <1>1 DEF Request
  <2> QED
    BY <2>1, <2>2, <2>3, MarkedType DEF ProofTable
<1> HIDE DEF r
<1>6. /\ req' \in [Handlers -> Request]
      /\ \A g \in Handlers : req'[g].pc # "idle" => req'[g].msg \in sent
  BY <1>1, <1>2, <1>3, IdleReqType, RequestStep
<1> QED
  BY <1>3, <1>4, <1>5, <1>6 DEF ProofStepType

LEMMA AnswerType == ASSUME TypeOK, NEW h \in Handlers, Answer(h) PROVE ProofStepType
<1>1. /\ req' \in [Handlers -> Request]
      /\ \A g \in Handlers : req'[g].pc # "idle" => req'[g].msg \in sent
  BY IdleReqType DEF Answer, TypeOK, Request, Busy
<1> QED
  BY <1>1 DEF Answer, ProofStepType, TypeOK, tables

ProofStages == {"proofs", "verify", "mark"}

\* The loop over the proofs changes only the table of the proofs, and its own stage.
LEMMA SaveProofsDoes ==
  ASSUME TypeOK, NEW h \in Handlers, SaveProofs(h)
  PROVE  /\ req[h].pc \in ProofStages /\ Busy(h)
         /\ \A g \in Handlers : g # h => req'[g] = req[g]
         /\ \/ req'[h] = IdleReq
            \/ /\ req'[h].pc \in ProofStages /\ req'[h].msg = req[h].msg
               /\ req'[h].epoch = req[h].epoch /\ req'[h].row = req[h].row
         /\ UNCHANGED <<tracked, uptimes, row, node, fresh, world, history>>
<1>1. req \in [Handlers -> Request]
  BY DEF TypeOK, Request
<1>2. CASE SaveProof(h)
  <2> DEFINE n == req[h].n + 1
             i == Len(proofs) + 1
  <2>1. \/ req' = [req EXCEPT ![h].pc = "verify", ![h].n = n, ![h].id = i]
        \/ req' = [req EXCEPT ![h] = IdleReq]
    BY <1>2, Zenon DEF SaveProof
  <2>2. /\ req[h].pc = "proofs"
        /\ UNCHANGED <<tracked, uptimes, row, node, fresh, world, history>>
    BY <1>2 DEF SaveProof
  <2> HIDE DEF n, i
  <2> QED
    BY <1>1, <2>1, <2>2 DEF ProofStages, Busy, Request
<1>3. CASE VerifyProof(h)
  <2>1. PICK stage \in {"mark", "proofs"} : req' = [req EXCEPT ![h].pc = stage]
    BY <1>3 DEF VerifyProof
  <2> QED
    BY <1>1, <1>3, <2>1 DEF VerifyProof, ProofStages, Busy, Request, tables
<1>4. CASE MarkVerified(h)
  BY <1>1, <1>4 DEF MarkVerified, ProofStages, Busy, Request
<1>5. CASE Answer(h)
  BY <1>1, <1>5 DEF Answer, ProofStages, Busy, Request, tables
<1> QED
  BY <1>2, <1>3, <1>4, <1>5 DEF SaveProofs

LEMMA TypeInit == Init => TypeOK
<1> SUFFICES ASSUME Init PROVE TypeOK
  OBVIOUS
<1>1. Nothing \in Tracked /\ Zero \in Count /\ NoRow \in Row
  BY DEF Nothing, Tracked, Zero, Count, NoRow, Row
<1>2. 1 \in Epochs
  BY BoundsAssumption DEF Epochs
<1> QED
  BY <1>1, <1>2, IdleReqType, EmptyLists, BoundsAssumption
  DEF Init, TypeOK, Count, Zero, Busy, Request

\* Every step keeps the types.
LEMMA TypeStep == TypeOK /\ [Next]_vars => TypeOK'
<1> SUFFICES ASSUME TypeOK, [Next]_vars PROVE TypeOK'
  OBVIOUS
<1>1. ASSUME NEW w \in Wallets, SendReport(w)
      PROVE  TypeOK'
  <2>1. PICK inc \in [Counters -> 0..MaxStep],
             p \in Attached(agent[w].clock + 1) :
          /\ agent' = [agent EXCEPT ![w] =
               [cum |-> [c \in Counters |-> agent[w].cum[c] + inc[c]],
                work |-> [c \in Counters |-> agent[w].work[c] + inc[c]],
                clock |-> agent[w].clock + 1]]
          /\ sent' = sent \cup
               {[wallet |-> w, ts |-> agent[w].clock + 1,
                 cum |-> [c \in Counters |-> agent[w].cum[c] + inc[c]],
                 proofs |-> p,
                 work |-> [c \in Counters |-> agent[w].work[c] + inc[c]]]}
    BY <1>1, Zenon DEF SendReport
  <2>2. /\ [c \in Counters |-> agent[w].cum[c] + inc[c]] \in Count
        /\ [c \in Counters |-> agent[w].work[c] + inc[c]] \in Count
        /\ agent[w].clock + 1 \in Nat
    BY BoundsAssumption DEF TypeOK, Count
  <2>7. p \in ProofList
    BY <2>1, ProofsAssumption, EmptyLists DEF Attached
  <2>3. agent' \in [Wallets -> [cum: Count, work: Count, clock: Nat]]
    BY <2>1, <2>2 DEF TypeOK
  <2> DEFINE new == [wallet |-> w, ts |-> agent[w].clock + 1,
                     cum |-> [c \in Counters |-> agent[w].cum[c] + inc[c]],
                     proofs |-> p,
                     work |-> [c \in Counters |-> agent[w].work[c] + inc[c]]]
  <2>5. new \in Report
    BY <2>2, <2>7 DEF Report
  <2>6. sent' = sent \cup {new}
    BY <2>1
  <2> HIDE DEF new
  <2>4. sent' \subseteq Report /\ sent \subseteq sent'
    BY <2>5, <2>6 DEF TypeOK
  <2> QED
    BY <1>1, <2>3, <2>4
    DEF SendReport, TypeOK, memory, tables, history, Busy
<1>2. ASSUME NEW w \in Wallets, AgentReset(w)
      PROVE  TypeOK'
  <2>1. Zero \in Count
    BY DEF Zero, Count
  <2>2. faults' \in [FaultKinds -> Nat]
    BY <1>2, SufferType DEF AgentReset, FaultKinds
  <2>3. agent' \in [Wallets -> [cum: Count, work: Count, clock: Nat]]
    BY <1>2, <2>1 DEF AgentReset, TypeOK
  <2> QED
    BY <1>2, <2>2, <2>3 DEF AgentReset, TypeOK, memory, tables, history, Busy
<1>3. ASSUME NEW w \in Wallets, Silence(w)
      PROVE  TypeOK'
  <2>1. faults' \in [FaultKinds -> Nat]
    BY <1>3, SufferType DEF Silence, FaultKinds
  <2>2. /\ node' \in [Wallets -> {"absent", "inactive", "active"}]
        /\ fresh' \subseteq Wallets
    BY <1>3 DEF Silence, TypeOK
  <2> QED
    BY <1>3, <2>1, <2>2 DEF Silence, TypeOK, memory, world, history, Busy
<1>4. CASE AdvanceEpoch
  BY <1>4, BoundsAssumption DEF AdvanceEpoch, TypeOK, Epochs, memory, tables, history, Busy
<1>5. ASSUME NEW h \in Handlers, NEW m \in sent, Admit(h, m)
      PROVE  TypeOK'
  <2>1. m \in Report /\ m.wallet \in Wallets
    BY DEF TypeOK, Report
  <2>2. node' \in [Wallets -> {"absent", "inactive", "active"}]
    BY <1>5, <2>1 DEF Admit, EnsureNodeRegistered, TypeOK
  <2>3. [IdleReq EXCEPT !.pc = "epoch", !.msg = m] \in Request
    BY <2>1, IdleReqType DEF Request, Stages
  <2>4. [IdleReq EXCEPT !.pc = "epoch", !.msg = m].msg = m
    BY DEF IdleReq
  <2>5. /\ req' \in [Handlers -> Request]
        /\ \A g \in Handlers : req'[g].pc # "idle" => req'[g].msg \in sent
    BY <1>5, <2>3, <2>4 DEF Admit, TypeOK, Request, Busy
  <2> QED
    BY <1>5, <2>2, <2>5 DEF Admit, TypeOK, world, history, Busy, Request
<1>6. ASSUME NEW h \in Handlers, NEW m \in sent, Reject(h, m)
      PROVE  TypeOK'
  <2>1. node' \in [Wallets -> {"absent", "inactive", "active"}]
    BY <1>6 DEF Reject, EnsureNodeRegistered, TypeOK
  <2> QED
    BY <1>6, <2>1 DEF Reject, TypeOK, world, history, memory, Busy
<1>7. ASSUME NEW h \in Handlers, ReadEpoch(h)
      PROVE  TypeOK'
  <2>1. /\ req' \in [Handlers -> Request]
        /\ \A g \in Handlers : req'[g].pc # "idle" => req'[g].msg \in sent
    <3> DEFINE r == [req[h] EXCEPT !.pc = "row", !.epoch = epoch]
    <3>1. req' = [req EXCEPT ![h] = r]
      BY <1>7 DEF ReadEpoch
    <3>2. r \in Request /\ r.msg = req[h].msg
      <4>1. epoch \in Epochs
        BY DEF TypeOK
      <4> QED
        BY <4>1, RequestType DEF Request, Stages
    <3>3. r.msg \in sent
      BY <1>7, <3>2, BusyMessage DEF ReadEpoch
    <3> QED
      BY <3>1, <3>2, <3>3, RequestStep
  <2>2. UNCHANGED <<tracked, uptimes, tables, world, history, faults>>
    BY <1>7 DEF ReadEpoch
  <2> QED
    BY <2>1, <2>2 DEF TypeOK, tables, world, history, Busy, Request
<1>8. ASSUME NEW h \in Handlers, ReadRow(h)
      PROVE  TypeOK'
  <2>1. /\ req[h].msg \in sent
        /\ row[req[h].msg.wallet][req[h].epoch] \in Row
    BY <1>8, BusyMessage DEF ReadRow, TypeOK
  <2>2. /\ req' \in [Handlers -> Request]
        /\ \A g \in Handlers : req'[g].pc # "idle" => req'[g].msg \in sent
    <3> DEFINE q == row[req[h].msg.wallet][req[h].epoch]
               r == [req[h] EXCEPT !.pc = "count", !.row = q]
    <3>1. req' = [req EXCEPT ![h] = r]
      BY <1>8 DEF ReadRow, TypeOK
    <3>2. q \in Row
      BY <2>1
    <3> HIDE DEF q
    <3>3. r \in Request /\ r.msg = req[h].msg
      BY <3>2, RequestType DEF Request, Stages
    <3> QED
      BY <2>1, <3>1, <3>3, RequestStep
  <2>3. UNCHANGED <<tracked, uptimes, tables, world, history, faults>>
    BY <1>8 DEF ReadRow
  <2> QED
    BY <2>2, <2>3 DEF TypeOK, tables, world, history, Busy, Request
<1>9. ASSUME NEW h \in Handlers, Accumulate(h)
      PROVE  TypeOK'
  <2> DEFINE m == req[h].msg
             new == NewRow(req[h].row, tracked[m.wallet], m)
  <2>1. m \in sent /\ m \in Report /\ m.wallet \in Wallets
    BY <1>9, BusyMessage DEF Accumulate
  <2>2. new \in Row
    BY <2>1, NewRowType DEF TypeOK
  <2>3. req' = [req EXCEPT ![h].pc = "save", ![h].row = new]
    BY <1>9, Zenon DEF Accumulate
  <2>4. tracked' \in [Wallets -> Tracked]
    BY <1>9, <2>1 DEF Accumulate, TypeOK, Tracked, Report
  <2> HIDE DEF new
  <2>5. /\ req' \in [Handlers -> Request]
        /\ \A g \in Handlers : req'[g].pc # "idle" => req'[g].msg \in sent
    <3> DEFINE r == [req[h] EXCEPT !.pc = "save", !.row = new]
    <3>1. req' = [req EXCEPT ![h] = r]
      BY <2>3 DEF TypeOK
    <3>2. r \in Request /\ r.msg = req[h].msg
      BY <2>2, RequestType DEF Request, Stages
    <3> QED
      BY <2>1, <3>1, <3>2, RequestStep
  <2>6. UNCHANGED <<uptimes, tables, world, history, faults>>
    BY <1>9 DEF Accumulate
  <2> QED
    BY <2>4, <2>5, <2>6 DEF TypeOK, tables, world, history, Busy, Request
<1>10. ASSUME NEW h \in Handlers, Save(h)
       PROVE  TypeOK'
  <2> DEFINE w == req[h].msg.wallet
             e == req[h].epoch
             new == req[h].row
  <2>1. w \in Wallets /\ req[h].msg \in sent /\ e \in Epochs /\ new \in Row
    BY <1>10, BusyMessage DEF Save, TypeOK
  <2>2. row' \in [Wallets -> [Epochs -> Row]]
    <3> DEFINE saved == [new EXCEPT !.present = TRUE]
    <3>1. saved \in Row
      BY <2>1 DEF Row
    <3>2. row' = [row EXCEPT ![w] = [@ EXCEPT ![e] = saved]]
      BY <1>10, Zenon DEF Save
    <3>3. row \in [Wallets -> [Epochs -> Row]]
      BY DEF TypeOK
    <3> HIDE DEF saved, w, e
    <3> QED
      BY <2>1, <3>1, <3>2, <3>3
  <2>3. credited' \in [Wallets -> [Counters -> Int]]
    <3> DEFINE sum == [c \in Counters |->
                         credited[w][c] + new.acc[c] - row[w][e].acc[c]]
    <3>1. sum \in [Counters -> Int]
      BY <2>1 DEF TypeOK, Row, Count
    <3>2. credited' = [credited EXCEPT ![w] = sum]
      BY <1>10 DEF Save
    <3>3. credited \in [Wallets -> [Counters -> Int]]
      BY DEF TypeOK
    <3> HIDE DEF sum, w
    <3> QED
      BY <2>1, <3>1, <3>2, <3>3
  <2>4. booked' \in [Wallets -> SUBSET Nat]
    BY <1>10, <2>1 DEF Save, TypeOK, Row
  <2>5. /\ req' \in [Handlers -> Request]
        /\ \A g \in Handlers : req'[g].pc # "idle" => req'[g].msg \in sent
    <3> DEFINE r == [req[h] EXCEPT !.pc = "node"]
    <3>1. req' = [req EXCEPT ![h] = r]
      BY <1>10 DEF Save
    <3>2. r \in Request /\ r.msg = req[h].msg
      BY RequestType DEF Request, Stages
    <3> QED
      BY <2>1, <3>1, <3>2, RequestStep
  <2>6. UNCHANGED <<tracked, uptimes, proofs, node, fresh, world, forgotten, faults>>
    BY <1>10 DEF Save
  <2> QED
    BY <2>2, <2>3, <2>4, <2>5, <2>6 DEF TypeOK, world, Busy, Request
<1>11. ASSUME NEW h \in Handlers, SaveFails(h) \/ ReadFails(h)
       PROVE  TypeOK'
  <2>1. /\ faults' \in [FaultKinds -> Nat]
        /\ req' = [req EXCEPT ![h] = IdleReq]
        /\ UNCHANGED <<tracked, uptimes, tables, world, history>>
    BY <1>11, SufferType DEF SaveFails, ReadFails, FaultKinds, TypeOK
  <2>2. /\ req' \in [Handlers -> Request]
        /\ \A g \in Handlers : req'[g].pc # "idle" => req'[g].msg \in sent
    BY <2>1, IdleReqType DEF TypeOK, Request, Busy
  <2> QED
    BY <2>1, <2>2 DEF TypeOK, tables, world, history, Busy, Request
<1>12. ASSUME NEW h \in Handlers, UpdateNodeMetricReport(h)
       PROVE  TypeOK'
  <2>1. /\ faults' \in [FaultKinds -> Nat]
        /\ node' \in [Wallets -> {"absent", "inactive", "active"}]
    <3>1. faults' = faults \/ Suffer("write")
      BY <1>12 DEF UpdateNodeMetricReport
    <3>2. faults' \in [FaultKinds -> Nat]
      BY <3>1, SufferType DEF FaultKinds, TypeOK
    <3>3. node' \in [Wallets -> {"absent", "inactive", "active"}]
      BY <1>12, BusyMessage DEF UpdateNodeMetricReport, TypeOK
    <3> QED
      BY <3>2, <3>3
  <2>2. /\ req' \in [Handlers -> Request]
        /\ \A g \in Handlers : req'[g].pc # "idle" => req'[g].msg \in sent
    <3> DEFINE r == [req[h] EXCEPT !.pc = "touch"]
    <3>1. req' = [req EXCEPT ![h] = r]
      BY <1>12 DEF UpdateNodeMetricReport, TypeOK
    <3>2. r \in Request /\ r.msg = req[h].msg
      BY RequestType DEF Request, Stages
    <3>3. r.msg \in sent
      BY <1>12, <3>2, BusyMessage DEF UpdateNodeMetricReport
    <3> QED
      BY <3>1, <3>2, <3>3, RequestStep
  <2>3. UNCHANGED <<tracked, uptimes, row, proofs, fresh, world, history>>
    BY <1>12 DEF UpdateNodeMetricReport
  <2> QED
    BY <2>1, <2>2, <2>3 DEF TypeOK, world, history, Busy, Request
<1>13. ASSUME NEW h \in Handlers, TouchAssignment(h)
       PROVE  TypeOK'
  <2>1. req[h].msg \in sent /\ req[h].msg.wallet \in Wallets
    BY <1>13, BusyMessage DEF TouchAssignment
  <2>2. /\ faults' \in [FaultKinds -> Nat]
        /\ fresh' \subseteq Wallets
        /\ uptimes' \subseteq Wallets
    <3>1. faults' = faults \/ Suffer("write")
      BY <1>13 DEF TouchAssignment
    <3>2. faults' \in [FaultKinds -> Nat]
      BY <3>1, SufferType DEF FaultKinds, TypeOK
    <3>3. fresh' \subseteq Wallets /\ uptimes' \subseteq Wallets
      BY <1>13, <2>1 DEF TouchAssignment, TypeOK
    <3> QED
      BY <3>2, <3>3
  <2>3. /\ req' \in [Handlers -> Request]
        /\ \A g \in Handlers : req'[g].pc # "idle" => req'[g].msg \in sent
    <3> DEFINE r == [req[h] EXCEPT !.pc = "proofs"]
    <3>1. \/ req' = [req EXCEPT ![h] = r]
          \/ req' = [req EXCEPT ![h] = IdleReq]
      BY <1>13 DEF TouchAssignment, TypeOK
    <3>2. r \in Request /\ r.msg = req[h].msg
      BY RequestType DEF Request, Stages
    <3> QED
      BY <2>1, <3>1, <3>2, IdleReqType, RequestStep
  <2>4. UNCHANGED <<tracked, row, proofs, node, world, history>>
    BY <1>13 DEF TouchAssignment
  <2> QED
    BY <2>2, <2>3, <2>4 DEF TypeOK, world, history, Busy, Request
<1>14. ASSUME NEW h \in Handlers, SaveProofs(h)
       PROVE  TypeOK'
  <2>1. /\ faults' \in [FaultKinds -> Nat]
        /\ proofs' \in ProofTable
        /\ req' \in [Handlers -> Request]
        /\ \A g \in Handlers : req'[g].pc # "idle" => req'[g].msg \in sent
        /\ UNCHANGED <<tracked, uptimes, row, node, fresh, world, history>>
    BY <1>14, SaveProofType, VerifyProofType, MarkVerifiedType, AnswerType
    DEF ProofStepType, SaveProofs
  <2> QED
    BY <2>1 DEF TypeOK, world, history, Busy, Request
<1>15. CASE Restart \/ RestartUnrestored
  <2>1. /\ faults' \in [FaultKinds -> Nat]
        /\ forgotten' \subseteq Wallets
        /\ uptimes' \subseteq Wallets
    BY <1>15, SufferType DEF Restart, RestartUnrestored, FaultKinds, TypeOK
  <2>2. tracked' \in [Wallets -> Tracked]
    <3>1. Nothing \in Tracked
      BY DEF Nothing, Tracked, Zero, Count
    <3>2. \A r \in Row : Baseline(r) \in Tracked
      BY <3>1 DEF Baseline, Row, Tracked
    <3>3. \A w \in Wallets : row[w][epoch] \in Row
      BY DEF TypeOK
    <3> QED
      BY <1>15, <3>1, <3>2, <3>3 DEF Restart, RestartUnrestored
  <2>3. /\ req' \in [Handlers -> Request]
        /\ \A g \in Handlers : req'[g].pc # "idle" => req'[g].msg \in sent
    BY <1>15, IdleReqType DEF Restart, RestartUnrestored
  <2> QED
    BY <1>15, <2>1, <2>2, <2>3
    DEF Restart, RestartUnrestored, TypeOK, tables, world, Busy, Request
<1>16. CASE UNCHANGED vars
  BY <1>16 DEF vars, TypeOK, memory, tables, world, history, Busy
<1> QED
  BY <1>1, <1>2, <1>3, <1>4, <1>5, <1>6, <1>7, <1>8, <1>9, <1>10, <1>11,
     <1>12, <1>13, <1>14, <1>15, <1>16
  DEF Next, Handle

\* Every variable keeps its type, and an in-flight request handles a report that
\* was signed (recordMetrics and onModuleInit).
THEOREM TypeCorrect == Spec => []TypeOK
<1>1. Init => TypeOK
  BY TypeInit
<1>2. TypeOK /\ [Next]_vars => TypeOK'
  BY TypeStep
<1> QED
  BY <1>1, <1>2, PTL DEF Spec

-----------------------------------------------------------------------------
(***************************************************************************)
(* The agents: how far apart the reports are that they sign.               *)
(***************************************************************************)
\* What TypeOK says of the agents and their reports, and nothing else.
LEMMA SignedType ==
  ASSUME TypeOK, NEW w \in Wallets
  PROVE  /\ Genesis(w) \in Report
         /\ Signed(w) \subseteq Report
         /\ \A m \in Signed(w) : m.wallet = w
         /\ agent[w] \in [cum: Count, work: Count, clock: Nat]
<1>1. Genesis(w) \in Report
  BY EmptyLists DEF Genesis, Report, Zero, Count
<1> QED
  BY <1>1 DEF TypeOK, Signed, Genesis

LEMMA SendReportKeepsApart ==
  ASSUME TypeOK, TypeOK', ReportsBehind, ReportsApart, NEW v \in Wallets,
         SendReport(v)
  PROVE  ReportsBehind' /\ ReportsApart'
<1>1. PICK inc \in [Counters -> 0..MaxStep], new \in sent' :
        /\ sent' = sent \cup {new}
        /\ new.wallet = v
        /\ new.ts = agent[v].clock + 1
        /\ agent' = [agent EXCEPT ![v] =
                       [cum |-> new.cum, work |-> new.work, clock |-> new.ts]]
        /\ \A c \in Counters : /\ new.cum[c] = agent[v].cum[c] + inc[c]
                               /\ new.work[c] = agent[v].work[c] + inc[c]
  <2>1. PICK inc \in [Counters -> 0..MaxStep], p \in Attached(agent[v].clock + 1) :
          /\ agent' = [agent EXCEPT ![v] =
               [cum |-> [c \in Counters |-> agent[v].cum[c] + inc[c]],
                work |-> [c \in Counters |-> agent[v].work[c] + inc[c]],
                clock |-> agent[v].clock + 1]]
          /\ sent' = sent \cup
               {[wallet |-> v, ts |-> agent[v].clock + 1,
                 cum |-> [c \in Counters |-> agent[v].cum[c] + inc[c]],
                 proofs |-> p,
                 work |-> [c \in Counters |-> agent[v].work[c] + inc[c]]]}
    BY Zenon DEF SendReport
  <2> DEFINE new == [wallet |-> v, ts |-> agent[v].clock + 1,
                 cum |-> [c \in Counters |-> agent[v].cum[c] + inc[c]],
                 proofs |-> p,
                 work |-> [c \in Counters |-> agent[v].work[c] + inc[c]]]
  <2>2. /\ new \in sent'
        /\ sent' = sent \cup {new}
    BY <2>1
  <2>3. /\ new.wallet = v
        /\ new.ts = agent[v].clock + 1
        /\ \A c \in Counters : /\ new.cum[c] = agent[v].cum[c] + inc[c]
                               /\ new.work[c] = agent[v].work[c] + inc[c]
    OBVIOUS
  <2>4. agent' = [agent EXCEPT ![v] =
                       [cum |-> new.cum, work |-> new.work, clock |-> new.ts]]
    BY <2>1
  <2> HIDE DEF new
  <2> QED
    BY <2>2, <2>3, <2>4
<1>2. \A w \in Wallets : Signed(w)' = IF w = v THEN Signed(w) \cup {new} ELSE Signed(w)
  BY <1>1 DEF Signed, Genesis
<1>3. /\ agent'[v] = [cum |-> new.cum, work |-> new.work, clock |-> new.ts]
      /\ \A w \in Wallets : w # v => agent'[w] = agent[w]
  BY <1>1 DEF TypeOK
<1>4. new \in Report
  BY <1>1 DEF TypeOK
<1>5. ASSUME NEW m \in Signed(v)
      PROVE  m.ts < new.ts /\ Apart(m, new.cum, new.work)
  <2>1. m.ts <= agent[v].clock /\ Apart(m, agent[v].cum, agent[v].work)
    BY DEF ReportsBehind
  <2>2. m \in Report /\ agent[v].clock \in Nat /\ agent[v].cum \in Count
        /\ agent[v].work \in Count
    BY SignedType
  <2>3. ASSUME NEW c \in Counters
        PROVE  Delta(m.cum[c], new.cum[c]) <= new.work[c] - m.work[c]
    <3>1. Delta(m.cum[c], agent[v].cum[c]) <= agent[v].work[c] - m.work[c]
      BY <2>1 DEF Apart
    <3>2. /\ m.cum[c] \in Nat /\ m.work[c] \in Nat
          /\ agent[v].cum[c] \in Nat /\ agent[v].work[c] \in Nat
          /\ inc[c] \in Nat
      BY <2>2, BoundsAssumption DEF Report, Count
    <3> QED
      BY <1>1, <3>1, <3>2 DEF Delta
  <2> QED
    BY <1>1, <1>4, <2>1, <2>2, <2>3 DEF Apart, Report
<1>6. Apart(new, new.cum, new.work)
  BY <1>4 DEF Apart, Delta, Report, Count
<1>7. ReportsBehind'
  <2> SUFFICES ASSUME NEW w \in Wallets, NEW m \in Signed(w)'
               PROVE  m.ts <= agent'[w].clock /\ Apart(m, agent'[w].cum, agent'[w].work)
    BY DEF ReportsBehind, Apart, Delta
  <2>1. CASE w # v
    BY <1>2, <1>3, <2>1 DEF ReportsBehind
  <2>2. CASE w = v /\ m \in Signed(v)
    BY <1>3, <1>4, <1>5, <2>2, SignedType DEF Report
  <2>3. CASE w = v /\ m = new
    BY <1>3, <1>4, <1>6, <2>3 DEF Report
  <2> QED
    BY <1>2, <2>1, <2>2, <2>3
<1>8. ReportsApart'
  <2> SUFFICES ASSUME NEW w \in Wallets, NEW m \in Signed(w)', NEW n \in Signed(w)'
               PROVE  /\ m.ts = n.ts => m = n
                      /\ m.ts < n.ts => Apart(m, n.cum, n.work)
    BY DEF ReportsApart, Apart, Delta
  <2>1. CASE m \in Signed(w) /\ n \in Signed(w)
    BY <2>1 DEF ReportsApart
  <2>2. CASE w = v /\ m \in Signed(v) /\ n = new
    BY <1>4, <1>5, <2>2, SignedType DEF Report
  <2>3. CASE w = v /\ m = new /\ n \in Signed(v)
    BY <1>4, <1>5, <2>3, SignedType DEF Report
  <2>4. CASE w = v /\ m = new /\ n = new
    BY <1>4, <2>4 DEF Report
  <2> QED
    BY <1>2, <2>1, <2>2, <2>3, <2>4
<1> QED
  BY <1>7, <1>8

LEMMA ResetKeepsApart ==
  ASSUME TypeOK, ReportsBehind, ReportsApart, NEW v \in Wallets, AgentReset(v)
  PROVE  ReportsBehind' /\ ReportsApart'
<1>1. /\ sent' = sent
      /\ \A w \in Wallets : /\ agent'[w].clock = agent[w].clock
                            /\ agent'[w].work = agent[w].work
                            /\ agent'[w].cum = agent[w].cum \/ agent'[w].cum = Zero
  BY DEF AgentReset, TypeOK
<1>2. ASSUME NEW w \in Wallets, NEW m \in Signed(w)
      PROVE  m.ts <= agent'[w].clock /\ Apart(m, agent'[w].cum, agent'[w].work)
  <2>1. m.ts <= agent[w].clock /\ Apart(m, agent[w].cum, agent[w].work)
    BY DEF ReportsBehind
  <2>2. m \in Report /\ agent[w] \in [cum: Count, work: Count, clock: Nat]
    BY SignedType
  <2>3. ASSUME NEW c \in Counters
        PROVE  Delta(m.cum[c], 0) <= agent[w].work[c] - m.work[c]
    <3>1. /\ m.cum[c] \in Nat /\ m.work[c] \in Nat
          /\ agent[w].cum[c] \in Nat /\ agent[w].work[c] \in Nat
      BY <2>2 DEF Report, Count
    <3> QED
      BY <2>1, <3>1 DEF Apart, Delta
  <2>4. Apart(m, Zero, agent[w].work)
    BY <2>3 DEF Apart, Zero
  <2> QED
    BY <1>1, <2>1, <2>4
<1> QED
  BY <1>1, <1>2 DEF ReportsBehind, ReportsApart, Signed, Genesis, Apart, Delta

\* Only the agents sign and reset.
LEMMA AgentsKeepApart ==
  ASSUME TypeOK, TypeOK', ReportsBehind, ReportsApart, [Next]_vars
  PROVE  ReportsBehind' /\ ReportsApart'
<1>1. \/ \E v \in Wallets : SendReport(v) \/ AgentReset(v)
      \/ UNCHANGED <<agent, sent>>
  BY DEF Next, Handle, vars, world, Silence, AdvanceEpoch, Admit, Reject, ReadEpoch,
         ReadRow, Accumulate, Save, SaveFails, ReadFails, UpdateNodeMetricReport,
         TouchAssignment, SaveProofs, SaveProof, VerifyProof, MarkVerified, Answer,
         Restart, RestartUnrestored
<1>2. CASE UNCHANGED <<agent, sent>>
  BY <1>2 DEF ReportsBehind, ReportsApart, Signed, Genesis, Apart, Delta
<1> QED
  BY <1>1, <1>2, SendReportKeepsApart, ResetKeepsApart

-----------------------------------------------------------------------------
(***************************************************************************)
(* The handlers: one report of a wallet at a time.                         *)
(***************************************************************************)
\* How a step changes the requests: one is admitted, one goes on with the report
\* it has, or all those that change become idle.
LEMMA RequestMoves ==
  ASSUME TypeOK, [Next]_vars
  PROVE  \/ \E h \in Handlers, m \in sent :
              /\ Deliver(h, m)
              /\ req' = [req EXCEPT ![h] = [IdleReq EXCEPT !.pc = "epoch", !.msg = m]]
         \/ \E h \in Handlers : \E r \in Request :
              /\ Busy(h)
              /\ req' = [req EXCEPT ![h] = r]
              /\ r.pc = "idle" \/ r.msg = req[h].msg
         \/ req' = req
         \/ req' = [h \in Handlers |-> IdleReq]
<1> SUFFICES ASSUME TypeOK', [Next]_vars, req' # req,
                    req' # [h \in Handlers |-> IdleReq],
                    ~ \E h \in Handlers, m \in sent : Admit(h, m)
             PROVE  \E h \in Handlers : \E r \in Request :
                      /\ Busy(h)
                      /\ req' = [req EXCEPT ![h] = r]
                      /\ r.pc = "idle" \/ r.msg = req[h].msg
  <2>1. TypeOK'
    BY TypeStep
  <2> QED
    BY <2>1 DEF Admit
<1>1. \A h \in Handlers : req[h] \in Request /\ req'[h] \in Request
  BY DEF TypeOK, Request
<1>2. PICK h \in Handlers : Handle(h) \/ SaveFails(h) \/ ReadFails(h)
  BY DEF Next, vars, memory, SendReport, AgentReset, Silence, AdvanceEpoch, Reject,
         Restart, RestartUnrestored
<1>3. /\ Busy(h)
      /\ \A g \in Handlers \ {h} : req'[g] = req[g]
      /\ req'[h].pc = "idle" \/ req'[h].msg = req[h].msg
  <2> USE DEF TypeOK, Busy
  <2>1. CASE ReadEpoch(h) \/ ReadRow(h)
    BY <2>1 DEF ReadEpoch, ReadRow
  <2>2. CASE Accumulate(h)
    BY <2>2 DEF Accumulate
  <2>3. CASE Save(h)
    <3>1. req[h].pc = "save" /\ req' = [req EXCEPT ![h].pc = "node"]
      BY <2>3 DEF Save
    <3> QED
      BY <3>1
  <2>4. CASE SaveFails(h) \/ ReadFails(h)
    BY <2>4, IdleReqType DEF SaveFails, ReadFails
  <2>5. CASE UpdateNodeMetricReport(h)
    BY <2>5 DEF UpdateNodeMetricReport
  <2>6. CASE TouchAssignment(h)
    BY <2>6, IdleReqType DEF TouchAssignment
  <2>7. CASE SaveProofs(h)
    BY <2>7, IdleReqType, SaveProofsDoes
  <2> QED
    BY <1>2, <2>1, <2>2, <2>3, <2>4, <2>5, <2>6, <2>7 DEF Handle
<1>4. req' = [req EXCEPT ![h] = req'[h]]
  BY <1>3 DEF TypeOK
<1> QED
  BY <1>1, <1>3, <1>4

LEMMA StaysOneAtATime ==
  ASSUME TypeOK, OneAtATime, ~Overlap, [Next]_vars
  PROVE  OneAtATime'
<1>1. CASE \E h \in Handlers, m \in sent :
             /\ Deliver(h, m)
             /\ req' = [req EXCEPT ![h] = [IdleReq EXCEPT !.pc = "epoch", !.msg = m]]
  <2>1. PICK h \in Handlers, m \in sent :
             /\ Deliver(h, m)
             /\ req' = [req EXCEPT ![h] = [IdleReq EXCEPT !.pc = "epoch", !.msg = m]]
    BY <1>1
  <2>2. /\ req'[h].msg = m
        /\ \A g \in Handlers : g # h => req'[g] = req[g]
    BY <2>1 DEF TypeOK, IdleReq
  <2>3. \A g \in Handlers : Busy(g) => req[g].msg.wallet # m.wallet
    BY <2>1 DEF Deliver, Quiet
  <2> QED
    BY <2>2, <2>3 DEF OneAtATime, Busy
<1>2. CASE \E h \in Handlers : \E r \in Request :
              /\ Busy(h)
              /\ req' = [req EXCEPT ![h] = r]
              /\ r.pc = "idle" \/ r.msg = req[h].msg
  <2>1. PICK h \in Handlers, r \in Request :
              /\ Busy(h)
              /\ req' = [req EXCEPT ![h] = r]
              /\ r.pc = "idle" \/ r.msg = req[h].msg
    BY <1>2
  <2>2. /\ req'[h] = r
        /\ \A g \in Handlers : g # h => req'[g] = req[g]
    BY <2>1 DEF TypeOK
  <2> QED
    BY <2>1, <2>2 DEF OneAtATime, Busy
<1>3. CASE req' = req
  BY <1>3 DEF OneAtATime, Busy
<1>4. CASE req' = [h \in Handlers |-> IdleReq]
  BY <1>4, IdleReqType DEF OneAtATime, Busy
<1> QED
  BY <1>1, <1>2, <1>3, <1>4, RequestMoves

-----------------------------------------------------------------------------
(***************************************************************************)
(* One wallet: its rows, its baselines and the handler of its report.      *)
(***************************************************************************)
RowsOf(w) ==
  /\ \A e \in Epochs : IF row[w][e].present THEN e <= epoch ELSE row[w][e] = NoRow
  /\ ~HasRow(w) => credited[w] = Zero /\ booked[w] = {}
BaselinesOf(w) == \E a, d \in Signed(w) : Baselines(w, a, d)
HandlerOf(w) ==
  \A h \in Handlers : Busy(h) /\ req[h].msg.wallet = w => Knows(req[h], req[h].msg, w)
WalletInv(w) == RowsOf(w) /\ BaselinesOf(w) /\ HandlerOf(w)

LEMMA WalletByWallet ==
  ASSUME TypeOK
  PROVE  (RowsInOrder /\ HasBaselines /\ HandlersKnow)
           <=> \A w \in Wallets \ forgotten : WalletInv(w)
<1>1. RowsInOrder <=> \A w \in Wallets \ forgotten : RowsOf(w)
  BY DEF RowsInOrder, RowsOf
<1>2. HasBaselines <=> \A w \in Wallets \ forgotten : BaselinesOf(w)
  BY DEF HasBaselines, BaselinesOf
<1>3. HandlersKnow <=> \A w \in Wallets \ forgotten : HandlerOf(w)
  BY BusyMessage DEF HandlersKnow, HandlerOf, Busy
<1> QED
  BY <1>1, <1>2, <1>3 DEF WalletInv

\* The memory and the rows of a wallet do not change: the clock may.
Untouched(w) ==
  /\ tracked'[w] = tracked[w]
  /\ row'[w] = row[w]
  /\ credited'[w] = credited[w]
  /\ booked'[w] = booked[w]
  /\ epoch <= epoch'
  /\ sent \subseteq sent'

LEMMA UntouchedRows ==
  ASSUME TypeOK, TypeOK', NEW w \in Wallets, RowsOf(w), BaselinesOf(w), Untouched(w)
  PROVE  RowsOf(w)' /\ BaselinesOf(w)'
<1>1. RowsOf(w)'
  <2>1. epoch \in Nat /\ epoch' \in Nat
    BY BoundsAssumption DEF TypeOK, Epochs
  <2>2. ASSUME NEW e \in Epochs
        PROVE  IF row'[w][e].present THEN e <= epoch' ELSE row'[w][e] = NoRow
    BY <2>1, BoundsAssumption DEF RowsOf, Untouched, Epochs
  <2> QED
    BY <2>2 DEF RowsOf, Untouched, HasRow
<1>2. \E a, d \in Signed(w)' : Baselines(w, a, d)'
  <2>1. PICK a \in Signed(w), d \in Signed(w) : Baselines(w, a, d)
    BY DEF BaselinesOf
  <2>2. Signed(w) \subseteq Signed(w)'
    BY DEF Untouched, Signed, Genesis
  <2>3. Baselines(w, a, d)'
    BY <2>1 DEF Baselines, Untouched, Newest
  <2> QED
    BY <2>1, <2>2, <2>3
<1> QED
  BY <1>1, <1>2 DEF BaselinesOf

LEMMA UntouchedKnows ==
  ASSUME TypeOK, TypeOK', NEW w \in Wallets, Untouched(w),
         NEW h \in Handlers, Knows(req[h], req[h].msg, w), req'[h] = req[h]
  PROVE  Knows(req[h], req[h].msg, w)'
<1>1. epoch \in Nat /\ epoch' \in Nat /\ req[h].epoch \in Nat
  BY BoundsAssumption DEF TypeOK, Epochs
<1> QED
  BY <1>1 DEF Knows, Untouched

\* A step that leaves the wallet untouched, and every busy request of it alone or
\* with what it has to know.
LEMMA UntouchedWallet ==
  ASSUME TypeOK, TypeOK', NEW w \in Wallets, Untouched(w),
         WalletInv(w),
         \A h \in Handlers :
           Busy(h)' /\ req'[h].msg.wallet = w =>
             \/ req'[h] = req[h]
             \/ Knows(req[h], req[h].msg, w)'
  PROVE  WalletInv(w)'
<1>1. HandlerOf(w)'
  <2> SUFFICES ASSUME NEW h \in Handlers, Busy(h)', req'[h].msg.wallet = w
               PROVE  Knows(req[h], req[h].msg, w)'
    BY DEF HandlerOf, Busy
  <2>1. CASE req'[h] = req[h]
    BY <2>1, UntouchedKnows DEF WalletInv, HandlerOf, Busy
  <2> QED
    BY <2>1
<1> QED
  BY <1>1, UntouchedRows DEF WalletInv

LEMMA AccumulateKeeps ==
  ASSUME TypeOK, TypeOK', ReportsApart, OneAtATime, NEW w \in Wallets,
         WalletInv(w), NEW h \in Handlers, Accumulate(h), req[h].msg.wallet = w
  PROVE  WalletInv(w)'
<1> USE DEF WalletInv
<1> DEFINE r == req[h]
<1>0. PICK m \in Report : m = req[h].msg
  BY BusyMessage DEF Accumulate
<1>1. /\ m \in sent /\ m \in Signed(w) /\ Busy(h)
      /\ r.pc = "count" /\ r.msg = m
  BY <1>0, BusyMessage DEF Accumulate, Busy, Signed
<1>2. /\ req'[h].pc = "save" /\ req'[h].msg = m /\ req'[h].epoch = r.epoch
      /\ req'[h].row = NewRow(r.row, tracked[w], m)
      /\ \A g \in Handlers : g # h => req'[g] = req[g]
      /\ tracked'[w] = [raw |-> m.cum, ts |-> m.ts]
      /\ UNCHANGED <<row, credited, booked, forgotten, epoch, sent>>
  BY <1>0 DEF Accumulate, TypeOK, tables, world, history
<1>3. RowsOf(w)'
  BY <1>2 DEF RowsOf, HasRow
<1>4. /\ \E a, d \in Signed(w)' : Baselines(w, a, d)'
      /\ Knows(req[h], req[h].msg, w)'
  <2>1. Knows(r, m, w)
    BY <1>1 DEF HandlerOf
  <2>2. PICK a \in Signed(w), d \in Signed(w) : Baselines(w, a, d)
    BY DEF BaselinesOf
  <2>3. /\ a \in Report /\ d \in Report
        /\ a.ts \in Nat /\ d.ts \in Nat /\ m.ts \in Nat
    BY <1>1, <2>2, SignedType DEF Report
  <2>4. d.ts <= a.ts /\ a.ts < m.ts
    BY <1>1, <2>1, <2>2 DEF Knows, Baselines
  <2>5. r.epoch \in Epochs /\ r.row = row[w][r.epoch] /\ r.row \in Row
    BY <1>1, <2>1 DEF Knows, TypeOK
  <2>6. row[w][r.epoch].ts <= d.ts
    <3>1. CASE row[w][r.epoch].present
      BY <1>1, <2>1, <2>2, <2>3, <2>5, <3>1 DEF Knows, Baselines, Newest
    <3>2. CASE ~row[w][r.epoch].present
      BY <2>3, <2>5, <3>2 DEF RowsOf, NoRow
    <3> QED
      BY <3>1, <3>2
  <2>7. \A t \in booked[w] : t < m.ts
    BY <2>2, <2>3, <2>4 DEF Baselines, TypeOK
  <2>8. ASSUME NEW c \in Counters
        PROVE  /\ r.row.acc[c] \in Nat
               /\ NewRow(r.row, tracked[w], m).acc[c]
                    = r.row.acc[c] + Delta(a.cum[c], m.cum[c])
               /\ Delta(a.cum[c], m.cum[c]) \in Nat
               /\ credited[w][c] + Delta(a.cum[c], m.cum[c]) <= m.work[c]
    <3>1. /\ a.cum[c] \in Nat /\ m.cum[c] \in Nat /\ d.cum[c] \in Nat
          /\ a.work[c] \in Nat /\ d.work[c] \in Nat /\ m.work[c] \in Nat
          /\ credited[w][c] \in Int
          /\ r.row.acc[c] \in Nat
      BY <1>1, <2>3, <2>5 DEF Report, Count, Row, TypeOK
    <3>2. credited[w][c] <= d.work[c]
      BY <2>2 DEF Baselines
    <3>3. Delta(a.cum[c], m.cum[c]) <= m.work[c] - a.work[c]
      BY <1>1, <2>4 DEF ReportsApart, Apart
    <3>4. d.work[c] <= a.work[c]
      <4>1. CASE d.ts = a.ts
        <5>1. d = a
          BY <4>1 DEF ReportsApart
        <5> QED
          BY <3>1, <5>1
      <4>2. CASE d.ts < a.ts
        <5>1. Delta(d.cum[c], a.cum[c]) <= a.work[c] - d.work[c]
          BY <4>2 DEF ReportsApart, Apart
        <5>2. Delta(d.cum[c], a.cum[c]) \in Nat
          BY <3>1, DeltaNat
        <5> QED
          BY <3>1, <5>1, <5>2
      <4> QED
        BY <2>3, <2>4, <4>1, <4>2
    <3>5. Delta(a.cum[c], m.cum[c]) \in Nat
      BY <3>1, DeltaNat
    <3>6. NewRow(r.row, tracked[w], m).acc[c] = r.row.acc[c] + Delta(a.cum[c], m.cum[c])
      BY <2>2 DEF NewRow, Baselines
    <3> QED
      BY <3>1, <3>2, <3>3, <3>4, <3>5, <3>6
  <2>9. Knows(req[h], req[h].msg, w)'
    <3>1. /\ NewRow(r.row, tracked[w], m).raw = m.cum
          /\ NewRow(r.row, tracked[w], m).ts = m.ts
      BY DEF NewRow
    <3>2. row[w][r.epoch].ts < m.ts
      BY <2>3, <2>4, <2>5, <2>6 DEF Row
    <3>3. \A c \in Counters :
            /\ row[w][r.epoch].acc[c] <= req'[h].row.acc[c]
            /\ credited[w][c] + req'[h].row.acc[c] - row[w][r.epoch].acc[c] <= m.work[c]
      <4> TAKE c \in Counters
      <4>1. m.work[c] \in Nat /\ credited[w][c] \in Int
        BY <1>1 DEF Report, Count, TypeOK
      <4>2. req'[h].row.acc[c] = r.row.acc[c] + Delta(a.cum[c], m.cum[c])
        BY <1>2, <2>8
      <4>3. row[w][r.epoch].acc[c] = r.row.acc[c]
        BY <2>5
      <4> QED
        BY <2>8, <4>1, <4>2, <4>3
    <3> QED
      BY <1>1, <1>2, <2>1, <2>7, <3>1, <3>2, <3>3 DEF Knows
  <2>10. Baselines(w, m, d)'
    BY <1>2, <2>2, <2>3, <2>4 DEF Baselines, Newest
  <2>11. m \in Signed(w)' /\ d \in Signed(w)'
    BY <1>1, <1>2, <2>2 DEF Signed, Genesis
  <2> QED
    BY <2>9, <2>10, <2>11
<1>5. \A g \in Handlers : Busy(g)' /\ req'[g].msg.wallet = w => g = h
  BY <1>1, <1>2 DEF OneAtATime, Busy
<1> QED
  BY <1>2, <1>3, <1>4, <1>5 DEF BaselinesOf, HandlerOf

LEMMA SaveKeeps ==
  ASSUME TypeOK, TypeOK', ReportsApart, OneAtATime, NEW w \in Wallets,
         WalletInv(w), NEW h \in Handlers, Save(h), req[h].msg.wallet = w
  PROVE  WalletInv(w)'
<1> USE DEF WalletInv
<1> DEFINE r == req[h]
<1>0. PICK m \in Report : m = req[h].msg
  BY BusyMessage DEF Save
<1>1. /\ m \in sent /\ m \in Signed(w) /\ Busy(h)
      /\ r.pc = "save" /\ r.msg = m
      /\ r.epoch \in Epochs /\ r.row \in Row
  BY <1>0, BusyMessage DEF Save, Busy, Signed, TypeOK
<1>2. /\ req'[h].pc = "node" /\ req'[h].msg = m
      /\ \A g \in Handlers : g # h => req'[g] = req[g]
      /\ row'[w][r.epoch] = [r.row EXCEPT !.present = TRUE]
      /\ \A e \in Epochs : e # r.epoch => row'[w][e] = row[w][e]
      /\ credited'[w] = [c \in Counters |->
           credited[w][c] + r.row.acc[c] - row[w][r.epoch].acc[c]]
      /\ booked'[w] = booked[w] \cup {r.row.ts}
      /\ UNCHANGED <<tracked, forgotten, epoch, sent>>
  BY <1>0, <1>1 DEF Save, TypeOK, world
<1>3. /\ row'[w][r.epoch].present
      /\ row'[w][r.epoch].raw = r.row.raw
      /\ row'[w][r.epoch].ts = r.row.ts
  BY <1>1, <1>2 DEF Row
<1>4. Knows(r, m, w)
  BY <1>1 DEF HandlerOf
<1>5. RowsOf(w)'
  <2>1. HasRow(w)'
    BY <1>1, <1>3 DEF HasRow
  <2>2. r.epoch <= epoch
    BY <1>1, <1>4 DEF Knows
  <2>3. ASSUME NEW e \in Epochs
        PROVE  IF row'[w][e].present THEN e <= epoch' ELSE row'[w][e] = NoRow
    <3>1. CASE e = r.epoch
      BY <1>2, <1>3, <2>2, <3>1
    <3>2. CASE e # r.epoch
      BY <1>2, <3>2 DEF RowsOf
    <3> QED
      BY <3>1, <3>2
  <2> QED
    BY <2>1, <2>3 DEF RowsOf
<1>6. Baselines(w, m, m)'
  <2>1. m.ts <= m.ts
    BY DEF Report
  <2>2. \A c \in Counters : credited'[w][c] <= m.work[c]
    <3> TAKE c \in Counters
    <3>1. /\ credited'[w][c] = credited[w][c] + r.row.acc[c] - row[w][r.epoch].acc[c]
      BY <1>2
    <3> QED
      BY <1>1, <1>4, <3>1 DEF Knows
  <2>3. \A t \in booked'[w] : t <= m.ts
    <3>1. booked'[w] = booked[w] \cup {m.ts}
      BY <1>1, <1>2, <1>4 DEF Knows
    <3>2. \A t \in booked[w] : t < m.ts /\ t \in Nat
      BY <1>1, <1>4 DEF Knows, TypeOK
    <3> QED
      BY <2>1, <3>1, <3>2 DEF Report
  <2>4. tracked'[w] = [raw |-> m.cum, ts |-> m.ts]
    BY <1>1, <1>2, <1>4 DEF Knows
  <2>5. ASSUME NEW e \in Epochs, Newest(w, e)'
        PROVE  row'[w][e].raw = m.cum /\ row'[w][e].ts = m.ts
    <3>1. e = r.epoch
      <4>1. r.epoch <= e /\ row'[w][e].present
        BY <1>1, <1>3, <2>5 DEF Newest
      <4>2. e # r.epoch => e <= r.epoch
        BY <1>1, <1>2, <1>4, <4>1 DEF Knows
      <4> QED
        BY <1>1, <4>1, <4>2 DEF Epochs
    <3> QED
      BY <1>1, <1>3, <1>4, <3>1 DEF Knows
  <2> QED
    BY <2>1, <2>2, <2>3, <2>4, <2>5 DEF Baselines
<1>7. m \in Signed(w)'
  BY <1>1, <1>2 DEF Signed, Genesis
<1>8. \A g \in Handlers : Busy(g)' /\ req'[g].msg.wallet = w => g = h
  BY <1>1, <1>2 DEF OneAtATime, Busy
<1>9. Knows(req[h], req[h].msg, w)'
  BY <1>2 DEF Knows
<1> QED
  BY <1>5, <1>6, <1>7, <1>8, <1>9 DEF BaselinesOf, HandlerOf

LEMMA RestartKeeps ==
  ASSUME TypeOK, NEW w \in Wallets, WalletInv(w), Restart \/ RestartUnrestored,
         w \notin forgotten'
  PROVE  WalletInv(w)'
<1> USE DEF WalletInv
<1>1. /\ UNCHANGED <<row, epoch, sent, credited, booked>>
      /\ \A h \in Handlers : req'[h].pc = "idle"
      /\ \/ tracked'[w] = Baseline(row[w][epoch]) /\ (HasRow(w) => row[w][epoch].present)
         \/ tracked'[w] = Nothing /\ ~HasRow(w)
  BY IdleReqType DEF Restart, RestartUnrestored, tables, world
<1>2. RowsOf(w)' /\ HandlerOf(w)'
  BY <1>1 DEF RowsOf, HasRow, HandlerOf, Busy
<1>3. epoch \in Epochs
  BY DEF TypeOK
<1>4. CASE HasRow(w)
  <2>1. PICK a \in Signed(w), d \in Signed(w) : Baselines(w, a, d)
    BY DEF BaselinesOf
  <2>2. Newest(w, epoch)
    BY <1>1, <1>3, <1>4 DEF Newest, RowsOf
  <2>3. tracked'[w] = [raw |-> d.cum, ts |-> d.ts]
    BY <1>1, <1>3, <1>4, <2>1, <2>2 DEF Baselines, Newest, Baseline
  <2>4. d.ts \in Nat
    BY <2>1, SignedType DEF Report
  <2>5. Baselines(w, d, d)'
    BY <1>1, <2>1, <2>3, <2>4 DEF Baselines, Newest
  <2> QED
    BY <1>1, <1>2, <2>5 DEF BaselinesOf, Signed, Genesis
<1>5. CASE ~HasRow(w)
  <2>1. tracked'[w] = Nothing
    BY <1>1, <1>3, <1>5 DEF HasRow, Baseline
  <2>2. /\ credited'[w] = Zero /\ booked'[w] = {}
        /\ \A e \in Epochs : ~Newest(w, e)'
    BY <1>1, <1>5 DEF RowsOf, Newest, HasRow
  <2>3. Baselines(w, Genesis(w), Genesis(w))'
    BY <2>1, <2>2 DEF Baselines, Genesis, Nothing, Zero
  <2> QED
    BY <1>2, <2>3 DEF BaselinesOf, Signed, Genesis
<1> QED
  BY <1>4, <1>5

\* Every step, for one wallet whose baseline is not lost.
LEMMA WalletStep ==
  ASSUME IInv, TypeOK', OneAtATime', [Next]_vars, NEW w \in Wallets,
         WalletInv(w), w \notin forgotten'
  PROVE  WalletInv(w)'
<1> USE DEF IInv
<1>0. epoch \in Nat
  BY BoundsAssumption DEF TypeOK, Epochs
<1>1. ASSUME UNCHANGED <<tracked, row, credited, booked, req>>,
             epoch <= epoch', sent \subseteq sent'
      PROVE  WalletInv(w)'
  BY <1>1, UntouchedWallet DEF Untouched
<1>2. CASE \E v \in Wallets : SendReport(v) \/ AgentReset(v) \/ Silence(v)
  BY <1>0, <1>1, <1>2
  DEF SendReport, AgentReset, Silence, memory, tables, world, history
<1>3. CASE AdvanceEpoch
  BY <1>0, <1>1, <1>3 DEF AdvanceEpoch, memory, tables, history
<1>4. ASSUME NEW h \in Handlers, NEW m \in sent, Admit(h, m)
      PROVE  WalletInv(w)'
  <2>1. Untouched(w)
    BY <1>0, <1>4 DEF Admit, Untouched, world, history
  <2>2. /\ req'[h].pc = "epoch" /\ req'[h].msg = m
        /\ \A g \in Handlers : g # h => req'[g] = req[g]
    BY <1>4 DEF Admit, TypeOK, IdleReq
  <2>3. m.wallet = w => Knows(req[h], req[h].msg, w)'
    BY <1>4, <2>1, <2>2 DEF Admit, Accepts, Knows, Untouched
  <2> QED
    BY <2>1, <2>2, <2>3, UntouchedWallet
<1>5. ASSUME NEW h \in Handlers, NEW m \in sent, Reject(h, m)
      PROVE  WalletInv(w)'
  BY <1>0, <1>1, <1>5 DEF Reject, memory, world, history
<1>6. ASSUME NEW h \in Handlers, ReadEpoch(h)
      PROVE  WalletInv(w)'
  <2>1. Untouched(w) /\ epoch' = epoch
    BY <1>0, <1>6 DEF ReadEpoch, Untouched, tables, world, history
  <2>2. /\ req[h].pc = "epoch" /\ Busy(h)
        /\ req'[h].pc = "row" /\ req'[h].msg = req[h].msg /\ req'[h].epoch = epoch
        /\ \A g \in Handlers : g # h => req'[g] = req[g]
    BY <1>6 DEF ReadEpoch, TypeOK, Busy
  <2>3. req[h].msg.wallet = w => Knows(req[h], req[h].msg, w)'
    BY <1>0, <2>1, <2>2 DEF WalletInv, HandlerOf, RowsOf, Knows, Untouched
  <2> QED
    BY <2>1, <2>2, <2>3, UntouchedWallet
<1>7. ASSUME NEW h \in Handlers, ReadRow(h)
      PROVE  WalletInv(w)'
  <2>1. Untouched(w) /\ epoch' = epoch
    BY <1>0, <1>7 DEF ReadRow, Untouched, tables, world, history
  <2>2. /\ req[h].pc = "row" /\ Busy(h)
        /\ req'[h].pc = "count" /\ req'[h].msg = req[h].msg
        /\ req'[h].epoch = req[h].epoch
        /\ req'[h].row = row[req[h].msg.wallet][req[h].epoch]
        /\ \A g \in Handlers : g # h => req'[g] = req[g]
    <3> DEFINE q == row[req[h].msg.wallet][req[h].epoch]
    <3>1. req' = [req EXCEPT ![h].pc = "count", ![h].row = q]
      BY <1>7 DEF ReadRow
    <3>2. req[h].pc = "row"
      BY <1>7 DEF ReadRow
    <3>3. req \in [Handlers -> Request]
      BY DEF TypeOK, Request
    <3> HIDE DEF q
    <3>4. /\ req'[h].pc = "count" /\ req'[h].msg = req[h].msg
          /\ req'[h].epoch = req[h].epoch
          /\ req'[h].row = q
          /\ \A g \in Handlers : g # h => req'[g] = req[g]
      BY <3>1, <3>3 DEF Request
    <3> QED
      BY <3>2, <3>4 DEF Busy, q
  <2>3. req[h].msg.wallet = w => Knows(req[h], req[h].msg, w)'
    BY <2>1, <2>2 DEF WalletInv, HandlerOf, Knows, Untouched
  <2> QED
    BY <2>1, <2>2, <2>3, UntouchedWallet
<1>8. ASSUME NEW h \in Handlers, Accumulate(h)
      PROVE  WalletInv(w)'
  <2>1. CASE req[h].msg.wallet = w
    BY <1>8, <2>1, AccumulateKeeps
  <2>2. CASE req[h].msg.wallet # w
    <3>1. Untouched(w)
      BY <1>0, <1>8, <2>2 DEF Accumulate, Untouched, tables, world, history, TypeOK
    <3>2. /\ req'[h].msg.wallet # w
          /\ \A g \in Handlers : g # h => req'[g] = req[g]
      BY <1>8, <2>2 DEF Accumulate, TypeOK
    <3> QED
      BY <3>1, <3>2, UntouchedWallet
  <2> QED
    BY <2>1, <2>2
<1>9. ASSUME NEW h \in Handlers, Save(h)
      PROVE  WalletInv(w)'
  <2>1. CASE req[h].msg.wallet = w
    BY <1>9, <2>1, SaveKeeps
  <2>2. CASE req[h].msg.wallet # w
    <3>1. UNCHANGED <<tracked, epoch, sent>>
      BY <1>9 DEF Save, world
    <3>2. row'[w] = row[w]
      BY <1>9, <2>2 DEF Save, TypeOK
    <3>3. credited'[w] = credited[w] /\ booked'[w] = booked[w]
      BY <1>9, <2>2 DEF Save, TypeOK
    <3>4. Untouched(w)
      BY <1>0, <3>1, <3>2, <3>3 DEF Untouched
    <3>5. /\ req'[h].msg.wallet # w
          /\ \A g \in Handlers : g # h => req'[g] = req[g]
      <4>1. req' = [req EXCEPT ![h].pc = "node"]
        BY <1>9 DEF Save
      <4>2. req \in [Handlers -> Request]
        BY DEF TypeOK, Request
      <4> QED
        BY <2>2, <4>1, <4>2 DEF Request
    <3> QED
      BY <3>4, <3>5, UntouchedWallet
  <2> QED
    BY <2>1, <2>2
<1>10. ASSUME NEW h \in Handlers,
              SaveFails(h) \/ ReadFails(h) \/ UpdateNodeMetricReport(h)
                \/ TouchAssignment(h) \/ SaveProofs(h)
       PROVE  WalletInv(w)'
  <2>1. Untouched(w)
    BY <1>0, <1>10, SaveProofsDoes
    DEF SaveFails, ReadFails, UpdateNodeMetricReport, TouchAssignment,
        Untouched, tables, world, history
  <2>2. /\ req'[h].pc \in {"idle", "touch", "proofs", "verify", "mark"}
        /\ \A g \in Handlers : g # h => req'[g] = req[g]
    BY <1>10, IdleReqType, SaveProofsDoes
    DEF SaveFails, ReadFails, UpdateNodeMetricReport, TouchAssignment, TypeOK, ProofStages
  <2>3. Knows(req[h], req[h].msg, w)'
    BY <2>2 DEF Knows
  <2> QED
    BY <2>1, <2>2, <2>3, UntouchedWallet
<1>11. CASE Restart \/ RestartUnrestored
  BY <1>11, RestartKeeps
<1>12. CASE UNCHANGED vars
  BY <1>0, <1>1, <1>12 DEF vars, memory, tables, world, history
<1> QED
  BY <1>2, <1>3, <1>4, <1>5, <1>6, <1>7, <1>8, <1>9, <1>10, <1>11, <1>12
  DEF Next, Handle

-----------------------------------------------------------------------------
LEMMA IInvInit == Init => IInv
<1> SUFFICES ASSUME Init PROVE IInv
  OBVIOUS
<1>1. TypeOK
  BY TypeInit
<1>2. \A w \in Wallets : Signed(w) = {Genesis(w)}
  BY DEF Init, Signed
<1>3. ReportsBehind /\ ReportsApart
  <2>1. \A w \in Wallets : /\ agent[w].cum = Zero /\ agent[w].work = Zero
                           /\ agent[w].clock = 0
    BY DEF Init
  <2>2. \A w \in Wallets : Apart(Genesis(w), Zero, Zero)
    BY DEF Apart, Delta, Genesis, Zero
  <2>3. ReportsBehind
    BY <1>2, <2>1, <2>2 DEF ReportsBehind, Genesis
  <2>4. ReportsApart
    BY <1>2 DEF ReportsApart, Genesis
  <2> QED
    BY <2>3, <2>4
<1>4. OneAtATime /\ HandlersKnow
  BY IdleReqType DEF Init, OneAtATime, HandlersKnow, Busy
<1>5. ASSUME NEW w \in Wallets
      PROVE  /\ \A e \in Epochs : row[w][e] = NoRow
             /\ credited[w] = Zero /\ booked[w] = {}
  BY <1>5 DEF Init
<1>8. RowsInOrder
  <2>1. ~NoRow.present
    BY DEF NoRow
  <2> QED
    BY <1>5, <2>1 DEF RowsInOrder
<1>6. ASSUME NEW w \in Wallets
      PROVE  Baselines(w, Genesis(w), Genesis(w))
  BY <1>6 DEF Init, Baselines, Genesis, Nothing, Newest, NoRow, Zero
<1>7. HasBaselines
  BY <1>2, <1>6 DEF HasBaselines
<1> QED
  BY <1>1, <1>3, <1>4, <1>7, <1>8 DEF IInv

\* What a restart has forgotten stays forgotten.
LEMMA ForgottenGrows == ASSUME [Next]_vars PROVE forgotten \subseteq forgotten'
  BY DEF Next, Handle, vars, history, SendReport, AgentReset, Silence, AdvanceEpoch,
         Admit, Reject, ReadEpoch, ReadRow, Accumulate, Save, SaveFails, ReadFails,
         UpdateNodeMetricReport, TouchAssignment, SaveProofs, SaveProof,
         VerifyProof, MarkVerified, Answer, Restart,
         RestartUnrestored

LEMMA IInvStep ==
  ASSUME IInv, ~Overlap, [Next]_vars
  PROVE  IInv'
<1> USE DEF IInv
<1>1. TypeOK'
  BY TypeStep
<1>2. ReportsBehind' /\ ReportsApart'
  BY <1>1, AgentsKeepApart
<1>3. OneAtATime'
  BY StaysOneAtATime
<1>4. \A w \in Wallets \ forgotten' : WalletInv(w)'
  BY <1>1, <1>3, WalletStep, WalletByWallet, ForgottenGrows
<1>5. RowsInOrder'
  BY <1>4 DEF WalletInv, RowsInOrder, RowsOf
<1>6. HasBaselines'
  BY <1>4 DEF WalletInv, HasBaselines, BaselinesOf
<1>7. HandlersKnow'
  <2>1. \A h \in Handlers : Busy(h)' => req'[h].msg.wallet \in Wallets
    BY <1>1 DEF TypeOK, Busy, Report
  <2> QED
    BY <1>4, <2>1 DEF WalletInv, HandlersKnow, HandlerOf
<1> QED
  BY <1>1, <1>2, <1>3, <1>5, <1>6, <1>7

\* The inductive invariant holds in every reachable state when the reports of a
\* wallet are handled one at a time, for every number of wallets, handlers,
\* epochs, reports and faults (recordMetrics and onModuleInit).
THEOREM InductiveInvariant == ASSUME ~Overlap PROVE Spec => []IInv
<1>1. Init => IInv
  BY IInvInit
<1>2. IInv /\ [Next]_vars => IInv'
  BY IInvStep
<1> QED
  BY <1>1, <1>2, PTL DEF Spec

LEMMA CreditIsEarned == IInv => NoOverCredit
<1> SUFFICES ASSUME IInv, NEW w \in Wallets \ forgotten, NEW c \in Counters
             PROVE  credited[w][c] <= agent[w].work[c]
  BY DEF NoOverCredit
<1> USE DEF IInv
<1>1. PICK a \in Signed(w), d \in Signed(w) : Baselines(w, a, d)
  BY DEF HasBaselines
<1>2. credited[w][c] <= d.work[c]
  BY <1>1 DEF Baselines
<1>3. Delta(d.cum[c], agent[w].cum[c]) <= agent[w].work[c] - d.work[c]
  BY <1>1 DEF ReportsBehind, Apart
<1>4. /\ d.cum[c] \in Nat /\ d.work[c] \in Nat
      /\ agent[w].cum[c] \in Nat /\ agent[w].work[c] \in Nat
      /\ credited[w][c] \in Int
  BY <1>1, SignedType DEF TypeOK, Report, Count
<1>5. Delta(d.cum[c], agent[w].cum[c]) \in Nat
  BY <1>4, DeltaNat
<1> QED
  BY <1>2, <1>3, <1>4, <1>5

\* No wallet is ever credited more than the work it did, whatever order its
\* reports arrive in, however often it starts its counters again and wherever
\* the process dies, as long as its baseline is restored (recordMetrics).
THEOREM CreditNeverExceedsWork == ASSUME ~Overlap PROVE Spec => []NoOverCredit
BY InductiveInvariant, CreditIsEarned, PTL

\* Only a save changes a row, and only that of its own report.
LEMMA OnlySavesChangeRows ==
  ASSUME TypeOK, [Next]_vars, NEW w \in Wallets, NEW e \in Epochs,
         row'[w][e] # row[w][e]
  PROVE  \E h \in Handlers :
           /\ Save(h) /\ req[h].msg.wallet = w /\ req[h].epoch = e
           /\ row'[w][e] = [req[h].row EXCEPT !.present = TRUE]
<1>1. PICK h \in Handlers : Save(h)
  BY DEF Next, Handle, vars, tables, SendReport, AgentReset, Silence, AdvanceEpoch,
         Admit, Reject, ReadEpoch, ReadRow, Accumulate, SaveFails, ReadFails,
         UpdateNodeMetricReport, TouchAssignment, SaveProofs, SaveProof,
         VerifyProof, MarkVerified, Answer, Restart,
         RestartUnrestored
<1>2. req[h].msg.wallet = w
  BY <1>1 DEF Save, TypeOK
<1>3. req[h].epoch = e
  BY <1>1, <1>2 DEF Save, TypeOK
<1>4. row'[w][e] = [req[h].row EXCEPT !.present = TRUE]
  BY <1>1, <1>2, <1>3 DEF Save, TypeOK
<1> QED
  BY <1>1, <1>2, <1>3, <1>4

LEMMA RowGrows ==
  ASSUME IInv, [Next]_vars, NEW w \in Wallets \ forgotten, NEW e \in Epochs,
         row'[w][e] # row[w][e]
  PROVE  /\ row'[w][e].present
         /\ row[w][e].ts < row'[w][e].ts
         /\ \A c \in Counters : row[w][e].acc[c] <= row'[w][e].acc[c]
<1> USE DEF IInv
<1>1. PICK h \in Handlers :
         /\ Save(h) /\ req[h].msg.wallet = w /\ req[h].epoch = e
         /\ row'[w][e] = [req[h].row EXCEPT !.present = TRUE]
  BY OnlySavesChangeRows
<1>2. Busy(h) /\ req[h].pc = "save" /\ req[h].row \in Row
  BY <1>1 DEF Save, Busy, TypeOK
<1>3. Knows(req[h], req[h].msg, w)
  BY <1>1, <1>2 DEF HandlersKnow
<1>4. /\ row'[w][e].present
      /\ row'[w][e].ts = req[h].row.ts
      /\ row'[w][e].acc = req[h].row.acc
  BY <1>1, <1>2 DEF Row
<1> QED
  BY <1>1, <1>2, <1>3, <1>4 DEF Knows

\* The row of an epoch never loses credit and never goes back in time
\* (metricsRepo.save of recordMetrics).
THEOREM RowsNeverShrink == ASSUME ~Overlap PROVE Spec => RowsOnlyGrow
<1>1. IInv /\ [Next]_vars =>
        [\A w \in Wallets \ forgotten : \A e \in Epochs :
           LET old == row[w][e]
               new == row'[w][e]
           IN  new # old =>
                 /\ new.present
                 /\ old.ts < new.ts
                 /\ \A c \in Counters : old.acc[c] <= new.acc[c]]_vars
  BY RowGrows
<1> QED
  BY <1>1, InductiveInvariant, PTL DEF Spec, RowsOnlyGrow

(***************************************************************************)
(* More about the usage accounting: two requests never both order a reset, *)
(* a restart restores the baseline a crash destroys, and a saved report is *)
(* covered by the credit.                                                  *)
(***************************************************************************)
\* What a step other than a save makes of a request that has saved its row: it
\* keeps it as it was, or ends it.
LEMMA SavedStays ==
  ASSUME TypeOK, [Next]_vars, \A h \in Handlers : ~Save(h)
  PROVE  /\ row' = row
         /\ \A h \in Handlers : req'[h].pc \in Saved =>
              /\ req[h].pc \in Saved
              /\ req'[h].msg = req[h].msg /\ req'[h].epoch = req[h].epoch
              /\ req'[h].row = req[h].row
<1>1. row' = row
  BY DEF Next, Handle, vars, tables, SendReport, AgentReset, Silence, AdvanceEpoch,
         Admit, Reject, ReadEpoch, ReadRow, Accumulate, SaveFails, ReadFails,
         UpdateNodeMetricReport, TouchAssignment, SaveProofs, SaveProof,
         VerifyProof, MarkVerified, Answer, Restart,
         RestartUnrestored
<1> SUFFICES ASSUME NEW g \in Handlers, req'[g].pc \in Saved
             PROVE  /\ req[g].pc \in Saved
                    /\ req'[g].msg = req[g].msg /\ req'[g].epoch = req[g].epoch
                    /\ req'[g].row = req[g].row
  BY <1>1
<1> DEFINE Kept == /\ req[g].pc \in Saved
                   /\ req'[g].msg = req[g].msg /\ req'[g].epoch = req[g].epoch
                   /\ req'[g].row = req[g].row
<1>2. req \in [Handlers -> Request]
  BY DEF TypeOK, Request
<1>3. CASE UNCHANGED req
  BY <1>3
<1>4. ASSUME NEW h \in Handlers, NEW m \in sent, Admit(h, m) PROVE Kept
  BY <1>2, <1>4 DEF Admit, IdleReq, Saved
<1>5. ASSUME NEW h \in Handlers, ReadEpoch(h) \/ ReadRow(h) \/ Accumulate(h) PROVE Kept
  <2>1. CASE g = h
    <3>1. req'[g].pc \in {"row", "count", "save"}
      BY <1>2, <1>5, <2>1 DEF ReadEpoch, ReadRow, Accumulate, Request
    <3> QED
      BY <3>1 DEF Saved
  <2>2. CASE g # h
    BY <1>2, <1>5, <2>2 DEF ReadEpoch, ReadRow, Accumulate
  <2> QED
    BY <2>1, <2>2
<1>6. ASSUME NEW h \in Handlers, SaveFails(h) \/ ReadFails(h)
      PROVE  Kept
  <2>1. req' = [req EXCEPT ![h] = IdleReq]
    BY <1>6 DEF SaveFails, ReadFails
  <2> QED
    BY <1>2, <2>1, IdleReqType DEF Saved
<1>7. ASSUME NEW h \in Handlers, UpdateNodeMetricReport(h) PROVE Kept
  BY <1>2, <1>7 DEF UpdateNodeMetricReport, Request, Saved
<1>8. ASSUME NEW h \in Handlers, TouchAssignment(h) PROVE Kept
  BY <1>2, <1>8, IdleReqType DEF TouchAssignment, Request, Saved
<1>9. CASE Restart \/ RestartUnrestored
  BY <1>9, IdleReqType DEF Restart, RestartUnrestored, Saved
<1>14. ASSUME NEW h \in Handlers, SaveProofs(h) PROVE Kept
  BY <1>14, SaveProofsDoes, IdleReqType DEF ProofStages, Saved
<1>10. CASE UNCHANGED vars
  BY <1>3, <1>10 DEF vars, memory
<1>11. ASSUME NEW w \in Wallets, SendReport(w) \/ AgentReset(w) \/ Silence(w) PROVE Kept
  BY <1>3, <1>11 DEF SendReport, AgentReset, Silence, memory
<1>12. CASE AdvanceEpoch
  BY <1>3, <1>12 DEF AdvanceEpoch, memory
<1>13. ASSUME NEW h \in Handlers, NEW m \in sent, Reject(h, m) PROVE Kept
  BY <1>3, <1>13 DEF Reject, memory
<1> QED
  BY <1>4, <1>5, <1>6, <1>7, <1>8, <1>9, <1>10, <1>11, <1>12, <1>13, <1>14 DEF Next, Handle

\* What a save does to the requests and the rows.
LEMMA SaveDoes ==
  ASSUME TypeOK, NEW h \in Handlers, Save(h)
  PROVE  /\ req[h].pc = "save" /\ ~Duplicate(h)
         /\ req'[h].pc = "node" /\ req'[h].msg = req[h].msg
         /\ req'[h].epoch = req[h].epoch /\ req'[h].row = req[h].row
         /\ \A g \in Handlers \ {h} : req'[g] = req[g]
         /\ row'[req[h].msg.wallet][req[h].epoch] = [req[h].row EXCEPT !.present = TRUE]
         /\ \A w \in Wallets : \A e \in Epochs :
              w # req[h].msg.wallet \/ e # req[h].epoch => row'[w][e] = row[w][e]
<1>1. /\ req \in [Handlers -> Request] /\ req[h].epoch \in Epochs
      /\ req[h].pc = "save" /\ req[h].msg.wallet \in Wallets
  BY BusyMessage DEF TypeOK, Request, Save
<1>2. /\ req' = [req EXCEPT ![h].pc = "node"]
      /\ row' = [row EXCEPT ![req[h].msg.wallet] =
                   [@ EXCEPT ![req[h].epoch] = [req[h].row EXCEPT !.present = TRUE]]]
      /\ ~Duplicate(h)
  BY DEF Save
<1>3. /\ req'[h].pc = "node" /\ req'[h].msg = req[h].msg
      /\ req'[h].epoch = req[h].epoch /\ req'[h].row = req[h].row
      /\ \A g \in Handlers \ {h} : req'[g] = req[g]
  BY <1>1, <1>2 DEF Request
<1>4. row \in [Wallets -> [Epochs -> Row]]
  BY DEF TypeOK
<1>5. /\ row'[req[h].msg.wallet][req[h].epoch] = [req[h].row EXCEPT !.present = TRUE]
      /\ \A w \in Wallets : \A e \in Epochs :
           w # req[h].msg.wallet \/ e # req[h].epoch => row'[w][e] = row[w][e]
  BY <1>1, <1>2, <1>4
<1> QED
  BY <1>1, <1>2, <1>3, <1>5

-----------------------------------------------------------------------------
(***************************************************************************)
(* One reset order, with overlapping requests.                             *)
(***************************************************************************)
\* Who has saved has a row, which no step ever takes away.
SavedShown ==
  \A h \in Handlers : req[h].pc \in Saved => row[req[h].msg.wallet][req[h].epoch].present

ResetInv == TypeOK /\ SavedShown /\ OneResetOrder

LEMMA ResetInvStep == ResetInv /\ [Next]_vars => ResetInv'
<1> SUFFICES ASSUME ResetInv, [Next]_vars PROVE ResetInv'
  OBVIOUS
<1> USE DEF ResetInv
<1>1. TypeOK'
  BY TypeStep
<1>2. CASE \A h \in Handlers : ~Save(h)
  BY <1>1, <1>2, SavedStays DEF SavedShown, OneResetOrder
<1>3. ASSUME NEW h \in Handlers, Save(h) PROVE SavedShown' /\ OneResetOrder'
  <2>1. /\ req[h].row \in Row /\ req[h].msg.wallet \in Wallets /\ req[h].epoch \in Epochs
        /\ req[h].pc = "save" /\ ~Duplicate(h)
    BY <1>3, BusyMessage, SaveDoes DEF TypeOK
  <2>2. /\ req'[h].pc = "node" /\ req'[h].msg = req[h].msg
        /\ req'[h].epoch = req[h].epoch /\ req'[h].row = req[h].row
        /\ \A g \in Handlers \ {h} : req'[g] = req[g]
    BY <1>3, SaveDoes
  <2>3. row'[req[h].msg.wallet][req[h].epoch].present
    <3>1. row'[req[h].msg.wallet][req[h].epoch] = [req[h].row EXCEPT !.present = TRUE]
      BY <1>3, SaveDoes
    <3> QED
      BY <2>1, <3>1 DEF Row
  <2>4. \A v \in Wallets : \A f \in Epochs : row[v][f].present => row'[v][f].present
    <3>1. \A v \in Wallets : \A f \in Epochs :
            v # req[h].msg.wallet \/ f # req[h].epoch => row'[v][f] = row[v][f]
      BY <1>3, SaveDoes
    <3> QED
      BY <2>3, <3>1
  <2>5. \A g \in Handlers : req[g].pc \in Saved =>
          req[g].msg.wallet \in Wallets /\ req[g].epoch \in Epochs
    BY BusyMessage DEF Saved, TypeOK
  <2>6. SavedShown'
    <3> SUFFICES ASSUME NEW g \in Handlers, req'[g].pc \in Saved
                 PROVE  row'[req'[g].msg.wallet][req'[g].epoch].present
      BY DEF SavedShown
    <3>1. CASE g = h
      BY <2>2, <2>3, <3>1
    <3>2. CASE g # h
      BY <2>2, <2>4, <2>5, <3>2 DEF SavedShown
    <3> QED
      BY <3>1, <3>2
  <2>7. ASSUME NEW g \in Handlers \ {h}, req[g].pc \in Saved, ~req[h].row.present,
               req[g].msg.wallet = req[h].msg.wallet, req[g].epoch = req[h].epoch
        PROVE  FALSE
    BY <2>1, <2>7 DEF SavedShown, Duplicate
  <2>8. OneResetOrder'
    <3> SUFFICES ASSUME NEW g \in Handlers, NEW k \in Handlers, g # k,
                        req'[g].pc \in Saved, req'[k].pc \in Saved,
                        ~req'[g].row.present, ~req'[k].row.present,
                        req'[g].msg.wallet = req'[k].msg.wallet,
                        req'[g].epoch = req'[k].epoch
                 PROVE  FALSE
      BY DEF OneResetOrder
    <3>1. CASE g = h \/ k = h
      BY <2>2, <2>7, <3>1
    <3>2. CASE g # h /\ k # h
      BY <2>2, <3>2 DEF OneResetOrder
    <3> QED
      BY <3>1, <3>2
  <2> QED
    BY <2>6, <2>8
<1> QED
  BY <1>1, <1>2, <1>3

\* At most one of the requests in flight has inserted the first row of a wallet in an
\* epoch, so at most one answers shouldReset (recordMetrics, isNewEpoch), however
\* many reports of the wallet are handled together.
THEOREM OneOrderOnly == Spec => []OneResetOrder
<1>1. Init => ResetInv
  BY TypeInit, IdleReqType DEF Init, ResetInv, SavedShown, OneResetOrder, Saved
<1>2. ResetInv /\ [Next]_vars => ResetInv'
  BY ResetInvStep
<1>3. ResetInv => OneResetOrder
  BY DEF ResetInv
<1> QED
  BY <1>1, <1>2, <1>3, PTL DEF Spec

-----------------------------------------------------------------------------
(***************************************************************************)
(* What the other steps leave alone.                                       *)
(***************************************************************************)
\* Only a save, its failure and the step before it touch a request that is about to
\* save; but for a restart, tracked and row change in no other step.
LEMMA OthersLeaveSaves ==
  ASSUME TypeOK, [Next]_vars, ~Restart, ~RestartUnrestored,
         \A h \in Handlers : ~Save(h) /\ ~Accumulate(h) /\ ~SaveFails(h)
  PROVE  /\ UNCHANGED <<tracked, row, credited, booked>>
         /\ \A h \in Handlers :
              req'[h].pc = "save" \/ req[h].pc = "save" => req'[h] = req[h]
<1>1. UNCHANGED <<tracked, row, credited, booked>>
  BY DEF Next, Handle, vars, memory, tables, history, SendReport, AgentReset, Silence,
         AdvanceEpoch, Admit, Reject, ReadEpoch, ReadRow, ReadFails,
         UpdateNodeMetricReport, TouchAssignment, SaveProofs, SaveProof, VerifyProof,
         MarkVerified, Answer
<1> SUFFICES ASSUME NEW g \in Handlers, req'[g].pc = "save" \/ req[g].pc = "save"
             PROVE  req'[g] = req[g]
  BY <1>1
<1>2. req \in [Handlers -> Request]
  BY DEF TypeOK, Request
<1>3. CASE UNCHANGED req
  BY <1>3
<1>4. ASSUME NEW h \in Handlers, NEW m \in sent, Admit(h, m) PROVE req'[g] = req[g]
  BY <1>2, <1>4 DEF Admit, Deliver, Busy, IdleReq
<1>5. ASSUME NEW h \in Handlers, ReadEpoch(h) \/ ReadRow(h) PROVE req'[g] = req[g]
  <2>1. CASE g = h
    <3>1. req[g].pc \in {"epoch", "row"} /\ req'[g].pc \in {"row", "count"}
      BY <1>2, <1>5, <2>1 DEF ReadEpoch, ReadRow, Request
    <3> QED
      BY <3>1
  <2>2. CASE g # h
    BY <1>2, <1>5, <2>2 DEF ReadEpoch, ReadRow
  <2> QED
    BY <2>1, <2>2
<1>6. ASSUME NEW h \in Handlers, ReadFails(h) PROVE req'[g] = req[g]
  BY <1>2, <1>6, IdleReqType DEF ReadFails
<1>9. ASSUME NEW h \in Handlers, SaveProofs(h) PROVE req'[g] = req[g]
  BY <1>9, SaveProofsDoes, IdleReqType DEF ProofStages
<1>7. ASSUME NEW h \in Handlers, UpdateNodeMetricReport(h) PROVE req'[g] = req[g]
  BY <1>2, <1>7 DEF UpdateNodeMetricReport, Request
<1>8. ASSUME NEW h \in Handlers, TouchAssignment(h) PROVE req'[g] = req[g]
  BY <1>2, <1>8, IdleReqType DEF TouchAssignment, Request
<1>10. CASE UNCHANGED vars
  BY <1>3, <1>10 DEF vars, memory
<1>11. ASSUME NEW w \in Wallets, SendReport(w) \/ AgentReset(w) \/ Silence(w)
       PROVE  req'[g] = req[g]
  BY <1>3, <1>11 DEF SendReport, AgentReset, Silence, memory
<1>12. CASE AdvanceEpoch
  BY <1>3, <1>12 DEF AdvanceEpoch, memory
<1>13. ASSUME NEW h \in Handlers, NEW m \in sent, Reject(h, m) PROVE req'[g] = req[g]
  BY <1>3, <1>13 DEF Reject, memory
<1> QED
  BY <1>4, <1>5, <1>6, <1>7, <1>8, <1>9, <1>10, <1>11, <1>12, <1>13 DEF Next, Handle

\* A fault that cannot occur any more never occurs.
LEMMA FaultsStayAway ==
  ASSUME TypeOK, [Next]_vars, NEW kind \in FaultKinds, faults[kind] = 0
  PROVE  faults'[kind] = 0 /\ ~Suffer(kind)
<1>1. faults \in [FaultKinds -> Nat]
  BY DEF TypeOK
<1>2. \A k \in FaultKinds : Suffer(k) => k # kind /\ faults'[kind] = faults[kind]
  BY <1>1 DEF Suffer
<1>3. ASSUME RestartUnrestored PROVE faults'[kind] = 0
  <2>1. /\ faults["read"] > 0 /\ faults["restart"] > 0
        /\ faults' = [faults EXCEPT !["read"] = @ - 1, !["restart"] = @ - 1]
    BY <1>3 DEF RestartUnrestored
  <2>2. kind # "read" /\ kind # "restart"
    BY <2>1
  <2> QED
    BY <1>1, <2>1, <2>2
<1>4. \/ UNCHANGED faults \/ RestartUnrestored
      \/ \E k \in FaultKinds : Suffer(k)
  BY DEF Next, Handle, vars, FaultKinds, SendReport, AgentReset, Silence, AdvanceEpoch,
         Admit, Reject, ReadEpoch, ReadRow, Accumulate, Save, SaveFails, ReadFails,
         UpdateNodeMetricReport, TouchAssignment, SaveProofs, SaveProof,
         VerifyProof, MarkVerified, Answer, Restart
<1> QED
  BY <1>2, <1>3, <1>4

LEMMA AccumulateDoes ==
  ASSUME TypeOK, NEW h \in Handlers, Accumulate(h)
  PROVE  /\ req[h].pc = "count" /\ req'[h].pc = "save"
         /\ req'[h].msg = req[h].msg /\ req'[h].epoch = req[h].epoch
         /\ req'[h].row = NewRow(req[h].row, tracked[req[h].msg.wallet], req[h].msg)
         /\ \A g \in Handlers \ {h} : req'[g] = req[g]
         /\ tracked'[req[h].msg.wallet] = [raw |-> req[h].msg.cum, ts |-> req[h].msg.ts]
         /\ \A w \in Wallets \ {req[h].msg.wallet} : tracked'[w] = tracked[w]
<1>1. /\ req \in [Handlers -> Request] /\ req[h].pc = "count"
      /\ req[h].msg.wallet \in Wallets
  BY BusyMessage DEF TypeOK, Request, Accumulate
<1> QED
  BY <1>1 DEF Accumulate, Request, TypeOK

-----------------------------------------------------------------------------
(***************************************************************************)
(* The baseline a restart restores, while no save fails.                   *)
(***************************************************************************)
\* A report of the wallet is counted in the Maps and not yet in its row.
Saves(r, w) == r.pc = "save" /\ r.msg.wallet = w
Pending(w)  == \E h \in Handlers : Saves(req[h], w)

\* Unless one is, the newest row is the baseline; and a save that comes will succeed.
Restorable(w) ==
  /\ ~Pending(w) => \A e \in Epochs : Newest(w, e) => Baseline(row[w][e]) = tracked[w]
  /\ \A h \in Handlers : Saves(req[h], w) => ~Duplicate(h)

BaselineInv ==
  /\ IInv
  /\ faults["write"] = 0
  /\ \A w \in Wallets \ forgotten : Restorable(w)

LEMMA SaveRestores ==
  ASSUME BaselineInv, NEW w \in Wallets \ forgotten, NEW h \in Handlers, Save(h),
         req[h].msg.wallet = w
  PROVE  Restorable(w)'
<1> USE DEF BaselineInv, IInv
<1> DEFINE m == req[h].msg
           d == req[h].epoch
<1>1. /\ req[h].pc = "save" /\ req'[h].pc = "node" /\ Busy(h)
      /\ \A g \in Handlers \ {h} : req'[g] = req[g]
      /\ row'[w][d] = [req[h].row EXCEPT !.present = TRUE]
      /\ \A e \in Epochs \ {d} : row'[w][e] = row[w][e]
  BY SaveDoes DEF Busy
<1>2. tracked' = tracked
  BY DEF Save
<1>3. /\ tracked[w] = [raw |-> m.cum, ts |-> m.ts]
      /\ req[h].row.raw = m.cum /\ req[h].row.ts = m.ts
      /\ \A e \in Epochs : row[w][e].present => e <= d
  BY <1>1 DEF HandlersKnow, Knows
<1>4. d \in Epochs /\ req[h].row \in Row
  BY DEF TypeOK
<1>5. Baseline(row'[w][d]) = tracked[w] /\ row'[w][d].present
  BY <1>1, <1>3, <1>4 DEF Baseline, Row
<1>6. \A e \in Epochs : Newest(w, e)' => e = d
  <2> SUFFICES ASSUME NEW e \in Epochs, Newest(w, e)', e # d PROVE FALSE
    OBVIOUS
  <2>1. row[w][e].present /\ d <= e
    BY <1>1, <1>4, <1>5 DEF Newest
  <2> QED
    BY <1>3, <1>4, <2>1 DEF Epochs
<1>7. \A g \in Handlers : ~Saves(req'[g], w)
  BY <1>1 DEF OneAtATime, Busy, Saves
<1>8. \A e \in Epochs : Newest(w, e)' => Baseline(row'[w][e]) = tracked'[w]
  BY <1>2, <1>5, <1>6
<1> QED
  BY <1>7, <1>8 DEF Restorable, Baseline

LEMMA AccumulateRestores ==
  ASSUME BaselineInv, NEW w \in Wallets \ forgotten, NEW h \in Handlers, Accumulate(h),
         req[h].msg.wallet = w
  PROVE  Restorable(w)'
<1> USE DEF BaselineInv, IInv
<1>1. /\ req[h].pc = "count" /\ Busy(h)
      /\ req'[h].pc = "save" /\ req'[h].msg = req[h].msg /\ req'[h].epoch = req[h].epoch
      /\ req'[h].row = NewRow(req[h].row, tracked[w], req[h].msg)
      /\ \A g \in Handlers \ {h} : req'[g] = req[g]
  BY AccumulateDoes DEF Busy
<1>2. req[h].row = row[w][req[h].epoch]
  BY <1>1 DEF HandlersKnow, Knows
<1>3. row' = row
  BY DEF Accumulate, tables
<1>4. Pending(w)'
  BY <1>1 DEF Pending, Saves
<1>5. \A g \in Handlers \ {h} : ~Saves(req'[g], w)
  BY <1>1 DEF OneAtATime, Busy, Saves
<1>6. ~Duplicate(h)'
  BY <1>1, <1>2, <1>3 DEF Duplicate, NewRow
<1> QED
  BY <1>4, <1>5, <1>6 DEF Restorable

LEMMA RestartRestores ==
  ASSUME BaselineInv, NEW w \in Wallets \ forgotten', Restart \/ RestartUnrestored,
         w \notin forgotten
  PROVE  Restorable(w)'
<1> USE DEF BaselineInv, IInv
<1>1. /\ UNCHANGED row
      /\ \A h \in Handlers : req'[h].pc = "idle"
      /\ \/ tracked'[w] = Baseline(row[w][epoch]) /\ (HasRow(w) => row[w][epoch].present)
         \/ ~HasRow(w)
  BY IdleReqType DEF Restart, RestartUnrestored, tables
<1>2. epoch \in Epochs
  BY DEF TypeOK
<1>3. \A e \in Epochs : Newest(w, e) => HasRow(w)
  BY DEF Newest, HasRow
<1>4. ASSUME NEW e \in Epochs, Newest(w, e) PROVE Baseline(row[w][e]) = tracked'[w]
  <2>1. row[w][epoch].present /\ tracked'[w] = Baseline(row[w][epoch])
    BY <1>1, <1>3, <1>4
  <2>2. e <= epoch /\ epoch <= e
    BY <1>2, <1>4, <2>1 DEF Newest, RowsInOrder
  <2>3. e = epoch
    BY <1>2, <2>2 DEF Epochs
  <2> QED
    BY <2>1, <2>3
<1>5. \A e \in Epochs : Newest(w, e)' => Baseline(row'[w][e]) = tracked'[w]
  BY <1>1, <1>4 DEF Newest
<1> QED
  BY <1>1, <1>5 DEF Restorable, Baseline, Saves

LEMMA SameRestorable ==
  ASSUME NEW w \in Wallets, Restorable(w), tracked'[w] = tracked[w], row'[w] = row[w],
         \A h \in Handlers : \/ req'[h] = req[h]
                             \/ ~Saves(req[h], w) /\ ~Saves(req'[h], w)
  PROVE  Restorable(w)'
<1>1. Pending(w)' <=> Pending(w)
  BY DEF Pending
<1>2. \A e \in Epochs : Newest(w, e)' <=> Newest(w, e)
  BY DEF Newest
<1>3. \A e \in Epochs : Baseline(row'[w][e]) = Baseline(row[w][e])
  BY DEF Baseline
<1>4. ~Pending(w)' => \A e \in Epochs : Newest(w, e)' => Baseline(row'[w][e]) = tracked'[w]
  BY <1>1, <1>2, <1>3 DEF Restorable
<1>5. \A h \in Handlers :
        Saves(req'[h], w) => ~Duplicate(h)'
  BY DEF Restorable, Duplicate, Saves
<1> QED
  BY <1>4, <1>5 DEF Restorable, Baseline

LEMMA BaselineInvStep ==
  ASSUME BaselineInv, ~Overlap, [Next]_vars PROVE BaselineInv'
<1> USE DEF BaselineInv
<1>1. IInv' /\ TypeOK /\ TypeOK'
  BY IInvStep DEF IInv
<1>2. faults'["write"] = 0 /\ ~Suffer("write")
  BY <1>1, FaultsStayAway DEF FaultKinds
<1>3. ASSUME NEW w \in Wallets \ forgotten' PROVE Restorable(w)'
  <2>1. w \in Wallets \ forgotten /\ Restorable(w)
    BY ForgottenGrows
  <2>2. CASE Restart \/ RestartUnrestored
    BY <2>1, <2>2, RestartRestores
  <2>3. ASSUME NEW h \in Handlers, Save(h) PROVE Restorable(w)'
    <3>1. CASE req[h].msg.wallet = w
      BY <2>1, <2>3, <3>1, SaveRestores
    <3>2. CASE req[h].msg.wallet # w
      <4>1. tracked' = tracked /\ row'[w] = row[w]
        BY <1>1, <2>3, <3>2 DEF Save, TypeOK
      <4>2. \A g \in Handlers :
              req'[g] = req[g] \/ (~Saves(req[g], w) /\ ~Saves(req'[g], w))
        BY <1>1, <2>3, <3>2, SaveDoes DEF Saves
      <4> QED
        BY <2>1, <4>1, <4>2, SameRestorable
    <3> QED
      BY <3>1, <3>2
  <2>4. ASSUME NEW h \in Handlers, Accumulate(h) PROVE Restorable(w)'
    <3>1. CASE req[h].msg.wallet = w
      BY <2>1, <2>4, <3>1, AccumulateRestores
    <3>2. CASE req[h].msg.wallet # w
      <4>1. tracked'[w] = tracked[w] /\ row'[w] = row[w]
        BY <1>1, <2>1, <2>4, <3>2, AccumulateDoes DEF Accumulate, tables
      <4>2. \A g \in Handlers :
              req'[g] = req[g] \/ (~Saves(req[g], w) /\ ~Saves(req'[g], w))
        BY <1>1, <2>4, <3>2, AccumulateDoes DEF Saves
      <4> QED
        BY <2>1, <4>1, <4>2, SameRestorable
    <3> QED
      BY <3>1, <3>2
  <2>5. ASSUME NEW h \in Handlers, SaveFails(h) PROVE Restorable(w)'
    <3>1. /\ req[h].pc = "save" /\ Duplicate(h) /\ tracked' = tracked /\ row' = row
          /\ req' = [req EXCEPT ![h] = IdleReq]
      BY <1>2, <2>5 DEF SaveFails, tables
    <3>2. ~Saves(req[h], w)
      BY <2>1, <3>1 DEF Restorable
    <3>3. \A g \in Handlers : req'[g] = req[g] \/ (g = h /\ req'[g].pc = "idle")
      BY <1>1, <3>1, IdleReqType DEF TypeOK
    <3> QED
      BY <2>1, <3>1, <3>2, <3>3, SameRestorable DEF Saves
  <2>6. CASE /\ ~Restart /\ ~RestartUnrestored
             /\ \A h \in Handlers : ~Save(h) /\ ~Accumulate(h) /\ ~SaveFails(h)
    <3>1. \A h \in Handlers : req'[h] = req[h] \/ (~Saves(req[h], w) /\ ~Saves(req'[h], w))
      BY <1>1, <2>6, OthersLeaveSaves DEF Saves
    <3> QED
      BY <1>1, <2>1, <2>6, <3>1, OthersLeaveSaves, SameRestorable
  <2> QED
    BY <2>2, <2>3, <2>4, <2>5, <2>6
<1> QED
  BY <1>1, <1>2, <1>3

\* While no save fails, what onModuleInit reads from the newest row after a crash is
\* what the Maps held before it.
THEOREM CrashRestoresBaseline ==
  ASSUME ~Overlap, MaxFaults["write"] = 0 PROVE Spec => []BaselineSurvivesRestart
<1>1. Init => BaselineInv
  <2> SUFFICES ASSUME Init PROVE BaselineInv
    OBVIOUS
  <2>1. IInv /\ faults["write"] = 0
    BY IInvInit DEF Init
  <2>2. ASSUME NEW w \in Wallets PROVE Restorable(w)
    <3>1. \A e \in Epochs : ~row[w][e].present
      BY DEF Init, NoRow
    <3>2. \A h \in Handlers : req[h].pc = "idle"
      BY IdleReqType DEF Init
    <3> QED
      BY <3>1, <3>2 DEF Restorable, Newest, Saves
  <2> QED
    BY <2>1, <2>2 DEF BaselineInv
<1>2. BaselineInv /\ [Next]_vars => BaselineInv'
  BY BaselineInvStep
<1>3. BaselineInv => BaselineSurvivesRestart
  <2> SUFFICES ASSUME BaselineInv, NEW w \in Wallets \ forgotten, NEW e \in Epochs,
                      Quiet(w), Newest(w, e)
               PROVE  Baseline(row[w][e]) = tracked[w]
    BY DEF BaselineSurvivesRestart, Newest
  <2>1. ~Pending(w)
    BY DEF Quiet, Pending, Saves, Busy
  <2> QED
    BY <2>1 DEF BaselineInv, Restorable
<1> QED
  BY <1>1, <1>2, <1>3, PTL DEF Spec

-----------------------------------------------------------------------------
(***************************************************************************)
(* The proofs of a report: each is stored once, and what is verified fits  *)
(* the row of its agent, which only grows.                                 *)
(***************************************************************************)
TokensOf(w, e) == row[w][e].acc["tokens"]

Fits(p) == p.claim.tokens <= TokensOf(p.wallet, p.epoch) /\ ~p.claim.dummy

\* A request holds the row as it is, and later no fewer tokens than the row has.
Reads(r) ==
  /\ r.pc = "count" => r.row = row[r.msg.wallet][r.epoch]
  /\ r.pc = "save" =>
       TokensOf(r.msg.wallet, r.epoch) <= r.row.acc["tokens"] /\ r.row.ts = r.msg.ts

\* The proofs that are stored of report m are those up to number n.
StoredUpTo(m, n) ==
  /\ m.ts \in booked[m.wallet]
  /\ m.wallet \notin forgotten =>
       \A i \in 1..Len(proofs) :
         proofs[i].wallet = m.wallet /\ proofs[i].ts = m.ts => proofs[i].n <= n

Numbered(r) ==
  /\ r.pc \notin ProofStages => r.n = 0
  /\ r.pc \in Saved => StoredUpTo(r.msg, r.n)
  /\ r.pc \in {"verify", "mark"} => r.id \in 1..Len(proofs)
  /\ r.pc = "mark" => Fits(proofs[r.id])

Unique ==
  \A i, j \in 1..Len(proofs) :
    /\ proofs[i].wallet = proofs[j].wallet /\ proofs[i].wallet \notin forgotten
    /\ proofs[i].ts = proofs[j].ts /\ proofs[i].n = proofs[j].n
    => i = j

ProofInv ==
  /\ \A i \in 1..Len(proofs) :
       /\ proofs[i].ts \in booked[proofs[i].wallet]
       /\ proofs[i].verified => Fits(proofs[i])
  /\ Unique
  /\ \A h \in Handlers : Reads(req[h]) /\ Numbered(req[h])

\* No save of a row takes tokens away.
LEMMA TokensGrow ==
  ASSUME TypeOK, ProofInv, [Next]_vars, NEW w \in Wallets, NEW e \in Epochs
  PROVE  TokensOf(w, e) <= TokensOf(w, e)'
<1>1. TokensOf(w, e) \in Nat
  BY TokensAssumption DEF TokensOf, TypeOK, Row, Count
<1>2. CASE row'[w][e] = row[w][e]
  BY <1>1, <1>2 DEF TokensOf
<1>3. CASE row'[w][e] # row[w][e]
  <2>1. PICK h \in Handlers :
          /\ Save(h) /\ req[h].msg.wallet = w /\ req[h].epoch = e
          /\ row'[w][e] = [req[h].row EXCEPT !.present = TRUE]
    BY <1>3, OnlySavesChangeRows
  <2>2. req[h].pc = "save" /\ req[h].row \in Row
    BY <2>1 DEF Save, TypeOK
  <2>3. TokensOf(w, e) <= req[h].row.acc["tokens"]
    BY <2>1, <2>2 DEF ProofInv, Reads
  <2>4. row'[w][e].acc = req[h].row.acc
    BY <2>1, <2>2 DEF Row
  <2> QED
    BY <2>3, <2>4 DEF TokensOf
<1> QED
  BY <1>2, <1>3

LEMMA FitsStays ==
  ASSUME TypeOK, ProofInv, [Next]_vars, NEW p \in ProofRow, Fits(p)
  PROVE  Fits(p)'
<1>1. /\ p.wallet \in Wallets /\ p.epoch \in Epochs /\ p.claim.tokens \in Nat
      /\ TypeOK'
  BY TypeStep DEF ProofRow, Proof
<1>2. TokensOf(p.wallet, p.epoch) <= TokensOf(p.wallet, p.epoch)'
  BY <1>1, TokensGrow
<1>3. /\ TokensOf(p.wallet, p.epoch) \in Nat
      /\ row'[p.wallet][p.epoch].acc["tokens"] \in Nat
  BY <1>1, TokensAssumption DEF TokensOf, TypeOK, Row, Count
<1>4. /\ p.claim.tokens <= TokensOf(p.wallet, p.epoch)
      /\ TokensOf(p.wallet, p.epoch)' = row'[p.wallet][p.epoch].acc["tokens"]
  BY DEF Fits, TokensOf
<1>5. p.claim.tokens <= TokensOf(p.wallet, p.epoch)'
  BY <1>1, <1>2, <1>3, <1>4
<1> QED
  BY <1>5 DEF Fits

\* What a step may do to a request it leaves without a word about proofs.
Passes(old, new) ==
  \/ new = old
  \/ new.pc \notin Saved /\ new.n = 0
  \/ /\ old.pc \in Saved /\ new.pc \in {"touch", "proofs"} /\ new.msg = old.msg
     /\ new.n = old.n /\ (new.pc = "touch" => new.n = 0)

\* A step that leaves the table of the proofs alone, and books no less.
LEMMA PassesProofs ==
  ASSUME TypeOK, ProofInv, [Next]_vars, proofs' = proofs,
         \A w \in Wallets : booked[w] \subseteq booked'[w],
         \A h \in Handlers : /\ Reads(req[h])'
                             /\ Passes(req[h], req'[h]) \/ Numbered(req[h])'
  PROVE  ProofInv'
<1>5. \A h \in Handlers : req[h].pc \in Saved => req[h].msg.wallet \in Wallets
  BY BusyMessage DEF Saved
<1>1. proofs \in Seq(ProofRow) /\ forgotten \subseteq forgotten'
  BY ForgottenGrows DEF TypeOK, ProofTable
<1>2. \A i \in 1..Len(proofs) :
        /\ proofs[i] \in ProofRow
        /\ Fits(proofs[i]) =>
             /\ proofs[i].claim.tokens <= row'[proofs[i].wallet][proofs[i].epoch].acc["tokens"]
             /\ ~proofs[i].claim.dummy
  <2>1. \A q \in ProofRow :
          Fits(q) => /\ q.claim.tokens <= row'[q.wallet][q.epoch].acc["tokens"]
                     /\ ~q.claim.dummy
    BY FitsStays DEF Fits, TokensOf
  <2>2. \A i \in 1..Len(proofs) : proofs[i] \in ProofRow
    BY <1>1
  <2> QED
    BY <2>1, <2>2
<1>3. \A i \in 1..Len(proofs)' :
        /\ proofs'[i].ts \in booked'[proofs'[i].wallet]
        /\ proofs'[i].verified => Fits(proofs[i])'
  <2>1. \A i \in 1..Len(proofs) : proofs[i].wallet \in Wallets
    BY <1>2 DEF ProofRow
  <2> QED
    BY <1>2, <2>1 DEF ProofInv, Fits, TokensOf
<1>4. Unique'
  BY <1>1 DEF ProofInv, Unique
<1>6. ASSUME NEW h \in Handlers PROVE Numbered(req[h])'
  <2>1. Numbered(req[h])
    BY DEF ProofInv
  <2>2. CASE req'[h] = req[h]
    <3>1. req[h].pc \in Saved =>
            /\ req[h].msg.ts \in booked'[req[h].msg.wallet]
            /\ req[h].msg.wallet \notin forgotten' =>
                 \A i \in 1..Len(proofs) :
                   /\ proofs[i].wallet = req[h].msg.wallet /\ proofs[i].ts = req[h].msg.ts
                   => proofs[i].n <= req[h].n
      BY <1>1, <1>5, <2>1 DEF Numbered, StoredUpTo
    <3>2. req'[h].pc = "mark" => Fits(proofs[req[h].id])'
      BY <1>2, <2>1, <2>2 DEF Numbered, Fits, TokensOf
    <3> QED
      BY <2>1, <2>2, <3>1, <3>2 DEF Numbered, StoredUpTo
  <2>3. CASE req'[h].pc \notin Saved /\ req'[h].n = 0
    BY <2>3 DEF Numbered, Saved
  <2>4. CASE /\ req[h].pc \in Saved /\ req'[h].pc \in {"touch", "proofs"}
             /\ req'[h].msg = req[h].msg /\ req'[h].n = req[h].n
             /\ (req'[h].pc = "touch" => req'[h].n = 0)
    <3>1. /\ req[h].msg.ts \in booked'[req[h].msg.wallet]
          /\ req[h].msg.wallet \notin forgotten' =>
               \A i \in 1..Len(proofs) :
                 /\ proofs[i].wallet = req[h].msg.wallet /\ proofs[i].ts = req[h].msg.ts
                 => proofs[i].n <= req[h].n
      BY <1>1, <1>5, <2>1, <2>4 DEF Numbered, StoredUpTo
    <3> QED
      BY <2>4, <3>1 DEF Numbered, StoredUpTo, ProofStages, Saved
  <2> QED
    BY <2>2, <2>3, <2>4 DEF Passes
<1> QED
  BY <1>3, <1>4, <1>6 DEF ProofInv

\* What the steps do to a request that holds a row, or no row yet.
LEMMA ReadsStep ==
  ASSUME TypeOK, OneAtATime, ProofInv, [Next]_vars, NEW h \in Handlers
  PROVE  Reads(req[h])'
<1> SUFFICES ASSUME req'[h].pc \in {"count", "save"} PROVE Reads(req[h])'
  BY DEF Reads
<1>1. req \in [Handlers -> Request] /\ TypeOK'
  BY TypeStep DEF TypeOK, Request
<1>2. CASE ReadRow(h)
  <2> DEFINE q == row[req[h].msg.wallet][req[h].epoch]
  <2>1. req' = [req EXCEPT ![h].pc = "count", ![h].row = q] /\ row' = row
    BY <1>2 DEF ReadRow, tables
  <2> HIDE DEF q
  <2>2. /\ req'[h].pc = "count" /\ req'[h].msg = req[h].msg
        /\ req'[h].epoch = req[h].epoch /\ req'[h].row = q
    BY <1>1, <2>1 DEF Request
  <2> QED
    BY <2>1, <2>2 DEF Reads, q
<1>3. CASE Accumulate(h)
  <2> DEFINE m == req[h].msg
             d == req[h].epoch
  <2>1. /\ req[h].pc = "count"
        /\ req'[h].pc = "save" /\ req'[h].msg = m /\ req'[h].epoch = d
        /\ req'[h].row = NewRow(req[h].row, tracked[m.wallet], m) /\ row' = row
    BY <1>3, AccumulateDoes DEF Accumulate, tables
  <2>2. req[h].row = row[m.wallet][d] /\ m \in Report /\ d \in Epochs
    BY <2>1, BusyMessage DEF ProofInv, Reads, TypeOK
  <2>3. /\ row[m.wallet][d].acc["tokens"] \in Nat /\ m.cum["tokens"] \in Nat
        /\ tracked[m.wallet].raw["tokens"] \in Nat /\ "tokens" \in Counters
    BY <2>2, TokensAssumption DEF TypeOK, Report, Row, Tracked, Count
  <2> DEFINE x == Delta(tracked[m.wallet].raw["tokens"], m.cum["tokens"])
  <2>7. NewRow(row[m.wallet][d], tracked[m.wallet], m).acc
          = [c \in Counters |-> row[m.wallet][d].acc[c]
                                 + Delta(tracked[m.wallet].raw[c], m.cum[c])]
    BY DEF NewRow
  <2>8. req'[h].row = NewRow(row[m.wallet][d], tracked[m.wallet], m)
    BY <2>1, <2>2
  <2>4. req'[h].row.acc["tokens"] = row[m.wallet][d].acc["tokens"] + x
    BY <2>3, <2>7, <2>8
  <2>5. x \in Nat
    BY <2>3, DeltaNat
  <2> HIDE DEF x
  <2>6. row[m.wallet][d].acc["tokens"] <= req'[h].row.acc["tokens"]
    BY <2>3, <2>4, <2>5
  <2>10. NewRow(row[m.wallet][d], tracked[m.wallet], m).ts = m.ts
    BY DEF NewRow
  <2>9. req'[h].row.ts = m.ts
    BY <2>8, <2>10
  <2> QED
    BY <2>1, <2>6, <2>9 DEF Reads, TokensOf
<1>4. CASE req'[h] = req[h]
  <2>1. Busy(h) /\ req[h].msg.wallet \in Wallets /\ req[h].epoch \in Epochs /\ Reads(req[h])
    BY <1>4, BusyMessage DEF Busy, TypeOK, ProofInv
  <2>2. row'[req[h].msg.wallet][req[h].epoch] = row[req[h].msg.wallet][req[h].epoch]
    <3> DEFINE w == req[h].msg.wallet
               e == req[h].epoch
    <3> SUFFICES ASSUME row'[w][e] # row[w][e] PROVE FALSE
      OBVIOUS
    <3>4. w \in Wallets /\ e \in Epochs /\ w = req[h].msg.wallet
      BY <2>1
    <3> HIDE DEF w, e
    <3>6. \A v \in Wallets : \A d \in Epochs :
            row'[v][d] # row[v][d] => \E g \in Handlers : Save(g) /\ req[g].msg.wallet = v
      <4> TAKE v \in Wallets
      <4> TAKE d \in Epochs
      <4> HAVE row'[v][d] # row[v][d]
      <4>1. PICK g \in Handlers :
              /\ Save(g) /\ req[g].msg.wallet = v /\ req[g].epoch = d
              /\ row'[v][d] = [req[g].row EXCEPT !.present = TRUE]
        BY OnlySavesChangeRows
      <4> QED
        BY <4>1
    <3>5. PICK g \in Handlers : Save(g) /\ req[g].msg.wallet = w
      BY <3>4, <3>6
    <3>1. Save(g) /\ req[g].msg.wallet = req[h].msg.wallet
      BY <3>4, <3>5
    <3>2. req[g].pc = "save" /\ req'[g].pc = "node"
      BY <3>1, SaveDoes
    <3>3. g = h
      BY <2>1, <3>1, <3>2 DEF OneAtATime, Busy
    <3> QED
      BY <1>4, <3>2, <3>3
  <2> QED
    BY <1>4, <2>1, <2>2 DEF Reads, TokensOf
<1>5. ReadRow(h) \/ Accumulate(h) \/ req'[h] = req[h]
  <2>1. CASE UNCHANGED req
    BY <2>1
  <2>2. ASSUME NEW g \in Handlers, NEW m \in sent, Admit(g, m) PROVE req'[h] = req[h]
    BY <1>1, <2>2 DEF Admit, IdleReq
  <2>3. ASSUME NEW g \in Handlers, ReadEpoch(g) PROVE req'[h] = req[h]
    BY <1>1, <2>3 DEF ReadEpoch, Request
  <2>4. ASSUME NEW g \in Handlers, ReadRow(g) \/ Accumulate(g), g # h PROVE req'[h] = req[h]
    BY <1>1, <2>4 DEF ReadRow, Accumulate
  <2>5. ASSUME NEW g \in Handlers, Save(g) PROVE req'[h] = req[h]
    BY <2>5, SaveDoes
  <2>6. ASSUME NEW g \in Handlers, SaveFails(g) \/ ReadFails(g) PROVE req'[h] = req[h]
    BY <1>1, <2>6, IdleReqType DEF SaveFails, ReadFails
  <2>7. ASSUME NEW g \in Handlers, UpdateNodeMetricReport(g) \/ TouchAssignment(g)
        PROVE  req'[h] = req[h]
    BY <1>1, <2>7, IdleReqType DEF UpdateNodeMetricReport, TouchAssignment, Request
  <2>8. ASSUME NEW g \in Handlers, SaveProofs(g) PROVE req'[h] = req[h]
    BY <2>8, IdleReqType, SaveProofsDoes DEF ProofStages
  <2>9. CASE Restart \/ RestartUnrestored
    BY <2>9, IdleReqType DEF Restart, RestartUnrestored
  <2>10. CASE \/ \E w \in Wallets : SendReport(w) \/ AgentReset(w) \/ Silence(w)
              \/ AdvanceEpoch \/ \E g \in Handlers, m \in sent : Reject(g, m)
              \/ UNCHANGED vars
    BY <2>10 DEF SendReport, AgentReset, Silence, AdvanceEpoch, Reject, vars, memory
  <2> QED
    BY <2>2, <2>3, <2>4, <2>5, <2>6, <2>7, <2>8, <2>9, <2>10 DEF Next, Handle
<1> QED
  BY <1>2, <1>3, <1>4, <1>5

\* The steps of a handler before its row is saved, those right after it, and the
\* steps of the others.
LEMMA OthersPass ==
  ASSUME TypeOK, ProofInv, [Next]_vars, NEW h \in Handlers,
         \A g \in Handlers : ~Save(g) /\ ~SaveProofs(g)
  PROVE  Passes(req[h], req'[h])
<1>1. req \in [Handlers -> Request]
  BY DEF TypeOK, Request
<1>2. req[h].pc \notin ProofStages => req[h].n = 0
  BY DEF ProofInv, Numbered
<1>3. IdleReq.pc \notin Saved /\ IdleReq.n = 0
  BY DEF IdleReq, Saved
<1>4. ASSUME NEW g \in Handlers, NEW m \in sent, Admit(g, m) PROVE Passes(req[h], req'[h])
  BY <1>1, <1>4 DEF Admit, IdleReq, Passes, Saved
<1>5. ASSUME NEW g \in Handlers, ReadEpoch(g) \/ ReadRow(g) PROVE Passes(req[h], req'[h])
  BY <1>1, <1>2, <1>5 DEF ReadEpoch, ReadRow, Request, Passes, Saved, ProofStages
<1>6. ASSUME NEW g \in Handlers, Accumulate(g) PROVE Passes(req[h], req'[h])
  <2> DEFINE q == NewRow(req[g].row, tracked[req[g].msg.wallet], req[g].msg)
  <2>1. req[g].pc = "count" /\ req' = [req EXCEPT ![g].pc = "save", ![g].row = q]
    BY <1>6 DEF Accumulate
  <2> HIDE DEF q
  <2> QED
    BY <1>1, <1>2, <2>1 DEF Request, Passes, Saved, ProofStages
<1>7. ASSUME NEW g \in Handlers, SaveFails(g) \/ ReadFails(g) PROVE Passes(req[h], req'[h])
  BY <1>1, <1>3, <1>7 DEF SaveFails, ReadFails, Passes
<1>8. ASSUME NEW g \in Handlers, UpdateNodeMetricReport(g) PROVE Passes(req[h], req'[h])
  BY <1>1, <1>2, <1>8 DEF UpdateNodeMetricReport, Request, Passes, Saved, ProofStages
<1>9. ASSUME NEW g \in Handlers, TouchAssignment(g) PROVE Passes(req[h], req'[h])
  BY <1>1, <1>2, <1>3, <1>9 DEF TouchAssignment, Request, Passes, Saved, ProofStages
<1>10. CASE Restart \/ RestartUnrestored
  BY <1>3, <1>10 DEF Restart, RestartUnrestored, Passes, tables
<1>11. CASE \/ \E w \in Wallets : SendReport(w) \/ AgentReset(w) \/ Silence(w)
            \/ AdvanceEpoch \/ \E g \in Handlers, m \in sent : Reject(g, m)
            \/ UNCHANGED vars
  <2>1. req' = req
    BY <1>11 DEF SendReport, AgentReset, Silence, AdvanceEpoch, Reject, vars, memory
  <2> QED
    BY <2>1 DEF Passes
<1> QED
  BY <1>4, <1>5, <1>6, <1>7, <1>8, <1>9, <1>10, <1>11 DEF Next, Handle

LEMMA OthersLeaveProofs ==
  ASSUME [Next]_vars, \A g \in Handlers : ~Save(g) /\ ~SaveProofs(g)
  PROVE  proofs' = proofs /\ booked' = booked
BY DEF Next, Handle, vars, tables, history, SendReport, AgentReset, Silence, AdvanceEpoch,
       Admit, Reject, ReadEpoch, ReadRow, Accumulate, SaveFails, ReadFails,
       UpdateNodeMetricReport, TouchAssignment, Restart, RestartUnrestored

\* A report whose row is being saved has no proof in the table yet.
LEMMA SaveKeepsProofs ==
  ASSUME IInv, ProofInv, [Next]_vars, NEW h \in Handlers, Save(h),
         \A g \in Handlers : Reads(req[g])'
  PROVE  ProofInv'
<1> DEFINE m == req[h].msg
<1>1. TypeOK /\ HandlersKnow
  BY DEF IInv
<1>2. /\ req[h].pc = "save" /\ req'[h].pc = "node" /\ req'[h].msg = m
      /\ \A g \in Handlers \ {h} : req'[g] = req[g]
  BY <1>1, SaveDoes
<1>3. /\ m \in Report /\ m.wallet \in Wallets /\ m.ts \in Nat
      /\ req[h].row.ts = m.ts /\ req[h].n = 0
  BY <1>1, <1>2, BusyMessage DEF ProofInv, Reads, Numbered, ProofStages, Report
<1>4. /\ proofs' = proofs /\ forgotten' = forgotten
      /\ booked' = [booked EXCEPT ![m.wallet] = @ \cup {req[h].row.ts}]
  BY DEF Save
<1>5. booked \in [Wallets -> SUBSET Nat]
  BY <1>1 DEF TypeOK
<1>6. /\ \A w \in Wallets : booked[w] \subseteq booked'[w]
      /\ m.ts \in booked'[m.wallet]
  BY <1>3, <1>4, <1>5
<1>7. m.wallet \notin forgotten => \A t \in booked[m.wallet] : t < m.ts
  BY <1>1, <1>2 DEF HandlersKnow, Knows, Busy
<1>8. req'[h].n = 0
  <2>1. req' = [req EXCEPT ![h].pc = "node"] /\ req \in [Handlers -> Request]
    BY <1>1 DEF Save, TypeOK, Request
  <2> QED
    BY <1>3, <2>1 DEF Request
<1>9. Numbered(req[h])'
  <2>1. ASSUME m.wallet \notin forgotten, NEW i \in 1..Len(proofs),
               proofs[i].wallet = m.wallet, proofs[i].ts = m.ts
        PROVE  FALSE
    <3>1. m.ts \in booked[m.wallet]
      BY <2>1 DEF ProofInv
    <3> QED
      BY <1>3, <1>7, <2>1, <3>1
  <2> HIDE DEF m
  <2> QED
    BY <1>2, <1>4, <1>6, <1>8, <2>1 DEF Numbered, StoredUpTo, ProofStages
<1> QED
  BY <1>1, <1>2, <1>4, <1>6, <1>9, PassesProofs DEF Passes

\* What a step of the loop shows of the request it is about, and of the others.
LEMMA LoopRequest ==
  ASSUME IInv, ProofInv, NEW h \in Handlers, SaveProofs(h)
  PROVE  /\ TypeOK /\ proofs \in Seq(ProofRow) /\ Len(proofs) \in Nat
         /\ req \in [Handlers -> Request] /\ req[h] \in Request
         /\ req[h].msg \in Report /\ req[h].pc \in Saved
         /\ StoredUpTo(req[h].msg, req[h].n)
         /\ booked' = booked /\ row' = row /\ forgotten' = forgotten
         /\ \A g \in Handlers \ {h} :
              /\ req'[g] = req[g] /\ Numbered(req[g])
              /\ req[g].pc \in Saved => req[g].msg.wallet # req[h].msg.wallet
<1>1. TypeOK /\ OneAtATime
  BY DEF IInv
<1>2. /\ req[h].pc \in ProofStages /\ Busy(h)
      /\ \A g \in Handlers : g # h => req'[g] = req[g]
      /\ UNCHANGED <<tracked, uptimes, row, node, fresh, world, history>>
  BY <1>1, SaveProofsDoes
<1>3. proofs \in Seq(ProofRow) /\ req \in [Handlers -> Request]
  BY <1>1 DEF TypeOK, ProofTable, Request
<1>4. Len(proofs) \in Nat
  BY <1>3
<1>5. req[h].pc \in Saved /\ StoredUpTo(req[h].msg, req[h].n)
  BY <1>2 DEF ProofInv, Numbered, ProofStages, Saved
<1>6. \A g \in Handlers \ {h} : req[g].pc \in Saved => req[g].msg.wallet # req[h].msg.wallet
  BY <1>1, <1>2 DEF OneAtATime, Busy, Saved
<1>7. req[h].msg \in Report
  BY <1>1, <1>2, BusyMessage DEF Busy
<1> QED
  BY <1>1, <1>2, <1>3, <1>4, <1>5, <1>6, <1>7 DEF ProofInv, history

\* Steps of the loop that leave the table alone.
LEMMA LoopPasses ==
  ASSUME IInv, ProofInv, [Next]_vars, NEW h \in Handlers, SaveProofs(h), proofs' = proofs,
         \/ req'[h].pc \notin Saved /\ req'[h].n = 0
         \/ Numbered(req[h])',
         \A g \in Handlers : Reads(req[g])'
  PROVE  ProofInv'
<1>1. /\ TypeOK /\ \A w \in Wallets : booked[w] \subseteq booked'[w]
      /\ \A g \in Handlers \ {h} : req'[g] = req[g]
  BY LoopRequest
<1> QED
  BY <1>1, PassesProofs DEF Passes

\* The next proof of a report is appended under the next number.
LEMMA SaveProofKeepsProofs ==
  ASSUME IInv, ProofInv, [Next]_vars, NEW h \in Handlers, SaveProof(h),
         \A g \in Handlers : Reads(req[g])'
  PROVE  ProofInv'
<1> DEFINE m == req[h].msg
           k == req[h].n + 1
           id == Len(proofs) + 1
           new == [wallet |-> m.wallet, epoch |-> req[h].epoch, claim |-> m.proofs[k],
                   verified |-> FALSE, ts |-> m.ts, n |-> k]
<1>1. SaveProofs(h)
  BY DEF SaveProofs
<1>2. /\ TypeOK /\ proofs \in Seq(ProofRow) /\ Len(proofs) \in Nat
      /\ req \in [Handlers -> Request] /\ req[h] \in Request
      /\ m \in Report /\ req[h].n \in Nat /\ k \in Nat /\ id \in Nat
      /\ StoredUpTo(m, req[h].n)
      /\ booked' = booked /\ row' = row /\ forgotten' = forgotten
      /\ \A g \in Handlers \ {h} :
           /\ req'[g] = req[g] /\ Numbered(req[g])
           /\ req[g].pc \in Saved => req[g].msg.wallet # m.wallet
  <2>1. req[h].n \in Nat
    BY <1>1, LoopRequest DEF Request
  <2>2. Len(proofs) \in Nat
    BY <1>1, LoopRequest
  <2> QED
    BY <1>1, <2>1, <2>2, LoopRequest
<1>3. \/ /\ proofs' = Append(proofs, new)
         /\ req' = [req EXCEPT ![h].pc = "verify", ![h].n = k, ![h].id = id]
      \/ proofs' = proofs /\ req' = [req EXCEPT ![h] = IdleReq]
  BY Zenon DEF SaveProof
<1>4. CASE proofs' = proofs /\ req' = [req EXCEPT ![h] = IdleReq]
  <2>1. req'[h] = IdleReq
    BY <1>2, <1>4
  <2>2. req'[h].pc \notin Saved /\ req'[h].n = 0
    BY <2>1 DEF IdleReq, Saved
  <2> QED
    BY <1>1, <1>4, <2>2, LoopPasses
<1>5. CASE /\ proofs' = Append(proofs, new)
           /\ req' = [req EXCEPT ![h].pc = "verify", ![h].n = k, ![h].id = id]
  <2>1. /\ new.wallet = m.wallet /\ new.ts = m.ts /\ new.n = k /\ new.verified = FALSE
    OBVIOUS
  <2>2. \A i \in 1..Len(proofs) : proofs[i] \in ProofRow
    BY <1>2
  <2>3. k = req[h].n + 1 /\ id = Len(proofs) + 1
    OBVIOUS
  <2> HIDE DEF new, k, id
  <2>4. /\ req'[h].pc = "verify" /\ req'[h].n = k /\ req'[h].id = id
        /\ req'[h].msg = m
    BY <1>2, <1>5 DEF Request
  <2> HIDE DEF m
  <2>5. /\ Len(proofs') = id /\ proofs'[id] = new
        /\ \A i \in 1..Len(proofs) : proofs'[i] = proofs[i]
    BY <1>2, <1>5, <2>3
  <2>6. \A i \in 1..Len(proofs)' : i \in 1..Len(proofs) \/ i = id
    BY <1>2, <2>3, <2>5
  <2>7. \A i \in 1..Len(proofs) : proofs[i].n \in Nat
    BY <2>2 DEF ProofRow
  <2>8. /\ m.ts \in booked[m.wallet]
        /\ m.wallet \notin forgotten =>
             \A i \in 1..Len(proofs) :
               proofs[i].wallet = m.wallet /\ proofs[i].ts = m.ts => proofs[i].n < k
    BY <1>2, <2>3, <2>7 DEF StoredUpTo
  <2>9. \A i \in 1..Len(proofs)' :
          /\ proofs'[i].ts \in booked'[proofs'[i].wallet]
          /\ proofs'[i].verified => Fits(proofs[i])'
    <3>1. \A i \in 1..Len(proofs) :
            /\ proofs[i].ts \in booked[proofs[i].wallet]
            /\ proofs[i].verified => Fits(proofs[i])
      BY DEF ProofInv
    <3> QED
      BY <1>2, <2>1, <2>5, <2>6, <2>8, <3>1 DEF Fits, TokensOf
  <2>10. Unique'
    <3> SUFFICES ASSUME NEW i \in 1..Len(proofs'), NEW j \in 1..Len(proofs'),
                        proofs'[i].wallet = proofs'[j].wallet,
                        proofs'[i].wallet \notin forgotten,
                        proofs'[i].ts = proofs'[j].ts, proofs'[i].n = proofs'[j].n
                 PROVE  i = j
      BY <1>2 DEF Unique
    <3>1. CASE i \in 1..Len(proofs) /\ j \in 1..Len(proofs)
      BY <2>5, <3>1 DEF ProofInv, Unique
    <3>2. CASE i = id /\ j = id
      BY <3>2
    <3>3. CASE i \in 1..Len(proofs) /\ j = id
      <4>1. proofs[i].n < k /\ proofs[i].n = k
        BY <2>1, <2>5, <2>8, <3>3
      <4> QED
        BY <1>2, <2>3, <2>7, <3>3, <4>1
    <3>4. CASE i = id /\ j \in 1..Len(proofs)
      <4>1. proofs[j].n < k /\ proofs[j].n = k
        BY <2>1, <2>5, <2>8, <3>4
      <4> QED
        BY <1>2, <2>3, <2>7, <3>4, <4>1
    <3> QED
      BY <2>6, <3>1, <3>2, <3>3, <3>4
  <2>11. Numbered(req[h])'
    <3>1. \A i \in 1..Len(proofs') :
            m.wallet \notin forgotten /\ proofs'[i].wallet = m.wallet /\ proofs'[i].ts = m.ts
              => proofs'[i].n <= k
      BY <1>2, <2>1, <2>3, <2>5, <2>6, <2>7, <2>8
    <3>2. id \in 1..Len(proofs')
      BY <1>2, <2>3, <2>5
    <3> QED
      BY <1>2, <2>4, <2>8, <3>1, <3>2 DEF Numbered, StoredUpTo, ProofStages
  <2>12. ASSUME NEW g \in Handlers \ {h} PROVE Numbered(req[g])'
    <3>1. /\ req'[g] = req[g] /\ Numbered(req[g])
          /\ req[g].pc \in Saved => req[g].msg.wallet # m.wallet
      BY <1>2
    <3>2. req[g].pc \in Saved =>
            /\ req[g].msg.ts \in booked'[req[g].msg.wallet]
            /\ req[g].msg.wallet \notin forgotten' =>
                 \A i \in 1..Len(proofs') :
                   proofs'[i].wallet = req[g].msg.wallet /\ proofs'[i].ts = req[g].msg.ts
                     => proofs'[i].n <= req[g].n
      BY <1>2, <2>1, <2>5, <2>6, <3>1 DEF Numbered, StoredUpTo
    <3>3. req[g].pc \in {"verify", "mark"} => req[g].id \in 1..Len(proofs')
      BY <1>2, <2>3, <2>5, <3>1 DEF Numbered
    <3>5. \A i \in 1..Len(proofs) :
            Fits(proofs[i]) => /\ proofs'[i].claim.tokens
                                    <= row'[proofs'[i].wallet][proofs'[i].epoch].acc["tokens"]
                               /\ ~proofs'[i].claim.dummy
      BY <1>2, <2>5 DEF Fits, TokensOf
    <3>4. req[g].pc = "mark" => Fits(proofs[req[g].id])'
      <4>1. req[g].pc = "mark" => req[g].id \in 1..Len(proofs) /\ Fits(proofs[req[g].id])
        BY <3>1 DEF Numbered
      <4> QED
        BY <3>1, <3>5, <4>1 DEF Fits, TokensOf
    <3> QED
      BY <3>1, <3>2, <3>3, <3>4 DEF Numbered, StoredUpTo
  <2> QED
    BY <2>9, <2>10, <2>11, <2>12 DEF ProofInv
<1> QED
  BY <1>3, <1>4, <1>5

LEMMA VerifyProofKeepsProofs ==
  ASSUME IInv, ProofInv, [Next]_vars, NEW h \in Handlers, VerifyProof(h),
         \A g \in Handlers : Reads(req[g])'
  PROVE  ProofInv'
<1>1. SaveProofs(h) /\ req[h].pc = "verify" /\ proofs' = proofs
  BY DEF SaveProofs, VerifyProof, tables
<1>2. /\ req[h] \in Request /\ req \in [Handlers -> Request]
      /\ StoredUpTo(req[h].msg, req[h].n)
      /\ booked' = booked /\ row' = row /\ forgotten' = forgotten
      /\ req[h].id \in 1..Len(proofs)
  BY <1>1, LoopRequest DEF ProofInv, Numbered
<1>3. \/ req' = [req EXCEPT ![h].pc = "proofs"]
      \/ req' = [req EXCEPT ![h].pc = "mark"] /\ Fits(proofs[req[h].id])
  BY DEF VerifyProof, Plausible, Fits, TokensOf
<1>4. /\ req'[h].pc \in {"proofs", "mark"} /\ req'[h].msg = req[h].msg
      /\ req'[h].n = req[h].n /\ req'[h].id = req[h].id
      /\ req'[h].pc = "mark" => Fits(proofs[req[h].id])
  BY <1>2, <1>3 DEF Request
<1>5. Numbered(req[h])'
  BY <1>1, <1>2, <1>4 DEF Numbered, StoredUpTo, ProofStages, Fits, TokensOf
<1> QED
  BY <1>1, <1>5, LoopPasses

\* Only what fits is marked, and marking changes neither its claim nor its number.
LEMMA MarkVerifiedKeepsProofs ==
  ASSUME IInv, ProofInv, [Next]_vars, NEW h \in Handlers, MarkVerified(h),
         \A g \in Handlers : Reads(req[g])'
  PROVE  ProofInv'
<1>1. SaveProofs(h) /\ req[h].pc = "mark"
  BY DEF SaveProofs, MarkVerified
<1> DEFINE id == req[h].id
<1>2. /\ TypeOK /\ proofs \in Seq(ProofRow) /\ Len(proofs) \in Nat
      /\ req[h] \in Request /\ req \in [Handlers -> Request]
      /\ StoredUpTo(req[h].msg, req[h].n)
      /\ booked' = booked /\ row' = row /\ forgotten' = forgotten
      /\ id \in 1..Len(proofs) /\ Fits(proofs[id])
      /\ \A g \in Handlers \ {h} : req'[g] = req[g] /\ Numbered(req[g])
  BY <1>1, LoopRequest DEF ProofInv, Numbered
<1>3. \/ /\ proofs' = [proofs EXCEPT ![id].verified = TRUE]
         /\ req' = [req EXCEPT ![h].pc = "proofs"]
      \/ proofs' = proofs /\ req' = [req EXCEPT ![h] = IdleReq]
  BY DEF MarkVerified
<1>4. CASE proofs' = proofs /\ req' = [req EXCEPT ![h] = IdleReq]
  <2>1. req'[h] = IdleReq
    BY <1>2, <1>4
  <2>2. req'[h].pc \notin Saved /\ req'[h].n = 0
    BY <2>1 DEF IdleReq, Saved
  <2> QED
    BY <1>1, <1>4, <2>2, LoopPasses
<1>5. CASE /\ proofs' = [proofs EXCEPT ![id].verified = TRUE]
           /\ req' = [req EXCEPT ![h].pc = "proofs"]
  <2>1. /\ Len(proofs') = Len(proofs)
        /\ \A i \in 1..Len(proofs) :
             proofs'[i] = IF i = id THEN [proofs[i] EXCEPT !.verified = TRUE] ELSE proofs[i]
    <3>1. id \in Nat
      BY <1>2 DEF Request
    <3> HIDE DEF id
    <3> QED
      BY <1>2, <1>5, <3>1, MarkedType
  <2>2. \A i \in 1..Len(proofs) : proofs[i] \in ProofRow
    BY <1>2
  <2>3. \A p \in ProofRow :
          LET q == [p EXCEPT !.verified = TRUE]
          IN  /\ q.wallet = p.wallet /\ q.epoch = p.epoch /\ q.claim = p.claim
              /\ q.ts = p.ts /\ q.n = p.n
    BY DEF ProofRow
  <2>4. /\ req'[h].pc = "proofs" /\ req'[h].n = req[h].n /\ req'[h].msg = req[h].msg
    BY <1>2, <1>5 DEF Request
  <2> HIDE DEF id
  <2>5. \A i \in 1..Len(proofs) :
          /\ proofs'[i].wallet = proofs[i].wallet /\ proofs'[i].epoch = proofs[i].epoch
          /\ proofs'[i].claim = proofs[i].claim
          /\ proofs'[i].ts = proofs[i].ts /\ proofs'[i].n = proofs[i].n
          /\ i # id => proofs'[i] = proofs[i]
    BY <2>1, <2>2, <2>3
  <2>6. \A i \in 1..Len(proofs) : Fits(proofs[i]) => Fits(proofs[i])'
    BY <1>2, <2>5 DEF Fits, TokensOf
  <2>7. \A i \in 1..Len(proofs)' :
          /\ proofs'[i].ts \in booked'[proofs'[i].wallet]
          /\ proofs'[i].verified => Fits(proofs[i])'
    <3>1. \A i \in 1..Len(proofs) :
            /\ proofs[i].ts \in booked[proofs[i].wallet]
            /\ i # id /\ proofs[i].verified => Fits(proofs[i])
      BY DEF ProofInv
    <3>2. \A i \in 1..Len(proofs) : proofs'[i].verified => Fits(proofs[i])'
      BY <1>2, <2>5, <2>6, <3>1
    <3> QED
      BY <1>2, <2>1, <2>5, <3>1, <3>2
  <2>8. Unique'
    BY <1>2, <2>1, <2>5 DEF ProofInv, Unique
  <2>9. ASSUME NEW g \in Handlers \ {h} PROVE Numbered(req[g])'
    <3>1. req'[g] = req[g] /\ Numbered(req[g])
      BY <1>2
    <3>2. req[g].pc \in Saved =>
            /\ req[g].msg.ts \in booked'[req[g].msg.wallet]
            /\ req[g].msg.wallet \notin forgotten' =>
                 \A i \in 1..Len(proofs') :
                   proofs'[i].wallet = req[g].msg.wallet /\ proofs'[i].ts = req[g].msg.ts
                     => proofs'[i].n <= req[g].n
      BY <1>2, <2>1, <2>5, <3>1 DEF Numbered, StoredUpTo
    <3>3. req[g].pc \in {"verify", "mark"} => req[g].id \in 1..Len(proofs')
      BY <2>1, <3>1 DEF Numbered
    <3>4. req[g].pc = "mark" => Fits(proofs[req[g].id])'
      BY <1>2, <2>5, <2>6, <3>1 DEF Numbered, Fits, TokensOf
    <3> QED
      BY <3>1, <3>2, <3>3, <3>4 DEF Numbered, StoredUpTo
  <2>10. Numbered(req[h])'
    <3>1. /\ req[h].msg.ts \in booked'[req[h].msg.wallet]
          /\ req[h].msg.wallet \notin forgotten' =>
               \A i \in 1..Len(proofs') :
                 proofs'[i].wallet = req[h].msg.wallet /\ proofs'[i].ts = req[h].msg.ts
                   => proofs'[i].n <= req[h].n
      BY <1>2, <2>1, <2>5 DEF StoredUpTo
    <3> QED
      BY <2>4, <3>1 DEF Numbered, StoredUpTo, ProofStages
  <2> QED
    BY <2>7, <2>8, <2>9, <2>10 DEF ProofInv
<1> QED
  BY <1>3, <1>4, <1>5

LEMMA AnswerKeepsProofs ==
  ASSUME IInv, ProofInv, [Next]_vars, NEW h \in Handlers, Answer(h),
         \A g \in Handlers : Reads(req[g])'
  PROVE  ProofInv'
<1>1. SaveProofs(h) /\ proofs' = proofs /\ req \in [Handlers -> Request]
  BY DEF SaveProofs, Answer, tables, IInv, TypeOK, Request
<1>2. req'[h] = IdleReq
  BY <1>1 DEF Answer
<1>3. req'[h].pc \notin Saved /\ req'[h].n = 0
  BY <1>2 DEF IdleReq, Saved
<1> QED
  BY <1>1, <1>3, LoopPasses

LEMMA ProofInvStep == ASSUME IInv, ProofInv, [Next]_vars PROVE ProofInv'
<1>1. TypeOK /\ OneAtATime
  BY DEF IInv
<1>2. \A h \in Handlers : Reads(req[h])'
  BY <1>1, ReadsStep
<1>3. CASE \A h \in Handlers : ~Save(h) /\ ~SaveProofs(h)
  <2>1. /\ \A h \in Handlers : Passes(req[h], req'[h])
        /\ proofs' = proofs /\ booked' = booked
    BY <1>1, <1>3, OthersPass, OthersLeaveProofs
  <2> QED
    BY <1>1, <1>2, <2>1, PassesProofs
<1>4. ASSUME NEW h \in Handlers, Save(h) PROVE ProofInv'
  BY <1>2, <1>4, SaveKeepsProofs
<1>5. ASSUME NEW h \in Handlers, SaveProofs(h) PROVE ProofInv'
  BY <1>2, <1>5, SaveProofKeepsProofs, VerifyProofKeepsProofs, MarkVerifiedKeepsProofs,
     AnswerKeepsProofs DEF SaveProofs
<1> QED
  BY <1>3, <1>4, <1>5

\* Of the proofs whose tokens the scorer adds up, the verified ones fit the metrics of
\* their agent, every one is of a saved report, and none is stored twice (the loop of
\* recordMetrics over the proofs, saveProof and verifyProofAgainstMetrics).
THEOREM ProofsAlwaysSound == ASSUME ~Overlap PROVE Spec => []ProofsSound
<1>1. Init => ProofInv
  <2> SUFFICES ASSUME Init PROVE ProofInv
    OBVIOUS
  <2>1. Len(proofs) = 0 /\ 1..Len(proofs) = {}
    BY DEF Init
  <2>2. \A h \in Handlers : req[h] = IdleReq
    BY DEF Init
  <2>3. IdleReq.pc = "idle" /\ IdleReq.n = 0
    BY DEF IdleReq
  <2> QED
    BY <2>1, <2>2, <2>3 DEF ProofInv, Unique, Reads, Numbered, Saved
<1>2. IInv /\ ProofInv /\ [Next]_vars => ProofInv'
  BY ProofInvStep
<1>3. IInv /\ ProofInv => ProofsSound
  <2> SUFFICES ASSUME IInv, ProofInv PROVE ProofsSound
    OBVIOUS
  <2>1. DOMAIN proofs = 1..Len(proofs)
    BY DEF IInv, TypeOK, ProofTable
  <2> QED
    BY <2>1 DEF ProofInv, Unique, Fits, TokensOf, ProofsSound
<1> QED
  BY <1>1, <1>2, <1>3, InductiveInvariant, PTL DEF Spec

-----------------------------------------------------------------------------
(***************************************************************************)
(* While no agent resets: reports rise, and whatever the Maps and the rows *)
(* hold comes from a report.                                               *)
(***************************************************************************)
Rises(w) ==
  /\ \A m \in Signed(w) :
       m.ts <= agent[w].clock /\ \A c \in Counters : m.cum[c] <= agent[w].cum[c]
  /\ \A m, n \in Signed(w) : m.ts <= n.ts => \A c \in Counters : m.cum[c] <= n.cum[c]

Sources(w) ==
  /\ \E a \in Signed(w) : tracked[w] = [raw |-> a.cum, ts |-> a.ts]
  /\ \A e \in Epochs : row[w][e].present =>
       \E d \in Signed(w) : row[w][e].raw = d.cum /\ row[w][e].ts = d.ts

\* What the handler of report m knows, of the row it read and the row it found.
Counts(r, m, w) ==
  /\ r.pc \in {"epoch", "row", "count"} => tracked[w].ts < m.ts
  /\ r.pc = "count" => r.row = row[w][r.epoch]
  /\ r.pc = "save" =>
       /\ r.row.raw = m.cum /\ r.row.ts = m.ts

CountsOf(w) ==
  /\ Sources(w)
  /\ \A h \in Handlers : Busy(h) /\ req[h].msg.wallet = w => Counts(req[h], req[h].msg, w)

CountInv ==
  /\ TypeOK
  /\ OneAtATime
  /\ faults["reset"] = 0
  /\ \A w \in Wallets : Rises(w) /\ CountsOf(w)

LEMMA SendReportRises ==
  ASSUME TypeOK, NEW v \in Wallets, Rises(v), SendReport(v) PROVE Rises(v)'
<1>1. PICK inc \in [Counters -> 0..MaxStep],
           p \in Attached(agent[v].clock + 1) :
        /\ agent' = [agent EXCEPT ![v] =
             [cum |-> [c \in Counters |-> agent[v].cum[c] + inc[c]],
              work |-> [c \in Counters |-> agent[v].work[c] + inc[c]],
              clock |-> agent[v].clock + 1]]
        /\ sent' = sent \cup
             {[wallet |-> v, ts |-> agent[v].clock + 1,
               cum |-> [c \in Counters |-> agent[v].cum[c] + inc[c]],
               proofs |-> p,
               work |-> [c \in Counters |-> agent[v].work[c] + inc[c]]]}
  BY Zenon DEF SendReport
<1> DEFINE new == [wallet |-> v, ts |-> agent[v].clock + 1,
                   cum |-> [c \in Counters |-> agent[v].cum[c] + inc[c]],
                   proofs |-> p,
                   work |-> [c \in Counters |-> agent[v].work[c] + inc[c]]]
<1>2. /\ new.wallet = v /\ new.ts = agent[v].clock + 1
      /\ \A c \in Counters : new.cum[c] = agent[v].cum[c] + inc[c]
      /\ sent' = sent \cup {new}
  BY <1>1
<1>3. /\ agent'[v].clock = agent[v].clock + 1
      /\ \A c \in Counters : agent'[v].cum[c] = agent[v].cum[c] + inc[c]
  BY <1>1 DEF TypeOK
<1> HIDE DEF new
<1>4. Signed(v)' = Signed(v) \cup {new}
  BY <1>2 DEF Signed, Genesis
<1>5. /\ agent[v].clock \in Nat
      /\ \A c \in Counters : agent[v].cum[c] \in Nat /\ inc[c] \in Nat
      /\ \A m \in Signed(v) : m.ts \in Nat /\ \A c \in Counters : m.cum[c] \in Nat
  BY SignedType, BoundsAssumption DEF TypeOK, Report, Count
<1>6. ASSUME NEW m \in Signed(v)
      PROVE  /\ m.ts < new.ts
             /\ \A c \in Counters : m.cum[c] <= new.cum[c]
  <2>1. /\ m.ts <= agent[v].clock
        /\ \A c \in Counters : m.cum[c] <= agent[v].cum[c]
    BY DEF Rises
  <2>2. ASSUME NEW c \in Counters PROVE m.cum[c] <= new.cum[c]
    BY <1>2, <1>5, <2>1
  <2>4. m.ts < new.ts
    BY <1>2, <1>5, <2>1
  <2> QED
    BY <2>2, <2>4
<1>7. \A c \in Counters : new.cum[c] \in Nat
  BY <1>2, <1>5
<1>8. new.ts \in Nat /\ new.ts = agent'[v].clock
  BY <1>2, <1>3, <1>5
<1>9. \A m \in Signed(v)' :
        m.ts <= agent'[v].clock /\ \A c \in Counters : m.cum[c] <= agent'[v].cum[c]
  <2>1. \A c \in Counters : new.cum[c] = agent'[v].cum[c]
    BY <1>2, <1>3
  <2> QED
    BY <1>4, <1>5, <1>6, <1>7, <1>8, <2>1
<1>10. \A m, n \in Signed(v)' : m.ts <= n.ts => \A c \in Counters : m.cum[c] <= n.cum[c]
  <2> SUFFICES ASSUME NEW m \in Signed(v)', NEW n \in Signed(v)', m.ts <= n.ts,
                      NEW c \in Counters
               PROVE  m.cum[c] <= n.cum[c]
    OBVIOUS
  <2>1. CASE n = new
    BY <1>4, <1>6, <1>7, <2>1
  <2>2. CASE n \in Signed(v) /\ m = new
    BY <1>5, <1>6, <1>8, <2>2
  <2>3. CASE n \in Signed(v) /\ m \in Signed(v)
    BY <2>3 DEF Rises
  <2> QED
    BY <1>4, <2>1, <2>2, <2>3
<1> QED
  BY <1>9, <1>10 DEF Rises

LEMMA RisesStep ==
  ASSUME CountInv, [Next]_vars, NEW w \in Wallets
  PROVE  Rises(w)' /\ Signed(w) \subseteq Signed(w)'
<1> USE DEF CountInv
<1>1. /\ ~Suffer("reset") /\ Rises(w)
      /\ agent \in [Wallets -> [cum: Count, work: Count, clock: Nat]]
  BY FaultsStayAway DEF FaultKinds, TypeOK
<1>2. \/ \E v \in Wallets : SendReport(v)
      \/ UNCHANGED <<agent, sent>>
  BY <1>1 DEF Next, Handle, vars, world, AgentReset, Silence, AdvanceEpoch, Admit, Reject,
         ReadEpoch, ReadRow, Accumulate, Save, SaveFails, ReadFails,
         UpdateNodeMetricReport, TouchAssignment, SaveProofs, SaveProof,
         VerifyProof, MarkVerified, Answer, Restart,
         RestartUnrestored
<1>3. CASE UNCHANGED <<agent, sent>>
  BY <1>1, <1>3 DEF Rises, Signed, Genesis
<1>4. ASSUME NEW v \in Wallets, SendReport(v)
      PROVE  Rises(w)' /\ Signed(w) \subseteq Signed(w)'
  <2>1. /\ \A u \in Wallets \ {v} : agent'[u] = agent[u]
        /\ sent \subseteq sent' /\ \A m \in sent' \ sent : m.wallet = v
    BY <1>1, <1>4 DEF SendReport
  <2>2. Signed(w) \subseteq Signed(w)'
    BY <2>1 DEF Signed, Genesis
  <2>3. CASE w = v
    BY <1>1, <1>4, <2>2, <2>3, SendReportRises
  <2>4. CASE w # v
    <3>1. Signed(w)' = Signed(w) /\ agent'[w] = agent[w]
      BY <2>1, <2>4 DEF Signed, Genesis
    <3> QED
      BY <1>1, <2>2, <3>1 DEF Rises
  <2> QED
    BY <2>3, <2>4
<1> QED
  BY <1>2, <1>3, <1>4

\* A step that leaves the counts of the wallet alone, and every busy request of it
\* alone or with what it has to know.
LEMMA SameCounts ==
  ASSUME TypeOK, NEW w \in Wallets, CountsOf(w), Signed(w) \subseteq Signed(w)',
         tracked'[w] = tracked[w], row'[w] = row[w],
         \A h \in Handlers :
           Busy(h)' /\ req'[h].msg.wallet = w =>
             req'[h] = req[h] \/ Counts(req[h], req[h].msg, w)'
  PROVE  CountsOf(w)'
<1>1. Sources(w)'
  BY DEF CountsOf, Sources
<1>3. ASSUME NEW h \in Handlers, Busy(h)', req'[h].msg.wallet = w
      PROVE  Counts(req[h], req[h].msg, w)'
  <2>1. CASE req'[h] = req[h]
    <3>1. Counts(req[h], req[h].msg, w)
      BY <1>3, <2>1 DEF CountsOf, Busy
    <3> QED
      BY <2>1, <3>1 DEF Counts
  <2> QED
    BY <1>3, <2>1
<1> QED
  BY <1>1, <1>3 DEF CountsOf, Busy

LEMMA AccumulateCounts ==
  ASSUME CountInv, NEW w \in Wallets, NEW h \in Handlers, Accumulate(h),
         req[h].msg.wallet = w, Signed(w) \subseteq Signed(w)'
  PROVE  CountsOf(w)'
<1> USE DEF CountInv
<1> DEFINE m == req[h].msg
           d == req[h].epoch
<1>1. /\ req[h].pc = "count" /\ Busy(h)
      /\ req'[h].pc = "save" /\ req'[h].msg = m /\ req'[h].epoch = d
      /\ req'[h].row = NewRow(req[h].row, tracked[w], m)
      /\ \A g \in Handlers \ {h} : req'[g] = req[g]
      /\ tracked'[w] = [raw |-> m.cum, ts |-> m.ts]
  BY AccumulateDoes DEF Busy
<1>2. row' = row
  BY DEF Accumulate, tables
<1>3. /\ m \in Report /\ m \in Signed(w) /\ d \in Epochs
  BY <1>1, BusyMessage DEF Signed, TypeOK
<1>4. /\ tracked[w].ts < m.ts /\ req[h].row = row[w][d]
  BY <1>1 DEF CountsOf, Counts
<1>9. req'[h].row.raw = m.cum /\ req'[h].row.ts = m.ts
  BY <1>1 DEF NewRow
<1>11. Counts(req[h], req[h].msg, w)'
  BY <1>1, <1>9 DEF Counts
<1>12. \A g \in Handlers :
         Busy(g)' /\ req'[g].msg.wallet = w => Counts(req[g], req[g].msg, w)'
  <2> SUFFICES ASSUME NEW g \in Handlers, Busy(g)', req'[g].msg.wallet = w, g # h
               PROVE  FALSE
    BY <1>11
  <2> QED
    BY <1>1 DEF OneAtATime, Busy
<1>13. Sources(w)'
  BY <1>1, <1>2, <1>3 DEF CountsOf, Sources
<1> QED
  BY <1>12, <1>13 DEF CountsOf, Busy

LEMMA SaveCounts ==
  ASSUME CountInv, NEW w \in Wallets, NEW h \in Handlers, Save(h),
         req[h].msg.wallet = w, Signed(w) \subseteq Signed(w)'
  PROVE  CountsOf(w)'
<1> USE DEF CountInv
<1> DEFINE m == req[h].msg
           d == req[h].epoch
<1>1. /\ req[h].pc = "save" /\ Busy(h)
      /\ req'[h].pc = "node" /\ req'[h].msg = m /\ req'[h].epoch = d
      /\ \A g \in Handlers \ {h} : req'[g] = req[g]
      /\ row'[w][d] = [req[h].row EXCEPT !.present = TRUE]
      /\ \A e \in Epochs \ {d} : row'[w][e] = row[w][e]
  BY SaveDoes DEF Busy
<1>2. tracked' = tracked
  BY DEF Save
<1>3. /\ m \in Report /\ m \in Signed(w) /\ d \in Epochs /\ req[h].row \in Row
  BY <1>1, BusyMessage DEF Signed, TypeOK
<1>4. req[h].row.raw = m.cum /\ req[h].row.ts = m.ts
  BY <1>1 DEF CountsOf, Counts
<1>5. /\ row'[w][d].raw = m.cum /\ row'[w][d].ts = m.ts
      /\ row'[w][d].acc = req[h].row.acc
  BY <1>1, <1>3, <1>4 DEF Row
<1>8. Counts(req[h], req[h].msg, w)'
  BY <1>1 DEF Counts
<1>9. \A g \in Handlers :
         Busy(g)' /\ req'[g].msg.wallet = w => Counts(req[g], req[g].msg, w)'
  <2> SUFFICES ASSUME NEW g \in Handlers, Busy(g)', req'[g].msg.wallet = w, g # h
               PROVE  FALSE
    BY <1>8
  <2> QED
    BY <1>1 DEF OneAtATime, Busy
<1>10. Sources(w)'
  <2>1. \E a \in Signed(w)' : tracked'[w] = [raw |-> a.cum, ts |-> a.ts]
    BY <1>2 DEF CountsOf, Sources
  <2>2. ASSUME NEW e \in Epochs, row'[w][e].present
        PROVE  \E n \in Signed(w)' : row'[w][e].raw = n.cum /\ row'[w][e].ts = n.ts
    <3>1. CASE e = d
      BY <1>3, <1>5, <3>1
    <3>2. CASE e # d
      <4>1. row'[w][e] = row[w][e]
        BY <1>1, <3>2
      <4>2. PICK n \in Signed(w) : row[w][e].raw = n.cum /\ row[w][e].ts = n.ts
        BY <2>2, <4>1 DEF CountsOf, Sources
      <4> QED
        BY <4>1, <4>2
    <3> QED
      BY <3>1, <3>2
  <2> QED
    BY <2>1, <2>2 DEF Sources
<1> QED
  BY <1>9, <1>10 DEF CountsOf, Busy

LEMMA RestartCounts ==
  ASSUME CountInv, NEW w \in Wallets, Restart \/ RestartUnrestored
  PROVE  CountsOf(w)'
<1> USE DEF CountInv
<1>1. /\ UNCHANGED <<row, sent>>
      /\ \A h \in Handlers : req'[h].pc = "idle"
      /\ tracked'[w] = Baseline(row[w][epoch]) \/ tracked'[w] = Nothing
  BY IdleReqType DEF Restart, RestartUnrestored, tables, world
<1>2. epoch \in Epochs /\ Genesis(w) \in Signed(w) /\ Signed(w)' = Signed(w)
  BY <1>1 DEF TypeOK, Signed, Genesis
<1>3. Nothing = [raw |-> Genesis(w).cum, ts |-> Genesis(w).ts]
  BY DEF Nothing, Genesis
<1>4. \E a \in Signed(w) : tracked'[w] = [raw |-> a.cum, ts |-> a.ts]
  <2>1. CASE tracked'[w] = Nothing
    BY <1>2, <1>3, <2>1
  <2>2. CASE tracked'[w] = Baseline(row[w][epoch]) /\ row[w][epoch].present
    <3>1. PICK n \in Signed(w) : row[w][epoch].raw = n.cum /\ row[w][epoch].ts = n.ts
      BY <1>2, <2>2 DEF CountsOf, Sources
    <3> QED
      BY <2>2, <3>1 DEF Baseline
  <2> QED
    BY <1>1, <2>1, <2>2 DEF Baseline
<1>5. Sources(w)'
  BY <1>1, <1>2, <1>4 DEF CountsOf, Sources
<1> QED
  BY <1>1, <1>5 DEF CountsOf, Busy

LEMMA CountsStep ==
  ASSUME CountInv, [Next]_vars, NEW w \in Wallets
  PROVE  CountsOf(w)'
<1> USE DEF CountInv
<1>1. Signed(w) \subseteq Signed(w)' /\ CountsOf(w)
  BY RisesStep
<1>2. req \in [Handlers -> Request]
  BY DEF TypeOK, Request
<1>3. ASSUME UNCHANGED <<tracked, row, req>> PROVE CountsOf(w)'
  BY <1>1, <1>3, SameCounts
<1>4. CASE \E v \in Wallets : SendReport(v) \/ AgentReset(v) \/ Silence(v)
  BY <1>3, <1>4 DEF SendReport, AgentReset, Silence, memory, tables
<1>5. CASE AdvanceEpoch
  BY <1>3, <1>5 DEF AdvanceEpoch, memory, tables
<1>6. ASSUME NEW h \in Handlers, NEW m \in sent, Admit(h, m) PROVE CountsOf(w)'
  <2>1. /\ UNCHANGED <<tracked, row>>
        /\ req'[h].pc = "epoch" /\ req'[h].msg = m
        /\ \A g \in Handlers : g # h => req'[g] = req[g]
    BY <1>2, <1>6 DEF Admit, IdleReq
  <2>2. m.wallet = w => Counts(req[h], req[h].msg, w)'
    BY <1>6, <2>1 DEF Admit, Accepts, Counts, Saved
  <2> QED
    BY <1>1, <2>1, <2>2, SameCounts
<1>7. ASSUME NEW h \in Handlers, NEW m \in sent, Reject(h, m) PROVE CountsOf(w)'
  BY <1>3, <1>7 DEF Reject, memory
<1>8. ASSUME NEW h \in Handlers, ReadEpoch(h) PROVE CountsOf(w)'
  <2>1. /\ UNCHANGED <<tracked, row>>
        /\ req[h].pc = "epoch" /\ Busy(h)
        /\ req'[h].pc = "row" /\ req'[h].msg = req[h].msg
        /\ \A g \in Handlers : g # h => req'[g] = req[g]
    BY <1>2, <1>8 DEF ReadEpoch, Request, Busy, tables
  <2>2. req[h].msg.wallet = w => Counts(req[h], req[h].msg, w)'
    BY <1>1, <2>1 DEF CountsOf, Counts, Saved
  <2> QED
    BY <1>1, <2>1, <2>2, SameCounts
<1>9. ASSUME NEW h \in Handlers, ReadRow(h) PROVE CountsOf(w)'
  <2>1. /\ UNCHANGED <<tracked, row>>
        /\ req[h].pc = "row" /\ Busy(h)
        /\ req'[h].pc = "count" /\ req'[h].msg = req[h].msg
        /\ req'[h].epoch = req[h].epoch
        /\ req'[h].row = row[req[h].msg.wallet][req[h].epoch]
        /\ \A g \in Handlers : g # h => req'[g] = req[g]
    <3> DEFINE q == row[req[h].msg.wallet][req[h].epoch]
    <3>1. /\ req' = [req EXCEPT ![h].pc = "count", ![h].row = q]
          /\ UNCHANGED <<tracked, row>> /\ req[h].pc = "row"
      BY <1>9 DEF ReadRow, tables
    <3> HIDE DEF q
    <3>2. /\ req'[h].pc = "count" /\ req'[h].msg = req[h].msg
          /\ req'[h].epoch = req[h].epoch /\ req'[h].row = q
          /\ \A g \in Handlers : g # h => req'[g] = req[g]
      BY <1>2, <3>1 DEF Request
    <3> QED
      BY <3>1, <3>2 DEF Busy, q
  <2>2. req[h].msg.wallet = w => Counts(req[h], req[h].msg, w)'
    BY <1>1, <2>1 DEF CountsOf, Counts, Saved
  <2> QED
    BY <1>1, <2>1, <2>2, SameCounts
<1>10. ASSUME NEW h \in Handlers, Accumulate(h) PROVE CountsOf(w)'
  <2>1. CASE req[h].msg.wallet = w
    BY <1>1, <1>10, <2>1, AccumulateCounts
  <2>2. CASE req[h].msg.wallet # w
    <3>1. /\ tracked'[w] = tracked[w] /\ row' = row
          /\ req'[h].msg.wallet # w
          /\ \A g \in Handlers : g # h => req'[g] = req[g]
      BY <1>10, <2>2, AccumulateDoes DEF Accumulate, tables
    <3> QED
      BY <1>1, <3>1, SameCounts
  <2> QED
    BY <2>1, <2>2
<1>11. ASSUME NEW h \in Handlers, Save(h) PROVE CountsOf(w)'
  <2>1. CASE req[h].msg.wallet = w
    BY <1>1, <1>11, <2>1, SaveCounts
  <2>2. CASE req[h].msg.wallet # w
    <3>1. /\ tracked' = tracked /\ row'[w] = row[w]
      BY <1>11, <2>2 DEF Save, TypeOK
    <3>2. /\ req'[h].msg.wallet # w
          /\ \A g \in Handlers : g # h => req'[g] = req[g]
      BY <1>11, <2>2, SaveDoes
    <3> QED
      BY <1>1, <3>1, <3>2, SameCounts
  <2> QED
    BY <2>1, <2>2
<1>12. ASSUME NEW h \in Handlers, SaveFails(h) \/ ReadFails(h) PROVE CountsOf(w)'
  <2>1. /\ UNCHANGED <<tracked, row>> /\ req'[h].pc = "idle"
        /\ \A g \in Handlers : g # h => req'[g] = req[g]
    BY <1>2, <1>12, IdleReqType DEF SaveFails, ReadFails, tables
  <2> QED
    BY <1>1, <2>1, SameCounts DEF Busy
<1>13. ASSUME NEW h \in Handlers, UpdateNodeMetricReport(h) \/ TouchAssignment(h)
       PROVE  CountsOf(w)'
  <2>1. /\ UNCHANGED <<tracked, row>> /\ Busy(h) /\ req[h].pc \in Saved
        /\ \/ req'[h].pc = "idle"
           \/ /\ req'[h].pc \in Saved /\ req'[h].msg = req[h].msg
              /\ req'[h].epoch = req[h].epoch
        /\ \A g \in Handlers : g # h => req'[g] = req[g]
    BY <1>2, <1>13, IdleReqType
    DEF UpdateNodeMetricReport, TouchAssignment, Busy, Saved, Request
  <2>2. req'[h].pc # "idle" /\ req'[h].msg.wallet = w => Counts(req[h], req[h].msg, w)'
    BY <1>1, <2>1 DEF CountsOf, Counts, Saved
  <2> QED
    BY <1>1, <2>1, <2>2, SameCounts DEF Busy
<1>14. ASSUME NEW h \in Handlers, SaveProofs(h) PROVE CountsOf(w)'
  <2>1. /\ UNCHANGED <<tracked, row>>
        /\ req'[h].pc \in {"idle"} \cup ProofStages
        /\ \A g \in Handlers : g # h => req'[g] = req[g]
    BY <1>14, SaveProofsDoes, IdleReqType
  <2>2. Counts(req[h], req[h].msg, w)'
    BY <2>1 DEF Counts, ProofStages
  <2> QED
    BY <1>1, <2>1, <2>2, SameCounts
<1>15. CASE Restart \/ RestartUnrestored
  BY <1>15, RestartCounts
<1>16. CASE UNCHANGED vars
  BY <1>3, <1>16 DEF vars, memory, tables
<1> QED
  BY <1>4, <1>5, <1>6, <1>7, <1>8, <1>9, <1>10, <1>11, <1>12, <1>13, <1>14, <1>15, <1>16
  DEF Next, Handle

LEMMA CountInvStep == ASSUME CountInv, ~Overlap, [Next]_vars PROVE CountInv'
<1> USE DEF CountInv
<1>1. TypeOK'
  BY TypeStep
<1>2. OneAtATime'
  BY StaysOneAtATime
<1>3. faults'["reset"] = 0
  BY FaultsStayAway DEF FaultKinds
<1>4. \A w \in Wallets : Rises(w)' /\ CountsOf(w)'
  BY RisesStep, CountsStep
<1> QED
  BY <1>1, <1>2, <1>3, <1>4

LEMMA CountInvInit == ASSUME Init, MaxFaults["reset"] = 0 PROVE CountInv
<1>1. TypeOK /\ faults["reset"] = 0
  BY TypeInit DEF Init
<1>2. \A h \in Handlers : ~Busy(h)
  BY IdleReqType DEF Init, Busy
<1>3. ASSUME NEW w \in Wallets PROVE Rises(w) /\ CountsOf(w)
  <2>1. Signed(w) = {Genesis(w)}
    BY DEF Init, Signed
  <2>2. Rises(w)
    BY <2>1, TokensAssumption DEF Rises, Genesis, Zero, Init
  <2>3. Sources(w)
    BY <2>1 DEF Sources, Genesis, Init, Nothing, NoRow
  <2> QED
    BY <1>2, <2>2, <2>3 DEF CountsOf
<1> QED
  BY <1>1, <1>2, <1>3 DEF CountInv, OneAtATime

-----------------------------------------------------------------------------
(***************************************************************************)
(* What is saved is covered, while no agent resets and no save fails.      *)
(***************************************************************************)
\* A save that comes will bring the credit up to the counters of its report.
WillCover(r, m, w) ==
  /\ tracked[w].raw = m.cum
  /\ \A c \in Counters :
       /\ row[w][r.epoch].acc[c] <= r.row.acc[c]
       /\ m.cum[c] <= credited[w][c] + r.row.acc[c] - row[w][r.epoch].acc[c]

UpTo(w, cum) == \A c \in Counters : cum[c] <= credited[w][c]

Covered(w) ==
  /\ UpTo(w, Zero)
  /\ \A e \in Epochs : row[w][e].present => UpTo(w, row[w][e].raw)
  /\ ~Pending(w) => UpTo(w, tracked[w].raw)
  /\ \A t \in booked[w] : \E d \in Signed(w) : d.ts = t /\ UpTo(w, d.cum)
  /\ \A h \in Handlers :
       Saves(req[h], w) => ~Duplicate(h) /\ WillCover(req[h], req[h].msg, w)

CoverInv ==
  /\ CountInv
  /\ faults["write"] = 0
  /\ \A w \in Wallets : Covered(w)

LEMMA SameCovered ==
  ASSUME NEW w \in Wallets, Covered(w), Signed(w) \subseteq Signed(w)',
         tracked'[w] = tracked[w], row'[w] = row[w],
         credited'[w] = credited[w], booked'[w] = booked[w],
         \A h \in Handlers : \/ req'[h] = req[h]
                             \/ ~Saves(req[h], w) /\ ~Saves(req'[h], w)
  PROVE  Covered(w)'
<1>1. Pending(w)' <=> Pending(w)
  BY DEF Pending
<1>2. /\ UpTo(w, Zero)'
      /\ \A e \in Epochs : row'[w][e].present => UpTo(w, row[w][e].raw)'
      /\ ~Pending(w)' => UpTo(w, tracked[w].raw)'
  BY <1>1 DEF Covered, UpTo
<1>3. \A t \in booked'[w] : \E d \in Signed(w)' :
        d.ts = t /\ \A c \in Counters : d.cum[c] <= credited'[w][c]
  BY DEF Covered, UpTo
<1>4. ASSUME NEW h \in Handlers, Saves(req'[h], w)
      PROVE  (~Duplicate(h) /\ WillCover(req[h], req[h].msg, w))'
  <2>1. req'[h] = req[h] /\ ~Duplicate(h) /\ WillCover(req[h], req[h].msg, w)
    BY <1>4 DEF Covered
  <2>2. req[h].msg.wallet = w
    BY <1>4, <2>1 DEF Saves
  <2> QED
    BY <2>1, <2>2 DEF Duplicate, WillCover
<1> QED
  BY <1>2, <1>3, <1>4 DEF Covered, UpTo

LEMMA AccumulateCovers ==
  ASSUME CoverInv, NEW w \in Wallets, NEW h \in Handlers, Accumulate(h),
         req[h].msg.wallet = w, Signed(w) \subseteq Signed(w)'
  PROVE  Covered(w)'
<1> USE DEF CoverInv, CountInv
<1> DEFINE m == req[h].msg
           d == req[h].epoch
<1>1. /\ req[h].pc = "count" /\ Busy(h)
      /\ req'[h].pc = "save" /\ req'[h].msg = m /\ req'[h].epoch = d
      /\ req'[h].row = NewRow(req[h].row, tracked[w], m)
      /\ \A g \in Handlers \ {h} : req'[g] = req[g]
      /\ tracked'[w] = [raw |-> m.cum, ts |-> m.ts]
  BY AccumulateDoes DEF Busy
<1>2. row' = row /\ credited' = credited /\ booked' = booked
  BY DEF Accumulate, tables, history
<1>3. /\ m \in Report /\ m \in Signed(w) /\ d \in Epochs
  BY <1>1, BusyMessage DEF Signed, TypeOK
<1>4. /\ tracked[w].ts < m.ts /\ req[h].row = row[w][d]
  BY <1>1 DEF CountsOf, Counts
<1>5. PICK a \in Signed(w) : tracked[w] = [raw |-> a.cum, ts |-> a.ts]
  BY DEF CountsOf, Sources
<1>6. a.ts <= m.ts
  BY <1>3, <1>4, <1>5, SignedType DEF Report
<1>7. \A c \in Counters : a.cum[c] <= m.cum[c]
  BY <1>3, <1>6 DEF Rises
<1>8. ~Pending(w)
  BY <1>1 DEF Pending, Saves, OneAtATime, Busy
<1>9. \A c \in Counters : a.cum[c] <= credited[w][c]
  BY <1>5, <1>8 DEF Covered, UpTo
<1>10. WillCover(req[h], req[h].msg, w)'
  <2>1. tracked'[w].raw = m.cum
    BY <1>1
  <2>2. ASSUME NEW c \in Counters
        PROVE  /\ row[w][d].acc[c] <= req'[h].row.acc[c]
               /\ m.cum[c] <= credited[w][c] + req'[h].row.acc[c] - row[w][d].acc[c]
    <3> DEFINE x == a.cum[c]
               y == m.cum[c]
               z == row[w][d].acc[c]
               k == credited[w][c]
    <3>1. x \in Nat /\ y \in Nat /\ z \in Nat /\ k \in Int
      BY <1>3, SignedType DEF TypeOK, Report, Row, Count
    <3>2. req'[h].row.acc[c] = z + Delta(x, y)
      BY <1>1, <1>4, <1>5 DEF NewRow
    <3>3. x <= y /\ x <= k
      BY <1>7, <1>9
    <3> HIDE DEF x, y, z, k
    <3>4. Delta(x, y) = y - x
      BY <3>1, <3>3 DEF Delta
    <3>5. z <= req'[h].row.acc[c] /\ y <= k + req'[h].row.acc[c] - z
      BY <3>1, <3>2, <3>3, <3>4
    <3> QED
      BY <3>5 DEF y, z, k
  <2> QED
    BY <1>1, <1>2, <2>1, <2>2 DEF WillCover
<1>11. ~Duplicate(h)'
  BY <1>1, <1>2, <1>4 DEF Duplicate, NewRow
<1>12. Pending(w)' /\ \A g \in Handlers \ {h} : ~Saves(req'[g], w)
  BY <1>1 DEF Pending, Saves, OneAtATime, Busy
<1>13. /\ UpTo(w, Zero)'
       /\ \A e \in Epochs : row'[w][e].present => UpTo(w, row[w][e].raw)'
       /\ \A t \in booked'[w] : \E n \in Signed(w)' :
            n.ts = t /\ \A c \in Counters : n.cum[c] <= credited'[w][c]
  BY <1>2 DEF Covered, UpTo
<1> QED
  BY <1>10, <1>11, <1>12, <1>13 DEF Covered, UpTo

LEMMA SaveCovers ==
  ASSUME CoverInv, NEW w \in Wallets, NEW h \in Handlers, Save(h),
         req[h].msg.wallet = w, Signed(w) \subseteq Signed(w)'
  PROVE  Covered(w)'
<1> USE DEF CoverInv, CountInv
<1> DEFINE m == req[h].msg
           d == req[h].epoch
<1>1. /\ req[h].pc = "save" /\ Busy(h)
      /\ req'[h].pc = "node" /\ req'[h].msg = m /\ req'[h].epoch = d
      /\ \A g \in Handlers \ {h} : req'[g] = req[g]
      /\ row'[w][d] = [req[h].row EXCEPT !.present = TRUE]
      /\ \A e \in Epochs \ {d} : row'[w][e] = row[w][e]
  BY SaveDoes DEF Busy
<1>2. /\ m \in Report /\ m \in Signed(w) /\ d \in Epochs /\ req[h].row \in Row
  BY <1>1, BusyMessage DEF Signed, TypeOK
<1>3. /\ req[h].row.raw = m.cum /\ req[h].row.ts = m.ts /\ WillCover(req[h], m, w)
  BY <1>1 DEF CountsOf, Counts, Covered, Saves
<1>4. /\ tracked' = tracked
      /\ credited'[w] = [c \in Counters |->
           credited[w][c] + req[h].row.acc[c] - row[w][d].acc[c]]
      /\ booked'[w] = booked[w] \cup {m.ts}
  BY <1>3 DEF Save, TypeOK
<1>5. ASSUME NEW c \in Counters
      PROVE  credited[w][c] <= credited'[w][c] /\ m.cum[c] <= credited'[w][c]
  <2> DEFINE x == credited[w][c]
             y == req[h].row.acc[c]
             z == row[w][d].acc[c]
  <2>1. /\ x \in Int /\ y \in Nat /\ z \in Nat /\ m.cum[c] \in Nat
        /\ z <= y /\ m.cum[c] <= x + y - z /\ credited'[w][c] = x + y - z
    BY <1>2, <1>3, <1>4 DEF TypeOK, Report, Row, Count, WillCover
  <2> HIDE DEF x, y, z
  <2>2. x <= credited'[w][c] /\ m.cum[c] <= credited'[w][c]
    BY <2>1
  <2> QED
    BY <2>2 DEF x
<1>6. ASSUME NEW cum \in Count, UpTo(w, cum)
      PROVE  \A c \in Counters : cum[c] <= credited'[w][c]
  <2> TAKE c \in Counters
  <2>1. cum[c] \in Nat /\ credited[w][c] \in Int /\ credited'[w][c] \in Int
    BY <1>2, <1>4 DEF TypeOK, Count, Row
  <2> QED
    BY <1>5, <1>6, <2>1 DEF UpTo
<1>7. \A c \in Counters : Zero[c] <= credited'[w][c]
  BY <1>6 DEF Covered, Zero, Count
<1>8. ASSUME NEW e \in Epochs, row'[w][e].present
      PROVE  \A c \in Counters : row'[w][e].raw[c] <= credited'[w][c]
  <2>1. CASE e = d
    <3>1. row'[w][d].raw = m.cum
      BY <1>1, <1>2, <1>3 DEF Row
    <3> QED
      BY <1>5, <2>1, <3>1
  <2>2. CASE e # d
    <3>1. row'[w][e] = row[w][e] /\ row[w][e].raw \in Count
      BY <1>1, <2>2 DEF TypeOK, Row
    <3>2. UpTo(w, row[w][e].raw)
      BY <1>8, <3>1 DEF Covered
    <3> QED
      BY <1>6, <3>1, <3>2
  <2> QED
    BY <2>1, <2>2
<1>9. \A c \in Counters : tracked'[w].raw[c] <= credited'[w][c]
  BY <1>3, <1>4, <1>5 DEF WillCover
<1>10. ASSUME NEW t \in booked'[w]
       PROVE  \E n \in Signed(w)' :
                n.ts = t /\ \A c \in Counters : n.cum[c] <= credited'[w][c]
  <2>1. CASE t = m.ts
    BY <1>2, <1>5, <2>1
  <2>2. CASE t \in booked[w]
    <3>1. PICK n \in Signed(w) : n.ts = t /\ UpTo(w, n.cum)
      BY <2>2 DEF Covered
    <3>2. n.cum \in Count
      BY SignedType DEF Report
    <3> QED
      BY <1>6, <3>1, <3>2
  <2> QED
    BY <1>4, <1>10, <2>1, <2>2
<1>11. \A g \in Handlers : ~Saves(req'[g], w)
  BY <1>1 DEF OneAtATime, Busy, Saves
<1> QED
  BY <1>7, <1>8, <1>9, <1>10, <1>11 DEF Covered, UpTo

LEMMA RestartCovers ==
  ASSUME CoverInv, NEW w \in Wallets, Restart \/ RestartUnrestored
  PROVE  Covered(w)'
<1> USE DEF CoverInv, CountInv
<1>1. /\ UNCHANGED <<row, credited, booked, sent>>
      /\ \A h \in Handlers : req'[h].pc = "idle"
      /\ tracked'[w] = Baseline(row[w][epoch]) \/ tracked'[w] = Nothing
  BY IdleReqType DEF Restart, RestartUnrestored, tables, world
<1>2. epoch \in Epochs /\ Signed(w)' = Signed(w)
  BY <1>1 DEF TypeOK, Signed, Genesis
<1>3. \A c \in Counters : tracked'[w].raw[c] <= credited[w][c]
  BY <1>1, <1>2 DEF Covered, UpTo, Baseline, Nothing
<1>4. /\ UpTo(w, Zero)'
      /\ \A e \in Epochs : row'[w][e].present => UpTo(w, row[w][e].raw)'
      /\ \A t \in booked'[w] : \E n \in Signed(w)' :
           n.ts = t /\ \A c \in Counters : n.cum[c] <= credited'[w][c]
  BY <1>1, <1>2 DEF Covered, UpTo
<1> QED
  BY <1>1, <1>3, <1>4 DEF Covered, UpTo, Saves

LEMMA CoverInvStep == ASSUME CoverInv, ~Overlap, [Next]_vars PROVE CoverInv'
<1> USE DEF CoverInv
<1>1. CountInv' /\ TypeOK /\ TypeOK'
  BY CountInvStep DEF CountInv
<1>2. faults'["write"] = 0 /\ ~Suffer("write")
  BY <1>1, FaultsStayAway DEF FaultKinds
<1>3. ASSUME NEW w \in Wallets PROVE Covered(w)'
  <2>1. Covered(w) /\ Signed(w) \subseteq Signed(w)'
    BY RisesStep
  <2>2. CASE Restart \/ RestartUnrestored
    BY <2>2, RestartCovers
  <2>3. ASSUME NEW h \in Handlers, Save(h) PROVE Covered(w)'
    <3>1. CASE req[h].msg.wallet = w
      BY <2>1, <2>3, <3>1, SaveCovers
    <3>2. CASE req[h].msg.wallet # w
      <4>1. tracked' = tracked /\ row'[w] = row[w]
        BY <1>1, <2>3, <3>2 DEF Save, TypeOK
      <4>2. credited'[w] = credited[w] /\ booked'[w] = booked[w]
        BY <1>1, <2>3, <3>2 DEF Save, TypeOK
      <4>3. \A g \in Handlers :
              req'[g] = req[g] \/ (~Saves(req[g], w) /\ ~Saves(req'[g], w))
        BY <1>1, <2>3, <3>2, SaveDoes DEF Saves
      <4> QED
        BY <2>1, <4>1, <4>2, <4>3, SameCovered
    <3> QED
      BY <3>1, <3>2
  <2>4. ASSUME NEW h \in Handlers, Accumulate(h) PROVE Covered(w)'
    <3>1. CASE req[h].msg.wallet = w
      BY <2>1, <2>4, <3>1, AccumulateCovers
    <3>2. CASE req[h].msg.wallet # w
      <4>1. /\ tracked'[w] = tracked[w] /\ row'[w] = row[w]
            /\ credited'[w] = credited[w] /\ booked'[w] = booked[w]
        BY <1>1, <2>4, <3>2, AccumulateDoes DEF Accumulate, tables, history
      <4>2. \A g \in Handlers :
              req'[g] = req[g] \/ (~Saves(req[g], w) /\ ~Saves(req'[g], w))
        BY <1>1, <2>4, <3>2, AccumulateDoes DEF Saves
      <4> QED
        BY <2>1, <4>1, <4>2, SameCovered
    <3> QED
      BY <3>1, <3>2
  <2>5. ASSUME NEW h \in Handlers, SaveFails(h) PROVE Covered(w)'
    <3>1. /\ req[h].pc = "save" /\ Duplicate(h) /\ tracked' = tracked /\ row' = row
          /\ UNCHANGED <<credited, booked>> /\ req' = [req EXCEPT ![h] = IdleReq]
      BY <1>2, <2>5 DEF SaveFails, tables, history
    <3>2. ~Saves(req[h], w)
      BY <2>1, <3>1 DEF Covered
    <3>3. \A g \in Handlers : req'[g] = req[g] \/ (g = h /\ req'[g].pc = "idle")
      BY <1>1, <3>1, IdleReqType DEF TypeOK
    <3> QED
      BY <2>1, <3>1, <3>2, <3>3, SameCovered DEF Saves
  <2>6. CASE /\ ~Restart /\ ~RestartUnrestored
             /\ \A h \in Handlers : ~Save(h) /\ ~Accumulate(h) /\ ~SaveFails(h)
    <3>1. \A h \in Handlers : req'[h] = req[h] \/ (~Saves(req[h], w) /\ ~Saves(req'[h], w))
      BY <1>1, <2>6, OthersLeaveSaves DEF Saves
    <3> QED
      BY <1>1, <2>1, <2>6, <3>1, OthersLeaveSaves, SameCovered
  <2> QED
    BY <2>2, <2>3, <2>4, <2>5, <2>6
<1> QED
  BY <1>1, <1>2, <1>3

\* While no agent resets and no save fails, no report that was saved has cost its agent
\* anything: the credit has caught up with its counters, whatever was lost, delayed,
\* delivered again or cut off by a crash.
THEOREM SavedIsCovered ==
  ASSUME ~Overlap, MaxFaults["write"] = 0, MaxFaults["reset"] = 0
  PROVE  Spec => []BookedIsCovered
<1>1. Init => CoverInv
  <2> SUFFICES ASSUME Init PROVE CoverInv
    OBVIOUS
  <2>1. CountInv /\ faults["write"] = 0
    BY CountInvInit DEF Init
  <2>2. \A h \in Handlers : req[h].pc = "idle"
    BY IdleReqType DEF Init
  <2>3. ASSUME NEW w \in Wallets PROVE Covered(w)
    <3>1. /\ credited[w] = Zero /\ tracked[w].raw = Zero /\ booked[w] = {}
          /\ \A e \in Epochs : ~row[w][e].present
      BY DEF Init, Nothing, NoRow
    <3>2. UpTo(w, Zero)
      BY <3>1 DEF UpTo, Zero
    <3> QED
      BY <2>2, <3>1, <3>2 DEF Covered, Saves
  <2> QED
    BY <2>1, <2>3 DEF CoverInv
<1>2. CoverInv /\ [Next]_vars => CoverInv'
  BY CoverInvStep
<1>3. CoverInv => BookedIsCovered
  <2> SUFFICES ASSUME CoverInv, NEW m \in sent, m.ts \in booked[m.wallet],
                      NEW c \in Counters
               PROVE  m.cum[c] <= credited[m.wallet][c]
    BY DEF BookedIsCovered
  <2> USE DEF CoverInv, CountInv
  <2>1. m \in Report /\ m.wallet \in Wallets /\ m \in Signed(m.wallet)
    BY DEF TypeOK, Report, Signed
  <2>2. PICK d \in Signed(m.wallet) : d.ts = m.ts /\ UpTo(m.wallet, d.cum)
    BY <2>1 DEF Covered
  <2>3. m.ts <= d.ts
    BY <2>1, <2>2 DEF Report
  <2>4. m.cum[c] <= d.cum[c] /\ d.cum[c] <= credited[m.wallet][c]
    BY <2>1, <2>2, <2>3 DEF Rises, UpTo
  <2>5. m.cum[c] \in Nat /\ d.cum[c] \in Nat /\ credited[m.wallet][c] \in Int
    BY <2>1, SignedType DEF TypeOK, Report, Count
  <2> QED
    BY <2>4, <2>5
<1> QED
  BY <1>1, <1>2, <1>3, PTL DEF Spec

(***************************************************************************)
(* The handler of the usage reports implements the ledger: every step of   *)
(* MetricsService signs a report, credits one as UsageLedger allows, loses *)
(* baselines, or leaves the ledger as it is. The inductive invariant of    *)
(* MetricsService carries what a save needs to know.                       *)
(***************************************************************************)
ClaimOf(m) == [wallet |-> m.wallet, ts |-> m.ts, work |-> m.work]

LEMMA SigningSigns ==
  ASSUME IInv, NEW w \in Wallets, SendReport(w)
  PROVE  Ledger!Sign
<1> USE DEF IInv
<1>1. PICK inc \in [Counters -> 0..MaxStep], new \in sent' :
        /\ sent' = sent \cup {new}
        /\ new.wallet = w
        /\ new.ts = agent[w].clock + 1
        /\ new.work = [c \in Counters |-> agent[w].work[c] + inc[c]]
  <2>1. PICK inc \in [Counters -> 0..MaxStep], p \in Attached(agent[w].clock + 1) :
          sent' = sent \cup
            {[wallet |-> w, ts |-> agent[w].clock + 1,
              cum |-> [c \in Counters |-> agent[w].cum[c] + inc[c]],
              proofs |-> p,
              work |-> [c \in Counters |-> agent[w].work[c] + inc[c]]]}
    BY Zenon DEF SendReport
  <2> DEFINE new == [wallet |-> w, ts |-> agent[w].clock + 1,
                     cum |-> [c \in Counters |-> agent[w].cum[c] + inc[c]],
                     proofs |-> p,
                     work |-> [c \in Counters |-> agent[w].work[c] + inc[c]]]
  <2>2. new \in sent' /\ sent' = sent \cup {new}
    BY <2>1
  <2>3. /\ new.wallet = w
        /\ new.ts = agent[w].clock + 1
        /\ new.work = [c \in Counters |-> agent[w].work[c] + inc[c]]
    OBVIOUS
  <2> HIDE DEF new
  <2> QED
    BY <2>2, <2>3
<1>2. UNCHANGED <<credited, booked, forgotten>>
  BY DEF SendReport, history
<1>3. /\ agent[w].clock \in Nat /\ agent[w].work \in Count
      /\ \A c \in Counters : inc[c] \in Nat
  BY BoundsAssumption DEF TypeOK
<1>4. ClaimOf(new) \in Ledger!Claim
  <2>1. new.work \in [Counters -> Nat]
    BY <1>1, <1>3 DEF Count
  <2> QED
    BY <1>1, <1>3, <2>1 DEF ClaimOf, Ledger!Claim
<1>5. Claims' = Claims \cup {ClaimOf(new)}
  BY <1>1 DEF Claims, ClaimOf
<1>6. ASSUME NEW s \in Claims, s.wallet = w
      PROVE  s.ts < new.ts /\ \A c \in Counters : s.work[c] <= new.work[c]
  <2>1. PICK m \in sent : s = ClaimOf(m)
    BY <1>6 DEF Claims, ClaimOf
  <2>2. m \in Signed(w) /\ m \in Report /\ s.ts = m.ts /\ s.work = m.work
    BY <1>6, <2>1 DEF Signed, ClaimOf, TypeOK
  <2>3. m.ts <= agent[w].clock /\ Apart(m, agent[w].cum, agent[w].work)
    BY <2>2 DEF ReportsBehind
  <2>4. s.ts < new.ts
    BY <1>1, <1>3, <2>2, <2>3 DEF Report
  <2>5. ASSUME NEW c \in Counters PROVE s.work[c] <= new.work[c]
    <3>1. /\ m.work[c] \in Nat /\ agent[w].work[c] \in Nat /\ inc[c] \in Nat
          /\ m.cum[c] \in Nat /\ agent[w].cum[c] \in Nat
      BY <1>3, <2>2 DEF Report, Count, TypeOK
    <3>2. Delta(m.cum[c], agent[w].cum[c]) <= agent[w].work[c] - m.work[c]
      BY <2>3 DEF Apart
    <3>3. Delta(m.cum[c], agent[w].cum[c]) \in Nat
      BY <3>1, DeltaNat
    <3>4. new.work[c] = agent[w].work[c] + inc[c]
      BY <1>1
    <3> QED
      BY <2>2, <3>1, <3>2, <3>3, <3>4
  <2> QED
    BY <2>4, <2>5
<1>7. /\ ClaimOf(new) \in Claims' /\ ClaimOf(new).wallet = w
      /\ ClaimOf(new).ts = new.ts /\ ClaimOf(new).work = new.work
  BY <1>1, <1>5 DEF ClaimOf
<1> QED
  BY <1>2, <1>4, <1>5, <1>6, <1>7 DEF Ledger!Sign

LEMMA SavingCredits ==
  ASSUME IInv, NEW h \in Handlers, Save(h)
  PROVE  \/ \E r \in Claims : Ledger!Credit(r)
         \/ Ledger!CreditUnbound(req[h].msg.wallet)
<1> USE DEF IInv
<1> DEFINE m == req[h].msg
           w == req[h].msg.wallet
           d == req[h].epoch
           r == ClaimOf(m)
<1>1. /\ req[h].pc = "save" /\ Busy(h)
      /\ booked' = [booked EXCEPT ![w] = @ \cup {req[h].row.ts}]
      /\ credited' = [credited EXCEPT ![w] =
           [c \in Counters |-> @[c] + req[h].row.acc[c] - row[w][d].acc[c]]]
      /\ UNCHANGED <<sent, forgotten>>
  BY DEF Save, Busy, world
<1>2. m \in sent /\ m \in Report /\ w \in Wallets /\ d \in Epochs /\ req[h].row \in Row
  BY <1>1, BusyMessage DEF TypeOK
<1>3. /\ Claims' = Claims /\ r \in Claims
      /\ r.wallet = w /\ r.ts = m.ts /\ r.work = m.work
  BY <1>1, <1>2 DEF Claims, ClaimOf
<1>4. credited \in [Wallets -> [Counters -> Int]] /\ booked \in [Wallets -> SUBSET Nat]
  BY DEF TypeOK
<1>5. /\ credited' = [credited EXCEPT ![w] = credited'[w]]
      /\ booked' = [booked EXCEPT ![w] = booked'[w]]
      /\ \A c \in Counters :
           credited'[w][c] = credited[w][c] + req[h].row.acc[c] - row[w][d].acc[c]
  BY <1>1, <1>2, <1>4
<1>6. CASE w \in forgotten
  BY <1>1, <1>3, <1>5, <1>6 DEF Ledger!CreditUnbound
<1>7. CASE w \notin forgotten
  <2>1. Knows(req[h], m, w)
    BY <1>1, <1>7 DEF HandlersKnow
  <2>2. /\ req[h].row.ts = m.ts /\ \A t \in booked[w] : t < m.ts
        /\ \A c \in Counters :
             /\ row[w][d].acc[c] <= req[h].row.acc[c]
             /\ credited[w][c] + req[h].row.acc[c] - row[w][d].acc[c] <= m.work[c]
    BY <1>1, <2>1 DEF Knows
  <2>3. ASSUME NEW c \in Counters
        PROVE  credited[w][c] <= credited'[w][c] /\ credited'[w][c] <= m.work[c]
    <3> DEFINE x == credited[w][c]
               y == req[h].row.acc[c]
               z == row[w][d].acc[c]
    <3>1. x \in Int /\ y \in Nat /\ z \in Nat /\ m.work[c] \in Nat
      BY <1>2, <1>4 DEF TypeOK, Report, Row, Count
    <3>2. z <= y /\ x + y - z <= m.work[c]
      BY <2>2
    <3>3. credited'[w][c] = x + y - z
      BY <1>5
    <3> HIDE DEF x, y, z
    <3>4. x <= credited'[w][c] /\ credited'[w][c] <= m.work[c]
      BY <3>1, <3>2, <3>3
    <3> QED
      BY <3>4 DEF x
  <2>4. Ledger!Credit(r)
    BY <1>1, <1>3, <1>5, <2>2, <2>3 DEF Ledger!Credit
  <2> QED
    BY <1>3, <2>4
<1> QED
  BY <1>6, <1>7

LEMMA LedgerStep ==
  ASSUME IInv, [Next]_vars PROVE [Ledger!Next]_(Ledger!vars)
<1> USE DEF IInv
<1>1. ASSUME UNCHANGED <<sent, credited, booked, forgotten>>
      PROVE  UNCHANGED Ledger!vars
  BY <1>1 DEF Ledger!vars, Claims
<1>2. ASSUME NEW w \in Wallets, SendReport(w) PROVE Ledger!Next
  BY <1>2, SigningSigns DEF Ledger!Next
<1>3. ASSUME NEW w \in Wallets, AgentReset(w) \/ Silence(w) PROVE UNCHANGED Ledger!vars
  BY <1>1, <1>3 DEF AgentReset, Silence, world, history
<1>4. CASE AdvanceEpoch
  BY <1>1, <1>4 DEF AdvanceEpoch, history
<1>5. ASSUME NEW h \in Handlers, NEW m \in sent, Admit(h, m) \/ Reject(h, m)
      PROVE  UNCHANGED Ledger!vars
  BY <1>1, <1>5 DEF Admit, Reject, world, history
<1>6. ASSUME NEW h \in Handlers, Save(h) PROVE Ledger!Next
  <2>1. req[h].msg.wallet \in Wallets
    BY <1>6, BusyMessage DEF Save
  <2> QED
    BY <1>6, <2>1, SavingCredits DEF Ledger!Next
<1>7. ASSUME NEW h \in Handlers,
             ReadEpoch(h) \/ ReadRow(h) \/ Accumulate(h) \/ SaveFails(h) \/ ReadFails(h)
               \/ UpdateNodeMetricReport(h) \/ TouchAssignment(h) \/ SaveProofs(h)
      PROVE  UNCHANGED Ledger!vars
  BY <1>1, <1>7
  DEF ReadEpoch, ReadRow, Accumulate, SaveFails, ReadFails, UpdateNodeMetricReport,
      TouchAssignment, SaveProofs, SaveProof, VerifyProof, MarkVerified, Answer, world,
      history
<1>8. CASE Restart \/ RestartUnrestored
  <2>1. forgotten \subseteq forgotten' /\ UNCHANGED <<sent, credited, booked>>
    BY <1>8 DEF Restart, RestartUnrestored, world
  <2> QED
    BY <2>1 DEF Ledger!Next, Ledger!LoseBaselines, Claims
<1>9. CASE UNCHANGED vars
  BY <1>1, <1>9 DEF vars, world, history
<1> QED
  BY <1>2, <1>3, <1>4, <1>5, <1>6, <1>7, <1>8, <1>9 DEF Next, Handle

\* When its reports are handled one at a time, whatever happens to the Maps, the
\* rows and the process, what is credited is what the ledger promises.
THEOREM HandlerImplementsLedger == ASSUME ~Overlap PROVE Spec => ImplementsLedger
<1>1. Init => Ledger!Init
  BY DEF Init, Ledger!Init, Claims, Zero
<1>2. IInv /\ [Next]_vars => [Ledger!Next]_(Ledger!vars)
  BY LedgerStep
<1> QED
  BY <1>1, <1>2, InductiveInvariant, PTL DEF Spec, ImplementsLedger, Ledger!Spec
=============================================================================

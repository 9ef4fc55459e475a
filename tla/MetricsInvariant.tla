-------------------------- MODULE MetricsInvariant --------------------------
(***************************************************************************)
(* Why the credit of a wallet never exceeds its work, when its reports are *)
(* handled one at a time: the inductive invariant of MetricsService.       *)
(*                                                                         *)
(* Every wallet has two reports that matter: a, the last one the Maps have *)
(* seen, and d, the last one a row has stored.  d is a or older; the       *)
(* credit is bounded by the work done when d was signed; and any two       *)
(* reports are at least as far apart in work as recordMetrics will credit. *)
(***************************************************************************)
EXTENDS MetricsService

\* What an agent that has not reported yet would have reported.
Genesis(w) == [wallet |-> w, ts |-> 0, cum |-> Zero, proofs |-> <<>>, work |-> Zero]
Signed(w)  == {m \in sent : m.wallet = w} \cup {Genesis(w)}

\* No more is credited between reports m and n than was done between them.
Apart(m, cum, work) ==
  \A c \in Counters : Delta(m.cum[c], cum[c]) <= work[c] - m.work[c]

ReportsBehind ==
  \A w \in Wallets : \A m \in Signed(w) :
    m.ts <= agent[w].clock /\ Apart(m, agent[w].cum, agent[w].work)

ReportsApart ==
  \A w \in Wallets : \A m, n \in Signed(w) :
    /\ m.ts = n.ts => m = n
    /\ m.ts < n.ts => Apart(m, n.cum, n.work)

OneAtATime ==
  \A g, h \in Handlers :
    Busy(g) /\ Busy(h) /\ req[g].msg.wallet = req[h].msg.wallet => g = h

RowsInOrder ==
  \A w \in Wallets \ forgotten :
    /\ \A e \in Epochs : IF row[w][e].present THEN e <= epoch
                                              ELSE row[w][e] = NoRow
    /\ ~HasRow(w) => credited[w] = Zero /\ booked[w] = {}

Newest(w, e) ==
  row[w][e].present /\ \A f \in Epochs : row[w][f].present => f <= e

Baselines(w, a, d) ==
  /\ tracked[w] = [raw |-> a.cum, ts |-> a.ts]
  /\ d.ts <= a.ts
  /\ \A c \in Counters : credited[w][c] <= d.work[c]
  /\ \A t \in booked[w] : t <= d.ts
  /\ \A e \in Epochs : Newest(w, e) => row[w][e].raw = d.cum /\ row[w][e].ts = d.ts

HasBaselines ==
  \A w \in Wallets \ forgotten : \E a, d \in Signed(w) : Baselines(w, a, d)

\* What the handler of report m knows at each stage.
Knows(r, m, w) ==
  /\ r.pc \in {"epoch", "row", "count"} => tracked[w].ts < m.ts
  /\ r.pc \in {"row", "count", "save"} =>
       \A e \in Epochs : row[w][e].present => e <= r.epoch
  /\ r.pc \in {"row", "count", "save"} => r.epoch <= epoch
  /\ r.pc = "count" => r.row = row[w][r.epoch]
  /\ r.pc = "save" =>
       /\ tracked[w] = [raw |-> m.cum, ts |-> m.ts]
       /\ r.row.raw = m.cum
       /\ r.row.ts = m.ts
       /\ row[w][r.epoch].ts < m.ts
       /\ \A t \in booked[w] : t < m.ts
       /\ \A c \in Counters :
            /\ row[w][r.epoch].acc[c] <= r.row.acc[c]
            /\ credited[w][c] + r.row.acc[c] - row[w][r.epoch].acc[c] <= m.work[c]

HandlersKnow ==
  \A h \in Handlers :
    Busy(h) /\ req[h].msg.wallet \notin forgotten =>
      Knows(req[h], req[h].msg, req[h].msg.wallet)

\* The inductive strengthening of NoOverCredit (while Overlap is FALSE): it holds
\* in every reachable state, between any two awaits of the handler.
IInv ==
  /\ TypeOK
  /\ ReportsBehind
  /\ ReportsApart
  /\ OneAtATime
  /\ RowsInOrder
  /\ HasBaselines
  /\ HandlersKnow
=============================================================================

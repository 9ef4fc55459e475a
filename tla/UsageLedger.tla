---------------------------- MODULE UsageLedger ----------------------------
(***************************************************************************)
(* What the usage accounting promises, whatever its handlers, Maps and     *)
(* tables: a report is credited at most once and in the order the agent    *)
(* signed, credit is never taken back, and it never exceeds the work done  *)
(* by the time of the report.  The promise is void for the wallets whose   *)
(* baseline the oracle has lost.                                           *)
(***************************************************************************)
EXTENDS Integers

CONSTANTS
  Wallets,    \* the agents
  Counters    \* what is accounted for: tokens, requests

VARIABLES
  signed,     \* the reports an agent has signed: [wallet, ts, work]
  credited,   \* the credit of each wallet
  booked,     \* the timestamps of the reports credited
  lost        \* wallets without a promise

vars == <<signed, credited, booked, lost>>

Claim == [wallet: Wallets, ts: Nat, work: [Counters -> Nat]]

Init ==
  /\ signed = {}
  /\ credited = [w \in Wallets |-> [c \in Counters |-> 0]]
  /\ booked = [w \in Wallets |-> {}]
  /\ lost = {}

\* Work and timestamps grow from report to report.
Sign ==
  /\ \E r \in signed' :
       /\ r \in Claim
       /\ signed' = signed \cup {r}
       /\ \A s \in signed : s.wallet = r.wallet =>
            s.ts < r.ts /\ \A c \in Counters : s.work[c] <= r.work[c]
  /\ UNCHANGED <<credited, booked, lost>>

Credit(r) ==
  LET w == r.wallet
  IN  /\ \A t \in booked[w] : t < r.ts
      /\ booked' = [booked EXCEPT ![w] = @ \cup {r.ts}]
      /\ credited' = [credited EXCEPT ![w] = credited'[w]]
      /\ \A c \in Counters :
           credited[w][c] <= credited'[w][c] /\ credited'[w][c] <= r.work[c]
      /\ UNCHANGED <<signed, lost>>

\* No promise: any amount, for any report of the wallet.
CreditUnbound(w) ==
  /\ w \in lost
  /\ booked' = [booked EXCEPT ![w] = booked'[w]]
  /\ credited' = [credited EXCEPT ![w] = credited'[w]]
  /\ UNCHANGED <<signed, lost>>

LoseBaselines == lost \subseteq lost' /\ UNCHANGED <<signed, credited, booked>>

Next ==
  \/ Sign
  \/ \E r \in signed : Credit(r)
  \/ \E w \in Wallets : CreditUnbound(w)
  \/ LoseBaselines

Spec == Init /\ [][Next]_vars
=============================================================================

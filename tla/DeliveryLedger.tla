--------------------------- MODULE DeliveryLedger ---------------------------
(***************************************************************************)
(* What the delivery side of the adapter promises about one published      *)
(* response, with no file, lock or process in sight: a publisher for a     *)
(* recovery id is started only while no earlier one can still act and none *)
(* has acted, so the response reaches the relay at most once.              *)
(***************************************************************************)
EXTENDS Integers

CONSTANT Records

\* ledger[id]: how many publishers can still act, and how often one has
VARIABLE ledger

Untouched == [running |-> 0, delivered |-> 0]

Start(id) ==
  /\ ledger[id] = Untouched
  /\ ledger' = [ledger EXCEPT ![id] = [running |-> 1, delivered |-> 0]]

\* A publisher ended without any external effect.
Vanish(id) ==
  /\ ledger[id].running > 0
  /\ ledger' = [ledger EXCEPT ![id] =
       [running |-> ledger[id].running - 1, delivered |-> ledger[id].delivered]]

Deliver(id) ==
  /\ ledger[id].running > 0
  /\ ledger' = [ledger EXCEPT ![id] =
       [running |-> ledger[id].running - 1, delivered |-> ledger[id].delivered + 1]]

LedgerInit == ledger = [id \in Records |-> Untouched]

LedgerNext == \E id \in Records : Start(id) \/ Vanish(id) \/ Deliver(id)

LedgerSpec == LedgerInit /\ [][LedgerNext]_ledger
=============================================================================

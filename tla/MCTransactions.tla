--------------------------- MODULE MCTransactions ---------------------------
(* Values of the constants of Transactions for TLC.                        *)
EXTENDS Transactions

MCMaxTu == [ict |-> 3, ist |-> 3, nict |-> 4, nist |-> 5]
=============================================================================

------------------------- MODULE MCTransactionPairs -------------------------
(* The pairs as TLC checks them: every constant is given by the .cfg.      *)
EXTENDS TransactionPairs
=============================================================================

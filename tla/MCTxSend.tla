------------------------------ MODULE MCTxSend ------------------------------
(* The instance of TxSend that TLC checks. *)
EXTENDS TxSend, TLC

Symmetric == Permutations(Endpoint)
=============================================================================

---------------------------- MODULE MCKeyringTxn ----------------------------
(* Instances of KeyringTxn for TLC. *)
EXTENDS KeyringTxn, TLC

\* Processes that run the same commands, and secret values, can be exchanged.
Symmetry == Permutations(Procs) \cup Permutations(Secrets)
=============================================================================

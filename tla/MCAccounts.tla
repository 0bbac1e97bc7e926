------------------------------ MODULE MCAccounts ------------------------------
(***************************************************************************)
(* An instance of Accounts for TLC: two spellings of one name and another  *)
(* name, as MySQL's case-insensitive default collation compares them.      *)
(***************************************************************************)
EXTENDS Accounts, TLC

TwoNames == "Ann" :> 1 @@ "ann" :> 1 @@ "bob" :> 2
=============================================================================

-------------------------------- MODULE MCTree --------------------------------
(***************************************************************************)
(* Values for the constants of TreeStore.                                  *)
(***************************************************************************)
EXTENDS TreeStore, TLC

CONSTANTS v, w, B   \* the values

OneValue  == v :> 1
TwoValues == v :> 1 @@ w :> 1
TwoSizes  == v :> 1 @@ B :> 3   \* B makes an entry three times as long

Ascending(n) == [k \in 1..n |-> [op |-> "insert", key |-> k, val |-> v]]
NoKeys    == <<>>
FiveKeys  == Ascending(5)   \* three levels, if a leaf takes one entry
SevenKeys == Ascending(7)   \* three levels, if a leaf takes two
===============================================================================

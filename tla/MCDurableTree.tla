---------------------------- MODULE MCDurableTree ----------------------------
(***************************************************************************)
(* Values for the constants of DurableTree.                                *)
(***************************************************************************)
EXTENDS DurableTree, TLC

CONSTANT v   \* the value

OneValue == v :> 1

Inserts(keys) ==
    [i \in DOMAIN keys |-> [op |-> "insert", key |-> keys[i], val |-> v]]

Updates(k) == << [op |-> "update", key |-> k, val |-> v] >>

\* Trees of three levels, if a leaf takes two entries and an internal page two
\* separators: the right internal page has a child to lend, then the left one.
Trees == {Inserts(<<1, 2, 3, 4, 5, 6>>), Inserts(<<1, 4, 5, 6, 7, 2, 3>>) \o Updates(7)}
NoTrees == {<<>>}
==============================================================================

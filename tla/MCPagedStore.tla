----------------------------- MODULE MCPagedStore -----------------------------
(***************************************************************************)
(* Values for the constants of PagedStore: one value fits the leaf, the    *)
(* others need one and two overflow pages.                                 *)
(***************************************************************************)
EXTENDS PagedStore, TLC

ThreeLengths == "s" :> 0 @@ "m" :> 1 @@ "l" :> 2
==============================================================================

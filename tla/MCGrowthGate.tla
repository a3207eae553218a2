------------------------------ MODULE MCGrowthGate ------------------------------
(***************************************************************************)
(* GrowthGate on three worlds and one lens.                                *)
(***************************************************************************)
EXTENDS GrowthGate

CONSTANTS root, n1, n2, a   \* worlds and a lens

Three     == {root, n1, n2}
OneLens   == {a}
SomeLimit == {1}

\* Two crashes, or one fault of any other kind.
CrashTwice == [k \in FaultKinds |-> IF k = "crash" THEN 1 ELSE 2]
================================================================================

---------------------------- MODULE DemStreamMC ----------------------------
(* A window of eight cells, and files that cover every way a block can lie in it. *)
EXTENDS DemStream

CONSTANT MaxBlocks    \* bound: blocks in a file

Shapes == {[in |-> 2, coded |-> 1, good |-> TRUE],
           [in |-> 2, coded |-> 4, good |-> TRUE],
           [in |-> 3, coded |-> 7, good |-> TRUE],    \* too long once it is coded
           [in |-> 5, coded |-> 1, good |-> FALSE]}

MCInputs ==
  {f \in [cd: 0 .. MaxCd, blocks: UNION {[1 .. n -> Shapes] : n \in 0 .. MaxBlocks}] :
     f.cd # 0 => f.blocks # << >>}
=============================================================================

---------------------------- MODULE DzArchiveMC ----------------------------
(* Small instances of DzArchive: blobs that compress, do not, and are empty.  *)
EXTENDS DzArchive

CONSTANTS small, noise, empty, pk, pk1, fld

MCBlob == {small, noise, empty}
MCReal == [b \in MCBlob |-> CASE b = small -> 4 [] b = noise -> 1 [] b = empty -> 0]
MCComp == [b \in MCBlob |-> CASE b = small -> 3 [] b = noise -> 2 [] b = empty -> 1]
MCPaks == [p \in {pk, pk1} |-> IF p = pk THEN <<small, noise>> ELSE <<small>>]

\* for the run with every fault, whose leftovers in the file multiply the states
FewBlob == {small, noise}
FewReal == [b \in FewBlob |-> IF b = small THEN 2 ELSE 1]
FewComp == [b \in FewBlob |-> 2]
FewPaks == [p \in {pk} |-> <<small>>]

\* Whatever is done with a damaged archive is damaged: no property says anything of it, and
\* TLC need not go on from there
Undamaged == ~damaged
=============================================================================

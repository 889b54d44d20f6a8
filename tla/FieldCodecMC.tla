---------------------------- MODULE FieldCodecMC ----------------------------
(* Values on both sides of every boundary in the code. *)
EXTENDS FieldCodec

MCLos == {0, 1, 2, 22, 127, 128, 129, 254, 255}
MCHis == {0, 1, 2, 127}
MCShorts == {-32768, -32767, -1, 0, 1, 100, 32767}
MCCoordinates == {-32768, -200, -129, -128, -1, 0, 1, 127, 128, 255, 32767}

MCNegativeHis == {0, 255}    \* a field of two bytes below 0
=============================================================================

---------------------------- MODULE EntityCodecMC ----------------------------
(* One entity on each side of MAX_ENT_OLD. *)
EXTENDS EntityCodec

MCXs == {0, 100}
MCLeftovers == {[Zero EXCEPT !.x = 100, !.active = TRUE, !.force = TRUE]}
=============================================================================

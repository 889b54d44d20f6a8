---------------------------- MODULE GuiExtractMC ----------------------------
(* Two files of five cells and one, buffers of two, pieces of up to five. *)
EXTENDS GuiExtract

MCSizes == <<5, 1>>
=============================================================================

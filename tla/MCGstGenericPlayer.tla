------------------------- MODULE MCGstGenericPlayer -------------------------
(* Model-checking instance of GstGenericPlayer: an audio and a video      *)
(* source, as model values.                                               *)
EXTENDS GstGenericPlayer

CONSTANTS AUDIO, VIDEO

MCSources == {AUDIO, VIDEO}
=============================================================================

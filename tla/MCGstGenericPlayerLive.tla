----------------------- MODULE MCGstGenericPlayerLive -----------------------
(* Liveness instance of GstGenericPlayer: one audio source, as a model    *)
(* value.  Recovery of one source does not depend on the other, except   *)
(* for the resume gate, which the safety run checks with both.           *)
EXTENDS GstGenericPlayer

CONSTANTS AUDIO

MCSources == {AUDIO}
=============================================================================

------------------------- MODULE MCCapsNegotiation -------------------------
(* Audio caps with rate and channels, video caps with width and height;   *)
(* parameters drawn from a negative, a zero and a positive int32.         *)
EXTENDS CapsNegotiation, TLC

CONSTANTS AUDIO, VIDEO

MCSources == {AUDIO, VIDEO}
MCFields == (AUDIO :> {"rate", "channels"}) @@ (VIDEO :> {"width", "height"})
MCValues == {-1, 0, 13}
=============================================================================

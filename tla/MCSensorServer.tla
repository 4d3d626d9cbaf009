--------------------------- MODULE MCSensorServer ---------------------------
(* Two bytes per answer, a buffer of three, and the code's delays, which    *)
(* last 21 and 15 bytes for an answer of ten, scaled to 5 and 2.            *)
EXTENDS SensorServer
=============================================================================

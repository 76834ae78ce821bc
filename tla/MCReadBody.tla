---------------------------- MODULE MCReadBody ----------------------------
(* Two bytes, chunks of up to two bytes (the empty chunk included), limits   *)
(* that fall inside, between and on the edges of the chunks, and no limit.   *)
EXTENDS ReadBody

MCByte == {0, 1}
MCChunks == {<<>>} \cup {<<x>> : x \in MCByte} \cup {<<x, y>> : x, y \in MCByte}
MCLimits == {0, 1, 2, 3, 4, NoLimit}
MCMaxBytes == 5
=============================================================================

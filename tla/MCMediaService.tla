--------------------------- MODULE MCMediaService ---------------------------
(* MediaService on small instances.                                        *)
EXTENDS MediaService

CONSTANTS refresh, play, volume
MCKindOf == [c \in Calls |-> CASE c = refresh -> "refresh"
                               [] c = play -> "play"
                               [] c = volume -> "volume"]
=============================================================================

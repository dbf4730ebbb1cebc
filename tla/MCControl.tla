----------------------------- MODULE MCControl -----------------------------
(***************************************************************************)
(* Instances of Control: a video of two slots in three versions, of which  *)
(* the last one is badly encoded, beside a stream that has no versions.    *)
(***************************************************************************)
EXTENDS Control

MCbitrates_bps == <<1, 2, 3>>

Encoded(rate, files) == [bitrate_bps |-> rate, files |-> files]

\* With a start_offset of 1, a file of one frame is too short.
MCversions ==
  <<Encoded(1, <<2, 3>>), Encoded(2, <<2, 2>>), Encoded(4, <<1, Missing>>)>>

MCkind == [s \in {"video", "cloud"} |-> IF s = "video" THEN "json" ELSE "npy"]
=============================================================================

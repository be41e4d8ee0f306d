------------------------- MODULE MC_FormatSelection -------------------------
(* Formats that differ in what the selection compares: codec against height *)
(* against frame rate, tall against capped, audio, muxed, a VP9 string that  *)
(* no pattern finds (vp09.00.51.08), and a video without a width, which none *)
(* of the filters takes.                                                     *)
EXTENDS FormatSelection

V(codecs, height, fps, bitrate) ==
    [mime |-> "video", hasWidth |-> TRUE, hasSampleRate |-> FALSE,
     codecs |-> codecs, height |-> height, fps |-> fps, bitrate |-> bitrate]
A(codecs, bitrate) ==
    [mime |-> "audio", hasWidth |-> FALSE, hasSampleRate |-> TRUE,
     codecs |-> codecs, height |-> 0, fps |-> 0, bitrate |-> bitrate]
M(height) == [V({"avc1", "mp4a"}, height, 30, 1) EXCEPT !.hasSampleRate = TRUE]

MCFormats ==
    {V({"^av01"}, 1080, 30, 1), V({"vp9"}, 1080, 30, 2), V({"vp9", "vp9.2"}, 1080, 30, 1),
     V({}, 1080, 30, 3), V({"avc1"}, 1080, 30, 1), V({"avc1"}, 720, 60, 2), V({"vp9"}, 720, 60, 1),
     [V({"vp9"}, 1080, 30, 9) EXCEPT !.hasWidth = FALSE],
     A({"opus"}, 1), A({"mp4a"}, 2), A({"mp4a"}, 3), M(360), M(720)}
MCOptions ==
    [maxVideoHeight : {NoCap, 480, 720}, preferH264 : BOOLEAN,
     preferOpusAudio : BOOLEAN, includeMuxedFallback : BOOLEAN]
=============================================================================

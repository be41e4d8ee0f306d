---------------------------- MODULE MC_Extraction ----------------------------
(* A chain of three clients, one of which sends the timestamp; two players, *)
(* one without a timestamp that is found; answers with no format, one that  *)
(* has no URL, two, or three of which the middle one cannot be resolved.    *)
EXTENDS Extraction

CONSTANTS android, web_embedded, ios, p1, p2

MCChain == <<android, web_embedded, ios>>

audio(k) == [kind |-> k, media |-> "audio"]
video(k) == [kind |-> k, media |-> "video"]
muxed(k) == [kind |-> k, media |-> "muxed"]

MCFormatLists ==
    {<< >>, <<audio("neither")>>, <<video("url"), audio("cipher")>>,
     <<video("cipher"), audio("neither"), muxed("url")>>}
=============================================================================

--------------------------- MODULE FormatSelection ---------------------------
(***************************************************************************)
(* FormatSelector.select: from the formats whose URLs were resolved, in    *)
(* the order of the answer, the video, the audio and the muxed stream of a *)
(* result, under the options of the call.                                  *)
(*                                                                         *)
(* A missing height or frame rate counts as 0, as in the code. Of the      *)
(* codecs string of a mime type a format has the patterns that             *)
(* MimeTypeParser looks for and finds in it; "^av01" and "^av1" are at its *)
(* beginning.                                                              *)
(***************************************************************************)
EXTENDS Integers, Sequences, SequencesExt, Lists

CONSTANTS
    Formats,                \* RawFormats
    Options,                \* ExtractionOptions
    MaxFormats              \* bound: formats of an answer

VARIABLES
    formats,                \* the list of formats, given
    options,                \* the options, given
    av1UnsafeOnThisDevice,  \* 32-bit x86 without an ARM ABI, given
    selection               \* what select returns or throws

selectorVars == <<formats, options, av1UnsafeOnThisDevice, selection>>

-----------------------------------------------------------------------------

VideoCodec == [AV1 |-> 50, VP9_HDR |-> 45, VP9 |-> 40, H265 |-> 35, H264 |-> 30,
               VP8 |-> 10, UNKNOWN |-> 0]
AudioCodec == [OPUS |-> 50, VORBIS |-> 40, AAC |-> 30, AC3 |-> 20, MP3 |-> 10,
               UNKNOWN |-> 0]

(***************************************************************************)
(* MimeTypeParser: the first branch of its "when" that applies.            *)
(***************************************************************************)
Names(f, patterns) == f.codecs \cap patterns # {}

\* A bug that detectVideoCodec could have: VP9 is asked for before its HDR profile.
detectVideoCodecVp9First(f) ==
    IF Names(f, {"^av01", "^av1"}) THEN "AV1"
    ELSE IF Names(f, {"vp9"}) THEN "VP9"
    ELSE IF Names(f, {"hvc1", "hev1"}) THEN "H265"
    ELSE IF Names(f, {"avc1", "avc3"}) THEN "H264"
    ELSE IF Names(f, {"vp8"}) THEN "VP8" ELSE "UNKNOWN"

detectVideoCodec(f) ==
    IF Names(f, {"^av01", "^av1"}) THEN "AV1"
    ELSE IF Names(f, {"vp9"}) /\ Names(f, {"hdr", "vp9.2"}) THEN "VP9_HDR"
    ELSE IF Names(f, {"vp9"}) THEN "VP9"
    ELSE IF Names(f, {"hvc1", "hev1"}) THEN "H265"
    ELSE IF Names(f, {"avc1", "avc3"}) THEN "H264"
    ELSE IF Names(f, {"vp8"}) THEN "VP8" ELSE "UNKNOWN"

detectAudioCodec(f) ==
    IF Names(f, {"opus"}) THEN "OPUS" ELSE IF Names(f, {"vorbis"}) THEN "VORBIS"
    ELSE IF Names(f, {"mp4a", "aac"}) THEN "AAC" ELSE IF Names(f, {"ac-3", "ac3"}) THEN "AC3"
    ELSE IF Names(f, {"mp3"}) THEN "MP3" ELSE "UNKNOWN"

NoCap == 0      \* maxVideoHeight = null; a cap of 0 itself is not modelled
None == [mime |-> "none"]

Patterns == {"^av01", "^av1", "vp9", "hdr", "vp9.2", "hvc1", "hev1", "avc1", "avc3", "vp8",
             "opus", "vorbis", "mp4a", "aac", "ac-3", "ac3", "mp3"}
RawFormats ==
    [mime : {"audio", "video", "other"}, hasWidth : BOOLEAN, hasSampleRate : BOOLEAN,
     codecs : SUBSET Patterns, height : Int, fps : Int, bitrate : Int]
ExtractionOptions ==
    [maxVideoHeight : Int, preferH264 : BOOLEAN,
     preferOpusAudio : BOOLEAN, includeMuxedFallback : BOOLEAN]

ASSUME SelectionAssumption ==
    Formats \subseteq RawFormats /\ Options \subseteq ExtractionOptions

Unselected == [kind |-> "pending"]
NoStreamsFound == [kind |-> "NoStreamsFound"]

Audio == {f \in Formats : f.mime = "audio"}
VideoOnly == {f \in Formats : f.mime = "video" /\ f.hasWidth /\ ~f.hasSampleRate}
Muxed == {f \in Formats : f.mime = "video" /\ f.hasSampleRate}

-----------------------------------------------------------------------------

\* The candidates, narrowed to those that pass if there are any.
Prefer(candidates, passing) ==
    LET only == Filter(candidates, passing)
    IN  IF only # << >> THEN only ELSE candidates

(* The preference for H.264, or else the avoidance of AV1.                 *)
Narrowed(candidates, opts) ==
    IF opts.preferH264
    THEN Prefer(candidates, {f \in Formats : detectVideoCodec(f) = "H264"})
    ELSE IF av1UnsafeOnThisDevice
    THEN Prefer(candidates, {f \in Formats : detectVideoCodec(f) # "AV1"})
    ELSE candidates

VideoKeys ==
    [f \in Formats |-> <<f.height, f.fps, VideoCodec[detectVideoCodec(f)], f.bitrate>>]

FitsCap(opts) == {f \in Formats : opts.maxVideoHeight = NoCap \/ f.height <= opts.maxVideoHeight}

selectBestVideo(list, opts) ==
    MaxBy(Narrowed(Filter(list, FitsCap(opts)), opts), VideoKeys, None)

AudioKeys(opts) ==
    [f \in Formats |->
        LET codec == detectAudioCodec(f)
        IN  <<IF ~opts.preferOpusAudio /\ codec = "AAC" THEN 100 ELSE AudioCodec[codec], f.bitrate>>]

selectBestAudio(list, opts) == MaxBy(list, AudioKeys(opts), None)

bestMuxed(list) == MaxBy(list, [f \in Formats |-> <<f.height>>], None)

\* A bug that select could have: no streams are found without an audio-only one.
selectAudioOnly(list, opts) ==
    LET audio == selectBestAudio(Filter(list, Audio), opts)
        muxed == bestMuxed(Filter(list, Muxed))
        video == selectBestVideo(Filter(list, VideoOnly), opts)
    IN  IF audio # None
        THEN [kind |-> "selection", video |-> video, audio |-> audio,
              muxed |-> IF opts.includeMuxedFallback THEN muxed ELSE None]
        ELSE NoStreamsFound

select(list, opts) ==
    LET audio == selectBestAudio(Filter(list, Audio), opts)
        muxed == bestMuxed(Filter(list, Muxed))
        video == selectBestVideo(Filter(list, VideoOnly), opts)
    IN  IF audio # None
        THEN [kind |-> "selection", video |-> video, audio |-> audio,
              muxed |-> IF opts.includeMuxedFallback THEN muxed ELSE None]
        ELSE IF muxed # None
        THEN [kind |-> "selection", video |-> None, audio |-> muxed, muxed |-> muxed]
        ELSE NoStreamsFound

-----------------------------------------------------------------------------

SelectorInit ==
    /\ formats \in BoundedSeq(Formats, MaxFormats)
    /\ options \in Options
    /\ av1UnsafeOnThisDevice \in BOOLEAN
    /\ selection = Unselected

Select ==
    /\ selection = Unselected
    /\ selection' = select(formats, options)
    /\ UNCHANGED <<formats, options, av1UnsafeOnThisDevice>>

Done == selection # Unselected /\ UNCHANGED selectorVars

SelectorNext == Select \/ Done

SelectorSpec == SelectorInit /\ [][SelectorNext]_selectorVars

-----------------------------------------------------------------------------

Streams(kind) == {formats[i] : i \in DOMAIN formats} \cap kind

Selected == selection.kind = "selection"

\* What each pattern says of the quality, in no order; "hdr" and "vp9.2" say it of VP9.
Grade == [p \in {"^av01", "^av1", "vp9", "hdr", "vp9.2", "hvc1", "hev1", "avc1", "avc3", "vp8"} |->
            VideoCodec[CASE p \in {"^av01", "^av1"} -> "AV1" [] p = "vp9" -> "VP9"
                         [] p \in {"hdr", "vp9.2"} -> "VP9_HDR" [] p \in {"hvc1", "hev1"} -> "H265"
                         [] p \in {"avc1", "avc3"} -> "H264" [] p = "vp8" -> "VP8"]]
Telling(f) == {p \in f.codecs \cap DOMAIN Grade : p \in {"hdr", "vp9.2"} => "vp9" \in f.codecs}
InCodecOf(f, p) == p \in Telling(f) /\ \A q \in Telling(f) : Grade[q] <= Grade[p]
IsH264(f) == InCodecOf(f, "avc1") \/ InCodecOf(f, "avc3")
IsAV1(f) == InCodecOf(f, "^av01") \/ InCodecOf(f, "^av1")

WithinCap ==
    {f \in Streams(VideoOnly) :
        options.maxVideoHeight # NoCap => f.height <= options.maxVideoHeight}

\* Where the code shuns AV1. FormatSelector.kt:17-19 and 76 speak of the device alone,
\* but line 75 is the else of preferH264: a call that prefers H.264 and finds none may
\* get AV1 on an unsafe device, beside other codecs. That is what the code does, and
\* what is said below of the allowed formats is no more.
ShunsAV1 == av1UnsafeOnThisDevice /\ ~options.preferH264

\* What the call allows: the height cap; H.264 if it is preferred and there is any; AV1,
\* where it is shunned, only if there is nothing else.
Allowed ==
    {f \in WithinCap :
        /\ options.preferH264 => IsH264(f) \/ \A g \in WithinCap : ~IsH264(g)
        /\ ShunsAV1 => ~IsAV1(f) \/ \A g \in WithinCap : IsAV1(g)}

Better(f, g) ==
    \/ f.height > g.height
    \/ f.height = g.height /\ f.fps > g.fps
    \/ /\ f.height = g.height /\ f.fps = g.fps
       /\ \E p \in Telling(f) : \A q \in Telling(g) : Grade[p] > Grade[q]

(***************************************************************************)
(* The video that is selected obeys the cap and the preference of the call *)
(* ("force H.264 over AV1/VP9", README.md:135), and no allowed format is   *)
(* taller, or as tall and smoother, or the like of it in a better codec by *)
(* the ranks of Codec.kt; there is none only if none is allowed or there   *)
(* is no sound to go with it. AV1 on a device that cannot play it is kept  *)
(* out only as far as ShunsAV1 goes, which is less than                    *)
(* FormatSelector.kt:76 promises.                                          *)
(***************************************************************************)
VideoIsBest ==
    Selected =>
        IF selection.video = None
        THEN Allowed = {} \/ Streams(Audio) = {}
        ELSE /\ selection.video \in Allowed
             /\ \A g \in Allowed : ~Better(g, selection.video)

(***************************************************************************)
(* A format whose URL cannot be resolved is left out of the list. If it is *)
(* none of those selected, its failure changes nothing; and a call fails   *)
(* for want of streams only if nothing in the answer had sound.            *)
(***************************************************************************)
FailuresOfOthersAreHarmless ==
    /\ Selected =>
        \A i \in DOMAIN formats :
            formats[i] \notin {selection.video, selection.audio, selection.muxed} =>
                select(RemoveAt(formats, i), options) = selection
    /\ selection = NoStreamsFound => Streams(Audio) \cup Streams(Muxed) = {}
=============================================================================

------------------------------- MODULE Streaming -------------------------------
(***************************************************************************)
(* Serving one track: the decision between the file and a transcode, range *)
(* requests, ffmpeg pipes under the transcode semaphore, and the HLS cache *)
(* (michi-streaming/src/lib.rs, michi-api/src/stream.rs,                   *)
(* routes/v1/stream.rs, michi-opensubsonic/src/routes.rs).                 *)
(*                                                                         *)
(* A file is its length in bytes and a version; a response sends a byte at *)
(* a time.  Bit rates count in kbit/s and sample rates in kHz, and 0 is a  *)
(* missing value.  A request that is refused before it takes anything      *)
(* leaves no trace, so its refusal is no action.  ffmpeg is external: it   *)
(* may be missing, fail, and outlive the request that spawned it.          *)
(***************************************************************************)
EXTENDS Naturals, FiniteSets

CONSTANTS
  Listeners,       \* clients
  Setups,          \* configurations the server may have been started with
  MaxVersions,     \* bound on the versions of the file
  MaxStreams       \* bound on requests

ASSUME StreamingAssumption ==
  IsFiniteSet(Listeners) /\ MaxVersions \in Nat \ {0} /\ MaxStreams \in Nat

---------------------------------------------------------------------------
\* Formats, profiles and policies (michi-core)

AudioFormats == {"mp3", "flac", "ogg", "opus", "aac", "m4a", "wav", "unknown"}
StreamProfiles == {"Original", "LosslessCompatible", "OpusMobile96", "OpusMobile160",
                   "Mp3Compatibility192", "Mp3Compatibility320", "Downsample2448", "Custom"}
FormatPolicies == {"LosslessOnly", "StandardOnly", "DirectPlay"}
ResourceProfiles == {"Eco", "Balanced", "Performance", "Custom"}

mime_type(format) ==
  CASE format = "mp3" -> "audio/mpeg"
    [] format \in {"ogg", "opus"} -> "audio/ogg"
    [] format = "m4a" -> "audio/mp4"
    [] format = "unknown" -> "application/octet-stream"
    [] format = "flac" -> "audio/flac"
    [] format = "aac" -> "audio/aac"
    [] format = "wav" -> "audio/wav"

is_lossless(format) == format \in {"flac", "wav"}

max_transcodes(resource) == CASE resource = "Eco" -> 0 [] resource = "Performance" -> 4 [] OTHER -> 2

---------------------------------------------------------------------------
\* How a track is delivered: resolve_stream_decision

AtMost(x, limit) == IF x < limit THEN x ELSE limit
AtLeast(x, floor) == IF x > floor THEN x ELSE floor

Direct(format) == [mode |-> "direct", mime |-> mime_type(format)]
Refusal == [mode |-> "refused"]
TranscodePlan(codec, kbps, rate, depth) ==
  [mode |-> "transcode", codec |-> codec, kbps |-> kbps, rate |-> rate, depth |-> depth]

Lossy(codec, kbps, rate, conf) ==
  IF conf.policy = "LosslessOnly" THEN Refusal
  ELSE TranscodePlan(codec, AtMost(kbps, conf.cap), rate, 0)

\* Under the DirectPlay policy the file is sent as it is, or not at all.
DirectPlay(track, asked) ==
  LET same == CASE track.format \in {"ogg", "opus"} -> {"ogg", "opus"}
                [] track.format = "aac" -> {"aac", "m4a"}
                [] track.format \in {"mp3", "flac", "wav"} -> {track.format}
                [] OTHER -> {}
  IN IF asked \in same \union {"none"} THEN Direct(track.format) ELSE Refusal

\* A format named in the request.
Requested(track, asked, conf) ==
  CASE asked = "mp3" -> Lossy("mp3", 192, track.rate, conf)
    [] asked = "opus" -> Lossy("opus", 128, track.rate, conf)
    [] asked = "ogg" -> Lossy("ogg", 160, track.rate, conf)
    [] asked \in {"wav", "pcm"} ->
         TranscodePlan("pcm", 0, track.rate, IF track.depth = 0 THEN 16 ELSE track.depth)
    [] asked = "flac" -> IF is_lossless(track.format) THEN Direct(track.format) ELSE Refusal
    [] OTHER -> Refusal

\* The configured profile, when the request names none.
Profiled(track, conf) ==
  CASE conf.profile = "OpusMobile96" -> Lossy("opus", 96, track.rate, conf)
    [] conf.profile = "OpusMobile160" -> Lossy("opus", 160, track.rate, conf)
    [] conf.profile = "Mp3Compatibility192" -> Lossy("mp3", 192, track.rate, conf)
    [] conf.profile = "Mp3Compatibility320" -> Lossy("mp3", 320, track.rate, conf)
    [] conf.profile = "Downsample2448" ->
         TranscodePlan("pcm", 0, IF track.rate = 0 THEN 48 ELSE AtMost(track.rate, 48),
                       IF track.depth = 0 THEN 24 ELSE AtMost(track.depth, 24))
    [] OTHER -> Direct(track.format)

\* Mutant: the resource profile is not asked.
DecideUnmetered(track, asked, conf) ==
  IF conf.policy = "DirectPlay" THEN DirectPlay(track, asked)
  ELSE IF asked # "none" THEN Requested(track, asked, conf) ELSE Profiled(track, conf)

resolve_stream_decision(track, asked, conf) ==
  LET plan == IF asked # "none" THEN Requested(track, asked, conf) ELSE Profiled(track, conf)
  IN IF conf.policy = "DirectPlay" THEN DirectPlay(track, asked)
     ELSE IF plan.mode = "transcode" /\ max_transcodes(conf.resource) = 0 THEN Refusal ELSE plan

\* What ffmpeg is told to produce: transcode_stream_with_plan.
Encoding(plan) ==
  [codec |-> IF plan.codec # "pcm" THEN plan.codec
             ELSE IF plan.depth = 24 THEN "pcm_s24le" ELSE "pcm_s16le",
   kbps |-> IF plan.kbps = 0 THEN 0 ELSE AtLeast(plan.kbps, 32),
   rate |-> IF plan.codec = "pcm" THEN plan.rate ELSE 0,
   mime |-> CASE plan.codec = "mp3" -> "audio/mpeg" [] plan.codec = "pcm" -> "audio/wav"
              [] OTHER -> "audio/ogg"]

\* The plans of the older route, which takes a format and no configuration; `mp3`, `ogg`,
\* `opus` and `pcm` are the formats it pipes.
transcode_stream(asked) ==
  CASE asked = "mp3" -> TranscodePlan("mp3", 192, 0, 0)
    [] asked = "opus" -> TranscodePlan("opus", 128, 0, 0)
    [] asked = "ogg" -> TranscodePlan("ogg", 0, 0, 0)
    [] asked = "pcm" -> TranscodePlan("pcm", 0, 48, 24)

\* The content type the older route announces: TranscodeFormat::mime_type.
TranscodeMime(asked) ==
  CASE asked = "mp3" -> "audio/mpeg" [] asked \in {"ogg", "opus"} -> "audio/ogg"
    [] asked = "pcm" -> "audio/wav"

---------------------------------------------------------------------------
\* Range headers: `bytes=-n`, `bytes=a-`, `bytes=a-b`, or anything else

Offsets == 0 .. 4
Headers == [kind : {"suffix", "from"}, a : Offsets, b : {0}] \union
           [kind : {"span"}, a : Offsets, b : Offsets] \union
           [kind : {"malformed"}, a : {0}, b : {0}]
NoHeader == [kind |-> "none", a |-> 0, b |-> 0]
\* The headers the clients of this model send; the others are checked in RangesRight.
Sent == {NoHeader, [kind |-> "from", a |-> 1, b |-> 0]}
NoRange == [ok |-> FALSE, start |-> 0, len |-> 0]

ByteRange(start, end) == [ok |-> TRUE, start |-> start, len |-> end - start + 1]

\* Mutant: an end beyond the file is kept.
ParseUnclamped(h, size) ==
  LET end == IF h.kind = "span" THEN h.b ELSE size - 1
  IN IF h.kind = "malformed" \/ size = 0 THEN NoRange
     ELSE IF h.kind = "suffix"
     THEN IF h.a = 0 THEN NoRange ELSE ByteRange(IF h.a > size THEN 0 ELSE size - h.a, size - 1)
     ELSE IF h.a >= size \/ h.a > end THEN NoRange ELSE ByteRange(h.a, end)

parse_range(h, size) ==
  LET end == IF h.kind = "span" /\ h.b < size THEN h.b ELSE size - 1
  IN IF h.kind = "malformed" \/ size = 0 THEN NoRange
     ELSE IF h.kind = "suffix"
     THEN IF h.a = 0 THEN NoRange ELSE ByteRange(IF h.a > size THEN 0 ELSE size - h.a, size - 1)
     ELSE IF h.a >= size \/ h.a > end THEN NoRange ELSE ByteRange(h.a, end)

---------------------------------------------------------------------------
\* Requests

VARIABLES
  setup,      \* the configuration the server runs with
  file,       \* the file at the track's path: version, and whether it is there
  listening,  \* the requests: stage, what they hold, and what they were promised and sent
  permits,    \* free permits of the transcode semaphore
  elsewhere,  \* transcodes that clients other than Listeners have running
  hls,        \* the cached playlist: "none", "part" or "whole"
  segmenters, \* running ffmpeg processes that write it: the request, and whether it wrote yet
  marred,     \* ghost: a segmenter stopped halfway and left its part of the playlist
  nstream

streamVars == <<setup, file, listening, permits, elsewhere, hls, segmenters, marred, nstream>>

\* A later version is shorter.
Length(v) == MaxVersions + 1 - v

NoStream == [pc |-> "idle", id |-> 0, head |-> NoHeader, ver |-> 0, from |-> 0, due |-> 0,
             sent |-> 0, permit |-> FALSE, got |-> "none", company |-> FALSE]

\* The track the row describes.
Sung == [format |-> "flac", rate |-> 96, depth |-> 24]

StreamInit ==
  /\ setup \in Setups
  /\ file = [ver |-> 1, there |-> TRUE]
  /\ listening = [l \in Listeners |-> NoStream]
  /\ elsewhere = AtMost(1, max_transcodes(setup.resource))
  /\ permits = max_transcodes(setup.resource) - elsewhere
  /\ hls = "none" /\ segmenters = {} /\ marred = FALSE /\ nstream = 0

Listen(l, r) == listening' = [listening EXCEPT ![l] = r]

\* A request ends; dropping it drops the permit it may hold.
Leave(l) ==
  /\ Listen(l, NoStream)
  /\ permits' = permits + (IF listening[l].permit THEN 1 ELSE 0)

Arrives(l, r) ==
  /\ listening[l].pc \in {"idle", "answered"} /\ nstream < MaxStreams /\ nstream' = nstream + 1
  /\ Listen(l, [r EXCEPT !.id = nstream + 1])
  /\ UNCHANGED <<setup, file, elsewhere, hls, segmenters, marred>>

\* Every handler that sends the file itself goes through the steps below: the v1 stream when
\* the decision is direct, and the three routes that do not transcode.
AskFile(l, h) ==
  /\ Arrives(l, [NoStream EXCEPT !.pc = "open", !.head = h])
  /\ UNCHANGED permits

\* The older route without a format, the v1 download, and OpenSubsonic.
AskPlain(l, h) == AskFile(l, h)
AskDownload(l, h) == AskFile(l, h)
AskSubsonic(l, h) == AskFile(l, h)

\* The v1 stream: the decision, and a permit for a transcode, refused when none is free.
AskV1(l, asked, h) ==
  LET decision == resolve_stream_decision(Sung, asked, setup)
  IN \/ decision.mode = "direct" /\ AskFile(l, h)
     \/ /\ decision.mode = "transcode" /\ permits > 0 /\ permits' = permits - 1
        /\ Arrives(l, [NoStream EXCEPT !.pc = "encode", !.permit = TRUE])

\* The older route with a format: no permit, and a cached playlist for `hls`.
AskLegacy(l, asked) ==
  /\ file.there
  /\ Arrives(l, [NoStream EXCEPT !.pc = IF asked = "hls" THEN "probe" ELSE "encode"])
  /\ UNCHANGED permits

---------------------------------------------------------------------------
\* Sending the file

open_track_file(l) ==
  /\ listening[l].pc = "open"
  /\ IF file.there THEN Listen(l, [listening[l] EXCEPT !.pc = "measure", !.ver = file.ver])
                   ELSE Listen(l, NoStream)
  /\ UNCHANGED <<setup, file, permits, elsewhere, hls, segmenters, marred, nstream>>

\* Mutant: the length is read through the path again.
SizeAtPath(r) == Length(file.ver)

\* The length is that of the opened file.
Size(r) == Length(r.ver)

\* stream_file: the headers, with the range the client asked for or the whole file.
stream_file(l) ==
  LET r == listening[l]
      range == IF r.head = NoHeader THEN [ok |-> TRUE, start |-> 0, len |-> Size(r)]
               ELSE parse_range(r.head, Size(r))
  IN /\ r.pc = "measure"
     /\ IF range.ok THEN Listen(l, [r EXCEPT !.pc = "body", !.head = NoHeader, !.from = range.start, !.due = range.len])
                    ELSE Listen(l, NoStream)
     /\ UNCHANGED <<setup, file, permits, elsewhere, hls, segmenters, marred, nstream>>

\* The body: the opened file from the offset on, at most the length of the range.
SendBody(l) ==
  LET r == listening[l]
      rest == r.sent < r.due /\ r.from + r.sent < Length(r.ver)
  IN /\ r.pc = "body"
     /\ Listen(l, IF rest THEN [r EXCEPT !.sent = @ + 1] ELSE [r EXCEPT !.pc = "answered"])
     /\ UNCHANGED <<setup, file, permits, elsewhere, hls, segmenters, marred, nstream>>

---------------------------------------------------------------------------
\* Transcoding through a pipe

\* Mutant: the failure keeps the permit.
EncodeFailsHolding(l) ==
  /\ listening[l].pc = "encode"
  /\ Listen(l, NoStream)
  /\ UNCHANGED <<setup, file, permits, elsewhere, hls, segmenters, marred, nstream>>

\* ffmpeg is missing, the file is gone, or the spawn fails.
EncodeFails(l) ==
  /\ listening[l].pc = "encode"
  /\ Leave(l)
  /\ UNCHANGED <<setup, file, elsewhere, hls, segmenters, marred, nstream>>

transcode_stream_with_plan(l) ==
  /\ listening[l].pc = "encode" /\ file.there
  /\ Listen(l, [listening[l] EXCEPT !.pc = "pipe"])
  /\ UNCHANGED <<setup, file, permits, elsewhere, hls, segmenters, marred, nstream>>

\* The pipe ends, and with it the body that holds the permit.
PipeEnds(l) ==
  /\ listening[l].pc = "pipe"
  /\ Leave(l)
  /\ UNCHANGED <<setup, file, elsewhere, hls, segmenters, marred, nstream>>

---------------------------------------------------------------------------
\* The HLS cache

\* Mutant: the playlist is read without waiting for ffmpeg.
ProbeUnawaited(l) ==
  LET r == listening[l]
  IN /\ r.pc = "probe"
     /\ segmenters' = IF hls # "none" THEN segmenters ELSE segmenters \union {[id |-> r.id, wrote |-> FALSE]}
     /\ Listen(l, [r EXCEPT !.pc = "read"])
     /\ UNCHANGED <<setup, file, permits, elsewhere, hls, marred, nstream>>

\* generate_hls_playlist, only when there is no playlist yet.
ProbePlaylist(l) ==
  LET r == listening[l]
  IN /\ r.pc = "probe"
     /\ IF hls # "none"
        THEN Listen(l, [r EXCEPT !.pc = "read"]) /\ UNCHANGED segmenters
        ELSE /\ segmenters' = segmenters \union {[id |-> r.id, wrote |-> FALSE]}
             /\ Listen(l, [r EXCEPT !.pc = "wait"])
     /\ UNCHANGED <<setup, file, permits, elsewhere, hls, marred, nstream>>

\* ffmpeg rewrites the playlist after every segment.
SegmenterWrites(s) ==
  /\ segmenters' = (segmenters \ {s}) \union {[s EXCEPT !.wrote = TRUE]}
  /\ hls' = "part"
  /\ UNCHANGED <<setup, file, listening, permits, elsewhere, marred, nstream>>

\* The request that waits for process s goes on when its status arrives, if it is still there.
Waiting(s) == {l \in Listeners : listening[l].pc = "wait" /\ listening[l].id = s.id}

generate_hls_playlist(s) ==
  /\ segmenters' = segmenters \ {s} /\ hls' = "whole" /\ marred' = FALSE
  /\ listening' = [l \in Listeners |-> IF l \in Waiting(s) THEN [listening[l] EXCEPT !.pc = "read"]
                                       ELSE listening[l]]
  /\ UNCHANGED <<setup, file, permits, elsewhere, nstream>>

SegmenterFails(s) ==
  /\ segmenters' = segmenters \ {s} /\ marred' = (marred \/ s.wrote)
  /\ listening' = [l \in Listeners |-> IF l \in Waiting(s) THEN NoStream ELSE listening[l]]
  /\ UNCHANGED <<setup, file, permits, elsewhere, hls, nstream>>

\* The playlist as it is now becomes the answer.
read_hls_playlist(l) ==
  LET r == listening[l]
  IN /\ r.pc = "read"
     /\ Listen(l, [r EXCEPT !.pc = "answered", !.got = hls,
                            !.company = marred \/ \E s \in segmenters : s.id # r.id])
     /\ UNCHANGED <<setup, file, permits, elsewhere, hls, segmenters, marred, nstream>>

---------------------------------------------------------------------------
\* The surroundings

\* The client goes: its request, or the body being sent, is dropped; a segmenter runs on.
HangUp(l) ==
  /\ listening[l].pc \notin {"idle", "answered"}
  /\ Leave(l)
  /\ UNCHANGED <<setup, file, elsewhere, hls, segmenters, marred, nstream>>

\* A transcode of somebody else ends.
OtherEnds ==
  /\ elsewhere > 0 /\ elsewhere' = elsewhere - 1 /\ permits' = permits + 1
  /\ UNCHANGED <<setup, file, listening, hls, segmenters, marred, nstream>>

\* The file is replaced by renaming another over it, or deleted: open handles stay valid.
FileChanges ==
  /\ \/ file.ver < MaxVersions /\ file' = [ver |-> file.ver + 1, there |-> TRUE]
     \/ file.there /\ file' = [file EXCEPT !.there = FALSE]
  /\ UNCHANGED <<setup, listening, permits, elsewhere, hls, segmenters, marred, nstream>>

\* A restart drops every request and its processes and leaves the cache directory.
StreamRestart ==
  /\ listening' = [l \in Listeners |-> NoStream]
  /\ permits' = max_transcodes(setup.resource) /\ elsewhere' = 0
  /\ segmenters' = {} /\ marred' = (marred \/ \E s \in segmenters : s.wrote)
  /\ UNCHANGED <<setup, file, hls, nstream>>

StreamNext ==
  \/ \E l \in Listeners :
       \/ \E h \in Sent : AskPlain(l, h) \/ AskDownload(l, h) \/ AskSubsonic(l, h)
       \/ \E asked \in {"none", "mp3", "wav"} : AskV1(l, asked, NoHeader)
       \/ \E asked \in {"mp3", "hls"} : AskLegacy(l, asked)
       \/ open_track_file(l) \/ stream_file(l) \/ SendBody(l)
       \/ EncodeFails(l) \/ transcode_stream_with_plan(l) \/ PipeEnds(l)
       \/ ProbePlaylist(l) \/ read_hls_playlist(l) \/ HangUp(l)
  \/ \E s \in segmenters : SegmenterWrites(s) \/ generate_hls_playlist(s) \/ SegmenterFails(s)
  \/ OtherEnds \/ FileChanges \/ StreamRestart

StreamSpec == StreamInit /\ [][StreamNext]_streamVars

---------------------------------------------------------------------------
\* Properties

Rates == {0, 44, 96}
Depths == {0, 16, 32}
Caps == {16, 100}
Asked == {"none", "mp3", "opus", "ogg", "wav", "pcm", "flac", "aac", "m4a", "other"}

\* The content types a client that names a format may be answered with.  `flac` is any
\* lossless file as it is, so a WAV too; `m4a` and `aac` are served only under DirectPlay and
\* only from an AAC file; no other name is served.
Answers(asked) ==
  CASE asked \in {"mp3", "opus", "ogg", "wav"} -> {mime_type(asked)}
    [] asked = "pcm" -> {"audio/wav"}
    [] asked = "flac" -> {"audio/flac", "audio/wav"}
    [] asked \in {"aac", "m4a"} -> {"audio/aac"}
    [] OTHER -> {}

(* The decision of resolve_stream_decision respects the configuration for  *)
(* every track, request and setup: no transcode under DirectPlay or Eco,   *)
(* no lossy one under LosslessOnly, no bit rate above the limit (ffmpeg is *)
(* never asked for less than 32), no sample rate above the source's when   *)
(* the profile reduces it.  A client that names a format is refused or     *)
(* answered with a content type of Answers: its own for mp3, opus, ogg,    *)
(* wav and aac, audio/wav for pcm, the file's own for flac (a lossless     *)
(* file as it is, also a WAV), audio/aac for m4a.  The older route         *)
(* announces what it encodes.                                              *)
DecisionsRight ==
  /\ \A track \in [format : AudioFormats, rate : Rates, depth : Depths], asked \in Asked,
        s \in [policy : FormatPolicies, profile : StreamProfiles, resource : ResourceProfiles, cap : Caps] :
       LET d == resolve_stream_decision(track, asked, s)
           e == Encoding(d)
           mime == IF d.mode = "direct" THEN d.mime ELSE e.mime
       IN d.mode # "refused" =>
            /\ s.policy = "DirectPlay" \/ s.resource = "Eco" => d.mode = "direct"
            /\ asked # "none" => mime \in Answers(asked)
            /\ asked = "flac" => d.mode = "direct" /\ mime = mime_type(track.format)
            /\ d.mode = "transcode" =>
                 /\ s.policy = "LosslessOnly" => d.codec = "pcm"
                 /\ e.kbps <= AtLeast(s.cap, 32)
                 /\ asked = "none" /\ track.rate # 0 => e.rate <= track.rate
  /\ \A asked \in {"mp3", "opus", "ogg", "pcm"} : TranscodeMime(asked) = Encoding(transcode_stream(asked)).mime

(* parse_range selects exactly the bytes of the file that the header       *)
(* names, and is an error when there are none.                             *)
RangesRight ==
  \A size \in 0 .. 3, h \in Headers :
    LET r == parse_range(h, size)
        named == {i \in 0 .. size - 1 : CASE h.kind = "suffix" -> i + h.a >= size
                                          [] h.kind = "from" -> i >= h.a
                                          [] h.kind = "span" -> h.a <= i /\ i <= h.b
                                          [] OTHER -> FALSE}
    IN IF named = {} THEN ~r.ok
       ELSE r.ok /\ r.start .. r.start + r.len - 1 = named

(* A response that is sent to the end has the length its headers promised, *)
(* whatever happened to the file since the request arrived.                *)
BodiesWhole ==
  \A l \in Listeners : LET r == listening[l] IN r.pc = "answered" => r.sent = r.due

(* The permits of the transcode semaphore are free or held by the v1       *)
(* requests that transcode: no failure, hang-up or end of a pipe loses or  *)
(* doubles one.                                                            *)
PermitsKept ==
  permits + elsewhere + Cardinality({l \in Listeners : listening[l].permit}) = max_transcodes(setup.resource)

(* An HLS playlist that was answered is complete, unless another request's *)
(* ffmpeg was writing it or one had stopped halfway: the file is served as *)
(* soon as it exists.                                                      *)
PlaylistsWhole ==
  \A l \in Listeners : LET r == listening[l] IN r.got = "part" => r.company

(* Streams are honest: the decision keeps to the configuration, a range is *)
(* the bytes it names, a body has the promised length, permits are neither *)
(* lost nor doubled, and a playlist is complete when it was made alone.    *)
StreamsHonest == DecisionsRight /\ RangesRight /\ BodiesWhole /\ PermitsKept /\ PlaylistsWhole

=============================================================================

---------------------------- MODULE SourceRules ----------------------------
(***************************************************************************)
(* From a request to create a stream to ffmpeg's command line: what is     *)
(* stored (server/handlers.go, model/stream.go, provider/detect.go), how a *)
(* page becomes a media URL (provider/bilibili.go, provider/douyu.go,      *)
(* manager.resolverFor), and what ffmpeg is told (ffmpeg/command.go).      *)
(*                                                                         *)
(* A URL is what the rules ask of it: its scheme, its host, whether the    *)
(* patterns for a live room, a video and a trailing number match, whether  *)
(* white space precedes it, whether url.Parse accepts it (https:// added   *)
(* if there is no "://" in it), and whether there is a "://" elsewhere in  *)
(* an address without a scheme.                                            *)
(***************************************************************************)
EXTENDS Naturals, FiniteSets, SequencesExt

CONSTANTS MaxUrls,      \* addresses in an answer of a site, at most
          None, Failed  \* nothing; a resolver's error

ASSUME SomeUrls == MaxUrls \in Nat

Result(url, headers, live) == [url |-> url, headers |-> headers, live |-> live]
\* The address of a media file: HTTP, something else (rtmp:// for one), or
\* the path of a downloaded file.
Results == [url: {"http", "other", "cache"}, headers: BOOLEAN, live: BOOLEAN]

ASSUME ErrorsAreNoResults == Failed # None /\ {None, Failed} \cap Results = {}

VARIABLES
    row,     \* the stored stream, or None
    cached,  \* the stream's video has been downloaded
    site,    \* what the provider's site last answered, or None
    media,   \* what the resolver returned: Result, or None, or Failed
    args     \* the command line of this run, or None

vars == <<row, cached, site, media, args>>

Url == [scheme: {"", "http", "rtsp", "rtmp", "other"},
        host: {"", "bilibili", "douyu", "other"},
        room: BOOLEAN, video: BOOLEAN, number: BOOLEAN, padded: BOOLEAN,
        parses: BOOLEAN, embedded: BOOLEAN]

Blank == [scheme |-> "", host |-> "", room |-> FALSE, video |-> FALSE,
          number |-> FALSE, padded |-> FALSE, parses |-> TRUE,
          embedded |-> FALSE]

\* Pages, with and without a scheme, alone or within a text; other addresses
\* and files; nothing.  Any of them may have been pasted with a blank in front.
Urls ==
    {u \in Url:
        /\ u.scheme \in {"", "http"} /\ (u.embedded => u.scheme = "")
        /\ \/ u.host = "bilibili" /\ ~u.number
           \/ u.host = "douyu" /\ ~u.room /\ ~u.video}
    \cup {u \in Url: /\ u.host = "other" /\ ~u.room /\ ~u.video /\ ~u.number
                     /\ u.parses /\ ~u.embedded}
    \cup {Blank}

Trimmed(u) == [u EXCEPT !.padded = FALSE]

SourceTypes == {"auto", "file", "rtsp", "rtmp", "http", "test"}

Requests ==
    [name: {"slug", "random", "malformed"},
     provider: {"", "bilibili", "douyu", "unknown"},
     type: SourceTypes \cup {"", "unknown"}, url: Urls]

(***************************************************************************)
(* createStream                                                            *)
(***************************************************************************)

\* Fault: a page pasted without its scheme is not recognised.
FaultNeedsScheme(u) ==
    IF u.scheme = "http" /\ u.host \in {"bilibili", "douyu"} THEN u.host ELSE ""

\* The host of what url.Parse takes for a URL.  https:// is not added to an
\* address with a "://" anywhere in it, which then is a path without a host.
DetectFromURL(u) ==
    IF /\ u.parses /\ (u.scheme # "" \/ ~u.embedded)
       /\ u.host \in {"bilibili", "douyu"}
    THEN u.host
    ELSE ""

\* Fault: the type is stored as it was given.
FaultTypeAsGiven(type, u) == type

\* The scheme is compared with the URL as it came, blanks included.
DeriveSourceType(type, u) ==
    CASE type # "auto" -> type
      [] type = "auto" /\ ~u.padded /\ u.scheme \in {"rtsp", "rtmp", "http"}
           -> u.scheme
      [] OTHER -> "file"

\* Fault: what is fetched over HTTP is taken to end.
FaultOnlyCamerasLive(type) == type \in {"rtsp", "rtmp", "test"}

IsLive(type) == type # "file"

ProviderOf(r) ==
    IF r.provider = "" THEN DetectFromURL(r.url) ELSE r.provider

TypeOf(r) ==
    CASE ProviderOf(r) # "" -> "http"
      [] ProviderOf(r) = "" /\ r.type = "" -> DeriveSourceType("auto", r.url)
      [] OTHER -> DeriveSourceType(r.type, r.url)

Acceptable(r) ==
    /\ r.name = "slug"
    /\ r.provider # "unknown"
    /\ ProviderOf(r) = "" => r.type # "unknown"
    /\ r.url = Blank => TypeOf(r) = "test"

\* 201 and the row; a request that is not acceptable (400) changes nothing.
CreateStream(r) ==
    /\ row = None /\ Acceptable(r)
    /\ row' = [url |-> Trimmed(r.url), type |-> TypeOf(r),
               provider |-> ProviderOf(r), live |-> IsLive(TypeOf(r))]
    /\ UNCHANGED <<cached, site, media, args>>

(***************************************************************************)
(* The resolvers                                                           *)
(***************************************************************************)

\* The kind of an address is not looked at by the resolvers.
Kind(http) == IF http THEN "http" ELSE "other"

\* An address of a live room: complete or not, the FLV/AVC stream or another
\* one, HTTP or not; in the order of the answer.
Addresses == [usable: BOOLEAN, flv: BOOLEAN, http: BOOLEAN]
LiveAnswers == SeqOf(Addresses, MaxUrls)

\* Fault: every usable address replaces the fallback.
FaultLastFallback(answer, best, i) ==
    IF best # 0 /\ answer[best].flv THEN best
    ELSE IF answer[i].usable THEN i ELSE best

\* A turn of the loop, which has chosen "best" (0: none) so far: the fallback
\* is set once, the preferred stream ends the search.
ChoiceAfter(answer, best, i) ==
    IF best # 0 /\ answer[best].flv THEN best
    ELSE IF answer[i].usable /\ (best = 0 \/ answer[i].flv) THEN i
    ELSE best

\* The index of the chosen address, 0 if there is none.
selectBiliLiveURL(answer) ==
    LET chosen[i \in 0 .. Len(answer)] ==
          IF i = 0 THEN 0 ELSE ChoiceAfter(answer, chosen[i - 1], i)
    IN chosen[Len(answer)]

\* Answers of the video endpoints: the page's data, the signing keys, the
\* addresses of its parts, blank or not.
VideoAnswers ==
    [view: {"ok", "code", "down"}, nav: {"ok", "empty", "down"},
     play: {"ok", "code", "down"}, parts: SeqOf(BOOLEAN, MaxUrls)]

resolveVideo(answer) ==
    IF /\ answer.view = "ok" /\ answer.nav = "ok" /\ answer.play = "ok"
       /\ TRUE \in Range(answer.parts)
    THEN Result("http", TRUE, FALSE)
    ELSE Failed

resolveLive(answer) ==
    LET best == selectBiliLiveURL(answer)
    IN IF best = 0 THEN Failed ELSE Result(Kind(answer[best].http), TRUE, TRUE)

\* The pattern of a live room is tried first, here and in BilibiliResolve.
IsBilibiliVODURL(u) == ~u.room /\ u.video

\* Fault: a video's patterns are tried first.
FaultVideoFirst(u) == u.room /\ ~u.video

\* resolveLive and resolveVideo take different answers.
AsksRoom(u) == u.room

\* What the site may answer to the resolver; nothing is asked for a page that
\* matches no pattern.
BilibiliAnswers(u) ==
    CASE AsksRoom(u) -> LiveAnswers
      [] ~AsksRoom(u) /\ u.video -> VideoAnswers
      [] OTHER -> {None}

BilibiliResolve(u, answer) ==
    CASE AsksRoom(u) -> resolveLive(answer)
      [] ~AsksRoom(u) /\ u.video -> resolveVideo(answer)
      [] OTHER -> Failed

\* Answers of Douyu's endpoints: whether the public API, the metadata and the
\* page tell the canonical room, whether the key is complete and the play
\* answer without an error; "data" is the shape of getH5PlayV1's data, "fields"
\* what its object holds, "http" whether that is an HTTP URL.
DouyuAnswers ==
    [public: BOOLEAN, metadata: BOOLEAN, page: BOOLEAN,
     key: BOOLEAN, play: BOOLEAN,
     data: {"null", "object", "encoded", "blank", "address", "text"},
     fields: {"player", "rtmp", "half rtmp", "none"}, http: BOOLEAN]

\* The three are tried in this order, until one tells.
douyuCanonicalRoomID(a) == a.public \/ a.metadata \/ a.page

\* The fields of the data, however it is wrapped; a text is an error.
playData(a) ==
    CASE a.data \in {"null", "blank"} -> "none"
      [] a.data = "address" -> "player"
      [] a.data \in {"object", "encoded"} -> a.fields
      [] a.data = "text" -> "error"

\* Only an address that is the whole data has been looked at.
DouyuResolve(u, a) ==
    IF /\ u.number /\ douyuCanonicalRoomID(a) /\ a.key /\ a.play
       /\ playData(a) \in {"player", "rtmp"}
    THEN Result(Kind(a.http \/ a.data = "address"), TRUE, TRUE)
    ELSE Failed

\* An answer is one of these, or none if the page has no number to ask for.
DouyuSays(u) == IF u.number THEN DouyuAnswers ELSE {None}

IsVod(s) == s.provider = "bilibili" /\ IsBilibiliVODURL(s.url)

\* Prepare and its worker: the page is resolved, a live source refused, the
\* video downloaded, which may fail.
Prepare ==
    /\ row # None /\ IsVod(row) /\ ~cached
    /\ \E answer \in BilibiliAnswers(row.url):
         LET result == BilibiliResolve(row.url, answer)
         IN /\ site' = answer
            /\ cached' \in IF result = Failed \/ result.live THEN {FALSE}
                           ELSE BOOLEAN
    /\ UNCHANGED <<row, media, args>>

\* resolverFor: none for a direct source, the cache path for a VOD (whose path
\* comes up when it is downloaded), else the provider's resolver, which asks
\* the site before every run.
Resolve ==
    /\ row # None /\ media = None
    /\ \/ /\ IsVod(row) /\ cached
          /\ media' = Result("cache", FALSE, FALSE) /\ UNCHANGED site
       \/ /\ row.provider = "bilibili" /\ ~IsVod(row)
          /\ \E answer \in BilibiliAnswers(row.url):
               site' = answer /\ media' = BilibiliResolve(row.url, answer)
       \/ /\ row.provider = "douyu"
          /\ \E answer \in DouyuSays(row.url):
               site' = answer /\ media' = DouyuResolve(row.url, answer)
    /\ UNCHANGED <<row, cached, args>>

(***************************************************************************)
(* ffmpeg                                                                  *)
(***************************************************************************)

Reconnect == {"-reconnect", "-reconnect_streamed", "-reconnect_delay_max"}

\* The options that precede -i.  What is resolved and no HTTP URL is taken for
\* a downloaded file.
InputOptions(s, m) ==
    CASE m # None /\ m.url = "http" -> {"-user_agent", "-headers"} \cup Reconnect
      [] m # None /\ m.url # "http" -> {"-stream_loop", "-re"}
      [] m = None /\ s.type = "rtsp" -> {"-rtsp_transport", "-rw_timeout"}
      [] m = None /\ s.type = "rtmp" -> {"-rw_timeout"}
      [] m = None /\ s.type = "http" -> Reconnect
      [] m = None /\ s.type = "test" -> {"-re", "-f"}
      [] OTHER -> {"-re"}

\* What -i names.
Input(s, m) ==
    CASE m # None -> m.url
      [] m = None /\ s.type = "test" -> "pattern"
      [] OTHER -> "source_url"

Codecs(s) ==
    CASE s.provider # "" -> {"libx264", "libopus"}
      [] s.provider = "" /\ s.type = "test" -> {"libx264", "-an"}
      [] OTHER -> {"copy"}

\* A run begins with what Resolve left.
BuildArgs ==
    /\ row # None /\ args = None /\ media # Failed
    /\ row.provider # "" => media # None
    /\ args' = [options |-> InputOptions(row, media),
                input |-> Input(row, media), codecs |-> Codecs(row),
                live |-> IF row.provider = "" THEN row.live ELSE media.live]
    /\ UNCHANGED <<row, cached, site, media>>

\* The run, or the attempt to resolve, is over.
RunEnds ==
    /\ args # None \/ media = Failed
    /\ site' = None /\ media' = None /\ args' = None
    /\ UNCHANGED <<row, cached>>

Init ==
    /\ row = None /\ cached = FALSE
    /\ site = None /\ media = None /\ args = None

Next ==
    \/ \E r \in Requests: CreateStream(r)
    \/ Prepare \/ Resolve \/ BuildArgs \/ RunEnds

Spec == Init /\ [][Next]_vars

-----------------------------------------------------------------------------

\* Type invariant; no type is stored that BuildArgs does not know.
TypeOK ==
    /\ row \in {None} \cup
           [url: Urls, type: SourceTypes \ {"auto"},
            provider: {"", "bilibili", "douyu"}, live: BOOLEAN]
    /\ cached \in BOOLEAN
    /\ media \in {None, Failed} \cup Results

\* A page of a known site is HTML: ffmpeg is never given it, whatever type or
\* provider was chosen with it and whatever blanks surround it, if its address
\* is pasted alone: whole, or without the scheme and with no other URL in it.
PageIsNeverPlayed ==
    args # None /\ args.input = "source_url"
        /\ row.url.host \in {"bilibili", "douyu"}
        => ~row.url.parses \/ (row.url.scheme = "" /\ row.url.embedded)

\* The three places that tell a VOD from a live room (the download, the
\* resolver, the supervisor's "live") agree: what ends is played from the
\* cache, in a loop; and nothing that a live room resolves to is paced and
\* looped like a file, unless the site names an address that is not HTTP.
VodIsPlayedFromCache ==
    args # None /\ row.provider # "" =>
        /\ ~args.live <=> args.input = "cache"
        /\ ~args.live => "-stream_loop" \in args.options
        /\ args.live /\ "-stream_loop" \in args.options => args.input = "other"

\* A direct source is sent at its own pace exactly if the supervisor takes
\* its end for good: files only (the test pattern has no end).
FilesEnd ==
    args # None /\ row.provider = "" /\ row.type # "test"
        => ("-re" \in args.options <=> ~args.live)

\* The first FLV/AVC address if there is one, else the first usable one; 0
\* if none is usable.
BestAddress(answer) ==
    LET usable == {i \in 1 .. Len(answer): answer[i].usable}
        flv == {i \in usable: answer[i].flv}
        first(S) == CHOOSE i \in S: \A j \in S: i <= j
    IN IF usable = {} THEN 0 ELSE first(IF flv # {} THEN flv ELSE usable)

\* Of the addresses of a live room the loop finds the best one: a room with a
\* usable address is not refused.
BestAddressIsChosen ==
    row # None /\ row.provider = "bilibili" /\ row.url.room /\ site # None
        => selectBiliLiveURL(site) = BestAddress(site)
=============================================================================

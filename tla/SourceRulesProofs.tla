-------------------------- MODULE SourceRulesProofs -------------------------
(***************************************************************************)
(* Proofs about SourceRules, whatever number of addresses a site returns.  *)
(***************************************************************************)
EXTENDS SourceRules, TLAPS, WellFoundedInduction

\* A page that url.Parse finds in what was pasted.
Recognised(u) ==
    /\ u.host \in {"bilibili", "douyu"}
    /\ u.parses /\ ~(u.scheme = "" /\ u.embedded)

\* What createStream stores: a direct source is no page that is recognised, and
\* the supervisor is told to expect the end of files only.
RowIsSound ==
    row # None =>
        /\ row.url \in Url
        /\ row.provider = "" =>
              /\ ~Recognised(row.url)
              /\ row.type \in SourceTypes \ {"auto"}
              /\ row.live = (row.type # "file")

\* What a live room resolves to, and what a downloaded video does.
Live == {Result("http", TRUE, TRUE), Result("other", TRUE, TRUE)}
Vod == Result("cache", FALSE, FALSE)

\* What a run may find resolved.
MediaIsSound ==
    /\ row = None => media = None
    /\ row # None /\ row.provider = "" => media = None
    /\ media \notin {None, Failed} => media \in Live \cup {Vod}

ArgsAreSound ==
    /\ row = None => args = None
    /\ PageIsNeverPlayed
    /\ VodIsPlayedFromCache
    /\ FilesEnd

IInv == RowIsSound /\ MediaIsSound /\ ArgsAreSound

\* Nothing is stored or played at first.
LEMMA InitInv == Init => IInv
  BY DEF Init, IInv, RowIsSound, MediaIsSound, ArgsAreSound,
         PageIsNeverPlayed, VodIsPlayedFromCache, FilesEnd

\* The URLs considered are URLs.
LEMMA UrlsAreUrls == Urls \subseteq Url
<1>1. Blank \in Url
  BY DEF Blank, Url
<1> QED BY <1>1 DEF Urls

\* The type stored for a direct source is one a user may ask for, or derived.
LEMMA TypeIsDerived ==
    ASSUME NEW r \in Requests, Acceptable(r), ProviderOf(r) = ""
    PROVE  TypeOf(r) \in SourceTypes \ {"auto"}
<1>1. r.type \in SourceTypes \cup {""} /\ r.url \in Url
  <2>1. r.type \in SourceTypes \cup {"", "unknown"} /\ r.url \in Urls
    BY DEF Requests
  <2>2. r.type # "unknown"
    BY DEF Acceptable
  <2> QED BY <2>1, <2>2, UrlsAreUrls
<1>2. r.url.scheme \in {"", "http", "rtsp", "rtmp", "other"}
  BY <1>1 DEF Url
<1>3. DeriveSourceType("auto", r.url) \in SourceTypes \ {"auto"}
  BY <1>2 DEF DeriveSourceType, SourceTypes
<1>4. r.type # "auto" => DeriveSourceType(r.type, r.url) = r.type
  BY DEF DeriveSourceType
<1>5. CASE r.type = ""
  BY <1>3, <1>5 DEF TypeOf
<1>6. CASE r.type # ""
  BY <1>1, <1>3, <1>4, <1>6 DEF TypeOf
<1> QED BY <1>5, <1>6

\* A stored row is sound, and nothing has been resolved or played of it.
LEMMA CreateStep ==
    ASSUME IInv, NEW r \in Requests, CreateStream(r)
    PROVE  IInv'
<1>1. /\ row = None /\ media' = None /\ args' = None
      /\ row' = [url |-> Trimmed(r.url), type |-> TypeOf(r),
                 provider |-> ProviderOf(r), live |-> IsLive(TypeOf(r))]
  BY DEF IInv, MediaIsSound, ArgsAreSound, CreateStream
<1>2. r.url \in Url
  BY UrlsAreUrls DEF Requests
<1>3. /\ Trimmed(r.url) \in Url
      /\ Trimmed(r.url).host = r.url.host
      /\ Trimmed(r.url).scheme = r.url.scheme
      /\ Trimmed(r.url).parses = r.url.parses
      /\ Trimmed(r.url).embedded = r.url.embedded
  BY <1>2 DEF Url, Trimmed
<1>4. ProviderOf(r) = "" => ~Recognised(Trimmed(r.url))
  BY <1>3 DEF ProviderOf, DetectFromURL, Recognised
<1>5. RowIsSound'
  <2>1. /\ row'.url = Trimmed(r.url) /\ row'.type = TypeOf(r)
        /\ row'.provider = ProviderOf(r) /\ row'.live = IsLive(TypeOf(r))
    BY <1>1
  <2>2. ProviderOf(r) = "" => TypeOf(r) \in SourceTypes \ {"auto"}
    BY TypeIsDerived DEF CreateStream
  <2> QED BY <1>3, <1>4, <2>1, <2>2 DEF RowIsSound, IsLive
<1>6. MediaIsSound' /\ ArgsAreSound'
  BY <1>1
  DEF MediaIsSound, ArgsAreSound, PageIsNeverPlayed, VodIsPlayedFromCache,
      FilesEnd
<1> QED BY <1>5, <1>6 DEF IInv

\* A resolver that is asked before a run returns a live source or an error: a
\* finite one comes from the cache.
LEMMA ResolveStep ==
    ASSUME IInv, Resolve
    PROVE  IInv'
<1> USE DEF IInv
<1>1. row # None /\ media = None /\ UNCHANGED <<row, args>>
  BY DEF Resolve
<1>2. row.provider # "" /\ media' \in {Failed, Vod} \cup Live
  <2>1. CASE IsVod(row) /\ media' = Result("cache", FALSE, FALSE)
    BY <2>1 DEF IsVod, Vod
  <2>2. ASSUME row.provider = "bilibili", ~IsVod(row), NEW answer,
               media' = BilibiliResolve(row.url, answer)
        PROVE  media' \in {Failed} \cup Live
    <3>1. row.url.room \in BOOLEAN /\ row.url.video \in BOOLEAN
      BY <1>1 DEF RowIsSound, Url
    <3>2. CASE row.url.room
      BY <2>2, <3>2 DEF BilibiliResolve, AsksRoom, resolveLive, Kind, Live
    <3>3. CASE ~row.url.room /\ ~row.url.video
      BY <2>2, <3>3 DEF BilibiliResolve, AsksRoom
    <3> QED BY <2>2, <3>1, <3>2, <3>3 DEF IsVod, IsBilibiliVODURL
  <2>3. ASSUME row.provider = "douyu", NEW answer,
               media' = DouyuResolve(row.url, answer)
        PROVE  media' \in {Failed} \cup Live
    BY <2>3 DEF DouyuResolve, Kind, Live
  <2> QED BY <2>1, <2>2, <2>3 DEF Resolve
<1>3. RowIsSound' /\ ArgsAreSound'
  BY <1>1
  DEF RowIsSound, ArgsAreSound, PageIsNeverPlayed, VodIsPlayedFromCache,
      FilesEnd
<1>4. MediaIsSound'
  BY <1>1, <1>2 DEF MediaIsSound
<1> QED BY <1>3, <1>4

\* The command line follows from what was stored and resolved.
LEMMA BuildArgsStep ==
    ASSUME IInv, BuildArgs
    PROVE  IInv'
<1> USE DEF IInv
<1>1. /\ row # None /\ media # Failed /\ UNCHANGED <<row, media>>
      /\ row.provider # "" => media # None
      /\ args' = [options |-> InputOptions(row, media),
                  input |-> Input(row, media), codecs |-> Codecs(row),
                  live |-> IF row.provider = "" THEN row.live ELSE media.live]
  BY DEF BuildArgs
<1>2. RowIsSound' /\ MediaIsSound'
  BY <1>1 DEF RowIsSound, MediaIsSound
<1>3. CASE row.provider = ""
  <2>1. media = None /\ row.type \in SourceTypes \ {"auto"}
        /\ ~Recognised(row.url)
        /\ row.live = (row.type # "file")
    BY <1>1, <1>3 DEF RowIsSound, MediaIsSound
  <2>2. "-re" \in InputOptions(row, None) <=> row.type \in {"file", "test"}
    BY <2>1 DEF InputOptions, Reconnect, SourceTypes
  <2>3. /\ "-re" \in args'.options <=> row.type \in {"file", "test"}
        /\ args'.live = row.live
    BY <1>1, <1>3, <2>1, <2>2
  <2> QED
    BY <1>1, <1>2, <1>3, <2>1, <2>3
    DEF ArgsAreSound, PageIsNeverPlayed, VodIsPlayedFromCache, FilesEnd,
        Recognised
<1>4. CASE row.provider # ""
  <2>1. /\ media.url \in {"http", "other", "cache"}
        /\ media.live \in BOOLEAN
        /\ ~media.live <=> media.url = "cache"
    <3>1. media \in Live \cup {Vod}
      BY <1>1, <1>4 DEF MediaIsSound
    <3>2. CASE media = Result("http", TRUE, TRUE)
      BY <3>2 DEF Result
    <3>3. CASE media = Result("other", TRUE, TRUE)
      BY <3>3 DEF Result
    <3>4. CASE media = Result("cache", FALSE, FALSE)
      BY <3>4 DEF Result
    <3> QED BY <3>1, <3>2, <3>3, <3>4 DEF Live, Vod
  <2>2. Input(row, media) = media.url
    BY <1>1, <1>4 DEF Input
  <2>3. "-stream_loop" \in InputOptions(row, media) <=> media.url # "http"
    <3>1. CASE media.url = "http"
      BY <1>1, <1>4, <3>1 DEF InputOptions, Reconnect
    <3>2. CASE media.url # "http"
      BY <1>1, <1>4, <3>2 DEF InputOptions
    <3> QED BY <3>1, <3>2
  <2>4. /\ args'.input \in {"http", "other", "cache"}
        /\ ~args'.live <=> args'.input = "cache"
        /\ "-stream_loop" \in args'.options <=> args'.input # "http"
    <3>1. /\ args'.input = media.url /\ args'.live = media.live
          /\ args'.options = InputOptions(row, media)
      BY <1>1, <1>4, <2>2
    <3> QED BY <2>1, <2>3, <3>1
  <2> QED
    BY <1>1, <1>2, <1>4, <2>4
    DEF ArgsAreSound, PageIsNeverPlayed, VodIsPlayedFromCache, FilesEnd
<1> QED BY <1>3, <1>4

\* Every step keeps the invariant.
LEMMA InvStep == IInv /\ [Next]_vars => IInv'
<1> SUFFICES ASSUME IInv, [Next]_vars PROVE IInv'
  OBVIOUS
<1>1. CASE UNCHANGED <<row, media, args>>
  BY <1>1
  DEF IInv, RowIsSound, MediaIsSound, ArgsAreSound, PageIsNeverPlayed,
      VodIsPlayedFromCache, FilesEnd
<1>2. CASE RunEnds
  BY <1>2
  DEF RunEnds, IInv, RowIsSound, MediaIsSound, ArgsAreSound,
      PageIsNeverPlayed, VodIsPlayedFromCache, FilesEnd
<1> QED
  BY <1>1, <1>2, CreateStep, ResolveStep, BuildArgsStep DEF Next, Prepare, vars

\* The invariant holds in every reachable state.
LEMMA Invariance == Spec => []IInv
  BY InitInv, InvStep, PTL DEF Spec

\* No ffmpeg is given the page of a site that has a resolver, pasted alone.
THEOREM PagesAreResolved == Spec => []PageIsNeverPlayed
<1>1. IInv => PageIsNeverPlayed
  BY DEF IInv, ArgsAreSound
<1> QED BY <1>1, Invariance, PTL

\* What ends is looped from the cache, and only that, but for live addresses
\* that are not HTTP.
THEOREM VodsAreLooped == Spec => []VodIsPlayedFromCache
<1>1. IInv => VodIsPlayedFromCache
  BY DEF IInv, ArgsAreSound
<1> QED BY <1>1, Invariance, PTL

\* Pacing and supervision agree on which direct sources end.
THEOREM OnlyFilesEnd == Spec => []FilesEnd
<1>1. IInv => FilesEnd
  BY DEF IInv, ArgsAreSound
<1> QED BY <1>1, Invariance, PTL

-----------------------------------------------------------------------------
(***************************************************************************)
(* The loop of selectBiliLiveURL.  Induction over the addresses is stated  *)
(* by its contrapositive: no least number of addresses is a counterexample.*)
(***************************************************************************)

\* A set of numbers that is not empty has a least one.
LEMMA LeastNumber ==
    ASSUME NEW S, S \subseteq Nat, S # {}
    PROVE  \E n \in S: \A m \in S: n <= m
<1> DEFINE Less == OpToRel(<, Nat)
<1>1. PICK n \in S: \A m \in S: <<m, n>> \notin Less
  BY NatLessThanWellFounded, WFMin
<1>2. ASSUME NEW m \in S PROVE n <= m
  <2>1. m \in Nat /\ n \in Nat
    OBVIOUS
  <2>2. m < n <=> <<m, n>> \in Less
    BY <2>1 DEF OpToRel
  <2> HIDE DEF Less
  <2> QED BY <1>1, <2>1, <2>2
<1> QED BY <1>2

\* The choices after 0, 1, ..., k addresses of the answer.
IsScan(answer, f, k) ==
    f = [i \in 0 .. k |->
           IF i = 0 THEN 0 ELSE ChoiceAfter(answer, f[i - 1], i)]

\* The loop has a choice after every number of addresses.
LEMMA ScanExists ==
    ASSUME NEW answer, NEW k \in Nat
    PROVE  \E f: IsScan(answer, f, k)
<1> DEFINE Bad == {j \in Nat: ~ \E f: IsScan(answer, f, j)}
<1> SUFFICES ASSUME k \in Bad PROVE FALSE
  OBVIOUS
<1>1. PICK j \in Bad: \A m \in Bad: j <= m
  <2>1. Bad \subseteq Nat /\ Bad # {}
    OBVIOUS
  <2> HIDE DEF Bad
  <2> QED BY <2>1, LeastNumber
<1>2. j \in Nat /\ j # 0
  <2>1. IsScan(answer, [i \in 0 .. 0 |-> 0], 0)
    BY DEF IsScan
  <2> QED BY <2>1
<1>3. j - 1 \in Nat /\ j - 1 \notin Bad
  BY <1>1, <1>2
<1>4. PICK f: IsScan(answer, f, j - 1)
  BY <1>3
<1> DEFINE g == [i \in 0 .. j |->
                   IF i = 0 THEN 0 ELSE ChoiceAfter(answer, f[i - 1], i)]
<1>5. \A i \in 0 .. j: g[i] = IF i = 0 THEN 0
                              ELSE ChoiceAfter(answer, f[i - 1], i)
  OBVIOUS
<1>6. \A i \in 0 .. j - 1: g[i] = f[i]
  BY <1>2, <1>3, <1>4, <1>5 DEF IsScan
<1>7. \A i \in 0 .. j: i # 0 => g[i - 1] = f[i - 1]
  <2> HIDE DEF g
  <2> QED BY <1>2, <1>6
<1>8. IsScan(answer, g, j)
  BY <1>7 DEF IsScan
<1> QED BY <1>2, <1>8

\* What selectBiliLiveURL returns is the choice after the last address.
LEMMA SelectIsScan ==
    ASSUME NEW answer, Len(answer) \in Nat
    PROVE  \E f: /\ IsScan(answer, f, Len(answer))
                 /\ selectBiliLiveURL(answer) = f[Len(answer)]
<1> DEFINE chosen == CHOOSE f: f =
                       [i \in 0 .. Len(answer) |->
                          IF i = 0 THEN 0 ELSE ChoiceAfter(answer, f[i - 1], i)]
<1>1. IsScan(answer, chosen, Len(answer))
  <2>1. \E f: IsScan(answer, f, Len(answer))
    BY ScanExists
  <2>2. chosen = CHOOSE f: IsScan(answer, f, Len(answer))
    BY DEF IsScan
  <2> QED BY <2>1, <2>2
<1>2. selectBiliLiveURL(answer) = chosen[Len(answer)]
  BY DEF selectBiliLiveURL
<1> QED BY <1>1, <1>2

\* "best" is the best of the first k addresses: none of them is usable, or it
\* is the first FLV/AVC one, or the first usable one and none is FLV/AVC.
IsBestOf(answer, best, k) ==
    /\ best \in 0 .. k
    /\ best = 0 => \A i \in 1 .. k: ~answer[i].usable
    /\ best # 0 =>
         /\ answer[best].usable
         /\ \/ /\ answer[best].flv
               /\ \A i \in 1 .. best - 1: ~(answer[i].usable /\ answer[i].flv)
            \/ /\ \A i \in 1 .. k: ~(answer[i].usable /\ answer[i].flv)
               /\ \A i \in 1 .. best - 1: ~answer[i].usable

\* A turn of the loop keeps the best address.
LEMMA TurnKeepsBest ==
    ASSUME NEW answer, NEW k \in Nat \ {0}, NEW best,
           IsBestOf(answer, best, k - 1)
    PROVE  IsBestOf(answer, ChoiceAfter(answer, best, k), k)
<1> DEFINE next == ChoiceAfter(answer, best, k)
<1>0. best \in 0 .. k - 1 /\ k - 1 \in Nat
  BY DEF IsBestOf
<1>1. \A i \in 1 .. k: i = k \/ i \in 1 .. k - 1
  OBVIOUS
<1>2. CASE best # 0 /\ answer[best].flv
  <2>1. next = best
    BY <1>2 DEF ChoiceAfter
  <2> QED BY <1>0, <1>2, <2>1 DEF IsBestOf
<1>3. CASE /\ ~(best # 0 /\ answer[best].flv) /\ answer[k].usable
           /\ best = 0 \/ answer[k].flv
  <2>1. next = k
    BY <1>3 DEF ChoiceAfter
  <2>2. \A i \in 1 .. k - 1: ~(answer[i].usable /\ answer[i].flv)
    BY <1>0, <1>3 DEF IsBestOf
  <2>3. CASE answer[k].flv
    BY <1>3, <2>1, <2>2, <2>3 DEF IsBestOf
  <2>4. CASE ~answer[k].flv
    BY <1>0, <1>1, <1>3, <2>1, <2>2, <2>4 DEF IsBestOf
  <2> QED BY <2>3, <2>4
<1>4. CASE /\ ~(best # 0 /\ answer[best].flv)
           /\ ~(answer[k].usable /\ (best = 0 \/ answer[k].flv))
  <2>1. next = best
    BY <1>4 DEF ChoiceAfter
  <2> QED BY <1>0, <1>1, <1>4, <2>1 DEF IsBestOf
<1> QED BY <1>2, <1>3, <1>4

\* The choice after k addresses is the best of them.
LEMMA ScanIsBest ==
    ASSUME NEW answer, NEW n \in Nat, NEW f, IsScan(answer, f, n)
    PROVE  \A k \in 0 .. n: IsBestOf(answer, f[k], k)
<1> DEFINE Bad == {k \in 0 .. n: ~IsBestOf(answer, f[k], k)}
<1> SUFFICES ASSUME Bad # {} PROVE FALSE
  OBVIOUS
<1>1. PICK k \in Bad: \A m \in Bad: k <= m
  <2>1. Bad \subseteq Nat
    OBVIOUS
  <2> HIDE DEF Bad
  <2> QED BY <2>1, LeastNumber
<1>2. f[0] = 0 /\ \A i \in 1 .. n: f[i] = ChoiceAfter(answer, f[i - 1], i)
  BY DEF IsScan
<1>3. k # 0
  BY <1>2 DEF IsBestOf
<1>4. k - 1 \in 0 .. n /\ k - 1 \notin Bad /\ k \in 1 .. n
  BY <1>1, <1>3
<1>5. IsBestOf(answer, f[k - 1], k - 1)
  BY <1>4
<1>6. IsBestOf(answer, f[k], k)
  BY <1>2, <1>4, <1>5, TurnKeepsBest
<1> QED BY <1>6

\* For every list of addresses, whatever its length, the loop finds the best.
THEOREM SelectFindsTheBest ==
    ASSUME NEW answer, Len(answer) \in Nat
    PROVE  selectBiliLiveURL(answer) = BestAddress(answer)
<1> DEFINE n == Len(answer)
           best == selectBiliLiveURL(answer)
           usable == {i \in 1 .. n: answer[i].usable}
           flv == {i \in usable: answer[i].flv}
           S == IF flv # {} THEN flv ELSE usable
<1>1. IsBestOf(answer, best, n)
  <2>1. PICK f: IsScan(answer, f, n) /\ best = f[n]
    BY SelectIsScan
  <2>2. n \in 0 .. n
    OBVIOUS
  <2> QED BY <2>1, <2>2, ScanIsBest
<1> HIDE DEF best
<1>2. CASE usable = {}
  <2>1. best = 0
    BY <1>1, <1>2 DEF IsBestOf
  <2> QED BY <1>2, <2>1 DEF BestAddress, best
<1>3. CASE usable # {}
  <2>1. best \in usable
    BY <1>1, <1>3 DEF IsBestOf
  <2>2. best \in S /\ \A j \in S: best <= j
    <3>1. CASE answer[best].flv
      <4>1. \A j \in flv: ~(j \in 1 .. best - 1)
        BY <1>1, <2>1, <3>1 DEF IsBestOf
      <4> QED BY <2>1, <3>1, <4>1
    <3>2. CASE ~answer[best].flv
      <4>1. flv = {} /\ \A j \in usable: ~(j \in 1 .. best - 1)
        BY <1>1, <2>1, <3>2 DEF IsBestOf
      <4> QED BY <2>1, <3>2, <4>1
    <3> QED BY <3>1, <3>2
  <2>3. S \subseteq Nat
    OBVIOUS
  <2> HIDE DEF S
  <2>4. best = CHOOSE i \in S: \A j \in S: i <= j
    <3>1. \A i \in S: (\A j \in S: i <= j) => i = best
      BY <2>2, <2>3
    <3> QED BY <2>2, <3>1
  <2> QED BY <1>3, <2>4 DEF BestAddress, S, best
<1> QED BY <1>2, <1>3

-----------------------------------------------------------------------------
(***************************************************************************)
(* What is stored, asked and resolved.                                     *)
(***************************************************************************)

\* The answer kept is one to the question the stored page asked.
SiteIsSound ==
    /\ row = None => site = None
    /\ row # None /\ row.provider = "bilibili" /\ row.url.room
         => site \in {None} \cup LiveAnswers

StoredInv == TypeOK /\ SiteIsSound

LEMMA StoredInit == Init => StoredInv
  BY ErrorsAreNoResults DEF Init, StoredInv, TypeOK, SiteIsSound

\* A URL without its leading blank is a URL of the same kind.
LEMMA TrimmedIsUrl ==
    ASSUME NEW u \in Urls
    PROVE  /\ Trimmed(u) \in Urls
           /\ Trimmed(u).room = u.room
<1>1. u \in Url
  BY UrlsAreUrls
<1>2. /\ Trimmed(u) \in Url
      /\ Trimmed(u).scheme = u.scheme /\ Trimmed(u).host = u.host
      /\ Trimmed(u).room = u.room /\ Trimmed(u).video = u.video
      /\ Trimmed(u).number = u.number /\ Trimmed(u).parses = u.parses
      /\ Trimmed(u).embedded = u.embedded
  BY <1>1 DEF Url, Trimmed
<1>3. CASE u = Blank
  <2>1. Blank = [Blank EXCEPT !.padded = FALSE]
    <3>1. Blank \in Url /\ Blank.padded = FALSE
      BY DEF Blank, Url
    <3>2. \A v \in Url: v.padded = FALSE => v = [v EXCEPT !.padded = FALSE]
      BY DEF Url
    <3> QED BY <3>1, <3>2
  <2> QED BY <1>3, <2>1 DEF Trimmed
<1>4. CASE u # Blank
  BY <1>2, <1>4 DEF Urls
<1> QED BY <1>2, <1>3, <1>4

\* Whatever is stored has a type BuildArgs knows.
LEMMA TypeIsKnown ==
    ASSUME NEW r \in Requests, Acceptable(r)
    PROVE  TypeOf(r) \in SourceTypes \ {"auto"}
<1>1. CASE ProviderOf(r) = ""
  BY <1>1, TypeIsDerived
<1>2. CASE ProviderOf(r) # ""
  BY <1>2 DEF TypeOf, SourceTypes
<1> QED BY <1>1, <1>2

LEMMA CreateKeepsStored ==
    ASSUME IInv, StoredInv, NEW r \in Requests, CreateStream(r)
    PROVE  StoredInv'
<1>1. /\ row = None /\ Acceptable(r) /\ UNCHANGED <<cached, site, media, args>>
      /\ row' = [url |-> Trimmed(r.url), type |-> TypeOf(r),
                 provider |-> ProviderOf(r), live |-> IsLive(TypeOf(r))]
  BY DEF CreateStream
<1>2. r.url \in Urls /\ r.provider \in {"", "bilibili", "douyu", "unknown"}
  BY DEF Requests
<1>3. ProviderOf(r) \in {"", "bilibili", "douyu"}
  BY <1>1, <1>2 DEF Acceptable, ProviderOf, DetectFromURL
<1>4. TypeOK'
  <2>1. Trimmed(r.url) \in Urls /\ TypeOf(r) \in SourceTypes \ {"auto"}
    BY <1>1, <1>2, TrimmedIsUrl, TypeIsKnown
  <2>2. IsLive(TypeOf(r)) \in BOOLEAN
    BY DEF IsLive
  <2> QED BY <1>1, <1>3, <2>1, <2>2 DEF StoredInv, TypeOK
<1>5. SiteIsSound'
  <2>1. media' = None
    BY <1>1 DEF IInv, MediaIsSound
  <2> QED BY <1>1, <2>1, ErrorsAreNoResults DEF StoredInv, SiteIsSound
<1> QED BY <1>4, <1>5 DEF StoredInv

\* What the resolvers return.
LEMMA ResolvedIsTyped ==
    ASSUME NEW u, NEW answer
    PROVE  /\ DouyuResolve(u, answer) \in {Failed} \cup Results
           /\ (u.room \in BOOLEAN /\ u.video \in BOOLEAN) =>
                 BilibiliResolve(u, answer) \in {Failed} \cup Results
<1>1. \A h, l \in BOOLEAN: /\ Result("http", h, l) \in Results
                            /\ Result("other", h, l) \in Results
  BY DEF Result, Results
<1>2. DouyuResolve(u, answer) \in {Failed} \cup Results
  BY <1>1 DEF DouyuResolve, Kind
<1>3. /\ resolveLive(answer) \in {Failed} \cup Results
      /\ resolveVideo(answer) \in {Failed} \cup Results
  BY <1>1 DEF resolveLive, resolveVideo, Kind
<1>4. u.room \in BOOLEAN /\ u.video \in BOOLEAN =>
        BilibiliResolve(u, answer) \in {Failed} \cup Results
  BY <1>3 DEF BilibiliResolve, AsksRoom
<1> QED BY <1>2, <1>4

LEMMA PrepareKeepsStored ==
    ASSUME StoredInv, Prepare
    PROVE  StoredInv'
<1>1. row # None /\ IsVod(row) /\ UNCHANGED <<row, media, args>>
  BY DEF Prepare
<1>2. cached' \in BOOLEAN
  BY DEF Prepare
<1>3. row.provider = "bilibili" /\ ~row.url.room
  BY <1>1 DEF IsVod, IsBilibiliVODURL
<1> QED BY <1>1, <1>2, <1>3 DEF StoredInv, TypeOK, SiteIsSound

LEMMA ResolveKeepsStored ==
    ASSUME StoredInv, Resolve
    PROVE  StoredInv'
<1>1. row # None /\ media = None /\ UNCHANGED <<row, cached, args>>
  BY DEF Resolve
<1>2. /\ row.url.room \in BOOLEAN /\ row.url.video \in BOOLEAN
      /\ row.provider \in {"", "bilibili", "douyu"}
  BY <1>1, UrlsAreUrls DEF StoredInv, TypeOK, Url
<1>3. CASE IsVod(row) /\ media' = Result("cache", FALSE, FALSE)
           /\ UNCHANGED site
  <2>1. row.provider = "bilibili" /\ ~row.url.room
    BY <1>3 DEF IsVod, IsBilibiliVODURL
  <2>2. media' \in Results
    BY <1>3 DEF Result, Results
  <2> QED BY <1>1, <1>3, <2>1, <2>2 DEF StoredInv, TypeOK, SiteIsSound
<1>4. ASSUME row.provider = "bilibili", NEW answer \in BilibiliAnswers(row.url),
             site' = answer, media' = BilibiliResolve(row.url, answer)
      PROVE  StoredInv'
  <2>1. row.url.room => answer \in LiveAnswers
    BY <1>2, <1>4 DEF BilibiliAnswers, AsksRoom
  <2>2. media' \in {Failed} \cup Results
    BY <1>2, <1>4, ResolvedIsTyped
  <2> QED BY <1>1, <1>4, <2>1, <2>2 DEF StoredInv, TypeOK, SiteIsSound
<1>5. ASSUME row.provider = "douyu", NEW answer \in DouyuSays(row.url),
             site' = answer, media' = DouyuResolve(row.url, answer)
      PROVE  StoredInv'
  <2>1. row.url.number => answer \in DouyuAnswers
    BY <1>5 DEF DouyuSays
  <2>2. media' \in {Failed} \cup Results
    BY <1>5, ResolvedIsTyped
  <2> QED BY <1>1, <1>5, <2>1, <2>2 DEF StoredInv, TypeOK, SiteIsSound
<1> QED BY <1>3, <1>4, <1>5 DEF Resolve

LEMMA StoredStep == IInv /\ StoredInv /\ [Next]_vars => StoredInv'
<1> SUFFICES ASSUME IInv, StoredInv, [Next]_vars PROVE StoredInv'
  OBVIOUS
<1>1. CASE BuildArgs
  BY <1>1 DEF BuildArgs, StoredInv, TypeOK, SiteIsSound
<1>2. CASE RunEnds
  BY <1>2, ErrorsAreNoResults DEF RunEnds, StoredInv, TypeOK, SiteIsSound
<1>3. CASE UNCHANGED vars
  BY <1>3 DEF vars, StoredInv, TypeOK, SiteIsSound
<1> QED
  BY <1>1, <1>2, <1>3, CreateKeepsStored, PrepareKeepsStored,
     ResolveKeepsStored DEF Next

LEMMA StoredInvariance == Spec => []StoredInv
  BY StoredInit, StoredStep, Invariance, PTL DEF Spec

\* No type is stored that BuildArgs does not know.
THEOREM TypeCorrect == Spec => []TypeOK
<1>1. StoredInv => TypeOK
  BY DEF StoredInv
<1> QED BY <1>1, StoredInvariance, PTL

\* Of the addresses a live room returned, however many, the loop finds the
\* first FLV/AVC one, else the first usable one.
THEOREM RoomsGetTheBestAddress == Spec => []BestAddressIsChosen
<1>1. ASSUME NEW answer \in LiveAnswers PROVE Len(answer) \in Nat
  <2>1. PICK n \in 0 .. MaxUrls: answer \in [1 .. n -> Addresses]
    BY DEF LiveAnswers, SeqOf
  <2>2. n \in Nat
    BY <2>1, SomeUrls
  <2> QED BY <2>1, <2>2
<1>2. StoredInv => BestAddressIsChosen
  BY <1>1, SelectFindsTheBest DEF StoredInv, SiteIsSound, BestAddressIsChosen
<1> QED BY <1>2, StoredInvariance, PTL
=============================================================================

----------------------------- MODULE Extraction -----------------------------
(***************************************************************************)
(* The extraction engine (src/internal/extract): from one message to the   *)
(* one-time codes and the links in it.                                     *)
(*                                                                         *)
(* Text is a sequence of symbols, after the NFC normalization that Extract *)
(* begins with.  A symbol is a character, or a word that the engine looks  *)
(* for ("code", "verify", "://"), and takes one position whatever its      *)
(* length in bytes: the windows are parameters.  An HTML body is what the  *)
(* tokenizer hands over, a sequence of text, start tag and end tag tokens; *)
(* scanHTML reads it one token per step, and the last step does the rest   *)
(* of Extract, a pure function of what was read.                           *)
(***************************************************************************)
EXTENDS Integers, Sequences, SequencesExt, FiniteSetsExt

CONSTANTS
    ContextWord,    \* otpContextWords, each a sequence of symbols
    Year,           \* the codes between 1900 and 2099, of MinOTPLen digits
    MinOTPLen, SixDigits, MaxOTPLen,    \* 4, 6 and 8 in the code
    LeadingWindow, NearWindow, MediumWindow, FarWindow, ContextWindow

ASSUME WindowsNested ==
    /\ {LeadingWindow, NearWindow, MediumWindow, FarWindow, ContextWindow} \subseteq Nat
    /\ LeadingWindow <= NearWindow /\ NearWindow < MediumWindow /\ MediumWindow < FarWindow

ASSUME CodeLengths ==
    /\ {MinOTPLen, SixDigits, MaxOTPLen} \subseteq Nat
    /\ 0 < MinOTPLen /\ MinOTPLen < SixDigits /\ SixDigits < MaxOTPLen
    /\ \A y \in Year : Len(y) = MinOTPLen

VARIABLES
    msg,        \* the message being read
    next,       \* the token the tokenizer is at
    hrefs,      \* the hrefs so far: [url, anchor]
    visible,    \* the text builder of the document
    open,       \* the open anchor: [at, anchor], at = 0 for none
    rawTextDepth, pendingBreak,
    result      \* <<>>, then <<Result>>

vars == <<msg, next, hrefs, visible, open, rawTextDepth, pendingBreak, result>>

-----------------------------------------------------------------------------
(***************************************************************************)
(* Symbols.  One stands for each class the code tells apart: "." and ","   *)
(* for all that ends a sentence, " " for all that ends a URL, two of the   *)
(* three kinds of brackets, "/" for what ends a host.                      *)
(***************************************************************************)
Digit == {"1", "2", "9"}

\* The words of the keyword lists, in folded form.  "passwordless" holds
\* "password" as well.
magicStrongWords == {"magiclink", "passwordless"}
resetStrongWords == {"reset"}
verifyWords      == {"verify"}
magicWeakWords   == {"login"}
resetWeakWords   == {"password", "passwordless"}

Letter == {"a", "b", "http", "code", "xac", "www", "WWW", "accent", "Verify"}
          \cup magicStrongWords \cup resetStrongWords \cup verifyWords
          \cup magicWeakWords \cup resetWeakWords

isWordRune(c) == c \in Letter \cup Digit

\* The bytes a scheme is made of; an accented letter is not among them.
isSchemeByte(c) == c \in (Letter \ {"accent"}) \cup Digit \cup {"."}

isURLTerminator(c) == c \in {" ", "nl"}

Opener == [c \in {")", "]"} |-> IF c = ")" THEN "(" ELSE "["]
SentenceEnd == {".", ","}

Symbol == Letter \cup Digit \cup SentenceEnd \cup DOMAIN Opener \cup {Opener[c] : c \in DOMAIN Opener}
          \cup {"://", "/", "@", " ", "nl", "mark"}

\* The word list is one literal in the source.
ASSUME WordList == IsFiniteSet(ContextWord) /\ ContextWord \subseteq Seq(Symbol)

\* fold: lower case, accents taken off, combining marks dropped.
FoldSymbol(c) ==
    CASE c = "WWW" -> "www" [] c = "Verify" -> "verify" [] c = "accent" -> "a" [] OTHER -> c

fold(s) ==
    LET b[n \in 0..Len(s)] ==
            IF n = 0 THEN <<>>
            ELSE IF s[n] = "mark" THEN b[n - 1] ELSE Append(b[n - 1], FoldSymbol(s[n]))
    IN  b[Len(s)]

-----------------------------------------------------------------------------
(***************************************************************************)
(* Spans, half open: [start, end).                                         *)
(***************************************************************************)
Span(i, j) == [start |-> i, end |-> j]

Slice(s, at) == SubSeq(s, at.start, at.end - 1)

\* What a sort makes of a set, given what comes before each of its elements: at
\* place k the one with k - 1 before it.
Arranged(set, before) ==
    [k \in 1..Cardinality(set) |-> CHOOSE x \in set : Cardinality(before[x]) = k - 1]

Ascending(spans) == Arranged(spans, [a \in spans |-> {b \in spans : b.start < a.start}])

\* A span goes behind the last one, or is coalesced into it when it reaches it.
Coalesce(out, s) ==
    IF out = <<>> \/ s.start > Last(out).end THEN Append(out, s)
    ELSE [out EXCEPT ![Len(out)].end = Max({@, s.end})]

\* mergeSpans: the sorted spans, coalesced one by one.
mergeSpans(spans) ==
    LET sorted == Ascending(spans)
        out[k \in 0..Len(sorted)] == IF k = 0 THEN <<>> ELSE Coalesce(out[k - 1], sorted[k])
    IN  out[Len(sorted)]

\* inSpans: only the first span that ends after s begins is looked at.
inSpans(sorted, s) ==
    LET after == {i \in DOMAIN sorted : sorted[i].end > s.start}
    IN  after # {} /\ sorted[Min(after)].start < s.end

isWordBoundary(s, at) ==
    /\ at.start > 1 => ~isWordRune(s[at.start - 1])
    /\ at.end <= Len(s) => ~isWordRune(s[at.end])

\* findWords: the occurrences of the words as whole words.
findWords(s, words) ==
    LET At(w) == {i \in 1..Len(s) : i + Len(w) <= Len(s) + 1 /\ SubSeq(s, i, i + Len(w) - 1) = w}
    IN  {at \in UNION {{Span(i, i + Len(w)) : i \in At(w)} : w \in words} : isWordBoundary(s, at)}

-----------------------------------------------------------------------------
(***************************************************************************)
(* URLs in text.                                                           *)
(***************************************************************************)
\* The first position from i on that no URL continues over.
TokenEnd(s, i) == Min({j \in i..Len(s) : isURLTerminator(s[j])} \cup {Len(s) + 1})

\* Both scanners go on behind the token in which they found their mark: of
\* the positions At they see the first of every token.
FirstOfToken(s, At) == {i \in At : \A j \in At : j < i => TokenEnd(s, j) < i}

\* How often c occurs among the first n symbols.
Occurs(s, n, c) == Cardinality({i \in 1..n : s[i] = c})

\* trimURLTail's locals before its loop: what is left of the URL, and how many
\* closing brackets are in it.
Tallied(raw) == [len |-> Len(raw), closers |-> [c \in DOMAIN Opener |-> Occurs(raw, Len(raw), c)]]

\* The tally of closers not kept up to date.
TrimRoundStale(raw, st, n) ==
    IF st.len = n /\ (raw[n] \in SentenceEnd
                       \/ (raw[n] \in DOMAIN Opener /\ Occurs(raw, Len(raw), Opener[raw[n]]) < st.closers[raw[n]]))
    THEN [st EXCEPT !.len = n - 1] ELSE st

\* A round of the loop, which has come to symbol n or has returned: drops what
\* ends the sentence, and a closing bracket without an opener.
TrimRound(raw, st, n) ==
    IF st.len # n THEN st
    ELSE IF raw[n] \in SentenceEnd THEN [st EXCEPT !.len = n - 1]
    ELSE IF raw[n] \in DOMAIN Opener /\ Occurs(raw, Len(raw), Opener[raw[n]]) < st.closers[raw[n]]
    THEN [len |-> n - 1, closers |-> [st.closers EXCEPT ![raw[n]] = @ - 1]]
    ELSE st

\* trimURLTail: from the last symbol to the first.
trimURLTail(raw) ==
    LET st[k \in 0..Len(raw)] ==
            IF k = 0 THEN Tallied(raw) ELSE TrimRound(raw, st[k - 1], Len(raw) + 1 - k)
    IN  SubSeq(raw, 1, st[Len(raw)].len)

\* What is reported of the text from start to the end of its token.
URLFrom(s, start, end) == Span(start, start + Len(trimURLTail(SubSeq(s, start, end - 1))))

\* findSchemeURLs: around the first "://" of a token, with a scheme before it.
findSchemeURLs(s) ==
    LET Start(m) == Max({j \in 1..(m - 1) : ~isSchemeByte(s[j])} \cup {0}) + 1
        Marks == {m \in FirstOfToken(s, {i \in DOMAIN s : s[i] = "://"}) : Start(m) # m}
    IN  {URLFrom(s, Start(m), TokenEnd(s, m)) : m \in Marks}

\* startsToken: whether the position begins a word.
startsToken(s, at) == at = 1 \/ ~(isWordRune(s[at - 1]) \/ s[at - 1] \in {".", "@"})

\* isBareHost: "www." and a host of at least one more label.
isBareHost(raw) ==
    LET rest == SubSeq(raw, 3, Min({i \in 3..Len(raw) : raw[i] \in {"/", "://"}} \cup {Len(raw) + 1}) - 1)
    IN  rest # <<>> /\ rest[1] # "." /\ Contains(rest, ".")

\* The exclusion forgotten.
BareHostURLsAnywhere(s, exclude) ==
    LET Prefix(i) == s[i] \in {"www", "WWW"} /\ i < Len(s) /\ s[i + 1] = "."
        Starts == {i \in FirstOfToken(s, {j \in DOMAIN s : Prefix(j)}) : startsToken(s, i)}
    IN  {at \in {URLFrom(s, i, TokenEnd(s, i)) : i \in Starts} : isBareHost(Slice(s, at))}

\* findBareHostURLs: from the first "www." of a token, outside the URLs that
\* have a scheme.
findBareHostURLs(s, exclude) ==
    LET Prefix(i) == s[i] \in {"www", "WWW"} /\ i < Len(s) /\ s[i + 1] = "."
        Starts == {i \in FirstOfToken(s, {j \in DOMAIN s : Prefix(j)}) :
                        startsToken(s, i) /\ ~inSpans(exclude, Span(i, TokenEnd(s, i)))}
    IN  {at \in {URLFrom(s, i, TokenEnd(s, i)) : i \in Starts} : isBareHost(Slice(s, at))}

\* findPlainURLs, in the order they appear.
findPlainURLs(s) ==
    LET scheme == findSchemeURLs(s)
    IN  Ascending(scheme \cup findBareHostURLs(s, Ascending(scheme)))

-----------------------------------------------------------------------------
(***************************************************************************)
(* Links.                                                                  *)
(***************************************************************************)
\* The rules of classify, in the order in which they apply.
ClassifyRules == <<<<"magic", magicStrongWords>>, <<"reset", resetStrongWords>>, <<"verify", verifyWords>>,
                   <<"magic", magicWeakWords>>, <<"reset", resetWeakWords>>>>

\* classify: by the first rule with a word in the URL or the text around it.
classify(url, anchor) ==
    LET hay == ToSet(fold(url)) \cup ToSet(fold(anchor))
        applying == {i \in DOMAIN ClassifyRules : hay \cap ClassifyRules[i][2] # {}}
    IN  IF applying = {} THEN "other" ELSE ClassifyRules[Min(applying)][1]

\* actionable: http or https, and a host.
actionable(url) == Len(url) > 2 /\ url[1] = "http" /\ url[2] = "://" /\ url[3] # "/"

\* lineIndex.around: the line of a URL, within the context window.
around(s, at) ==
    LET line == Max({i \in 1..(at.start - 1) : s[i] = "nl"} \cup {0}) + 1
        end  == Min({i \in at.end..Len(s) : s[i] = "nl"} \cup {Len(s) + 1})
    IN  Slice(s, Span(Max({line, at.start - ContextWindow}), Min({end, at.end + ContextWindow})))

\* The kind of the last occurrence that says anything.
AddLinkLastKind(links, raw) ==
    LET kind == classify(raw.url, raw.anchor)
        seen == {i \in DOMAIN links : links[i].url = raw.url}
    IN  CASE raw.url = <<>> -> links
          [] raw.url # <<>> /\ seen = {} ->
                Append(links, [url |-> raw.url, kind |-> kind, actionable |-> actionable(raw.url)])
          [] OTHER -> [i \in DOMAIN links |->
                IF i \in seen /\ kind # "other" THEN [links[i] EXCEPT !.kind = kind]
                ELSE links[i]]

\* collectLinks' add: one link for each URL; a later occurrence may say what
\* the first did not.
AddLink(links, raw) ==
    LET kind == classify(raw.url, raw.anchor)
        seen == {i \in DOMAIN links : links[i].url = raw.url}
    IN  CASE raw.url = <<>> -> links
          [] raw.url # <<>> /\ seen = {} ->
                Append(links, [url |-> raw.url, kind |-> kind, actionable |-> actionable(raw.url)])
          [] OTHER -> [i \in DOMAIN links |->
                IF i \in seen /\ links[i].kind = "other" THEN [links[i] EXCEPT !.kind = kind]
                ELSE links[i]]

\* The occurrences of links: the hrefs, then the URLs spelled out.
RawLinks(found, plain) ==
    LET urls == findPlainURLs(plain)
    IN  found \o [i \in DOMAIN urls |-> [url |-> Slice(plain, urls[i]), anchor |-> around(plain, urls[i])]]

collectLinks(found, plain) ==
    LET raws == RawLinks(found, plain)
        links[k \in 0..Len(raws)] == IF k = 0 THEN <<>> ELSE AddLink(links[k - 1], raws[k])
    IN  links[Len(raws)]

\* verifyLinkBest: the first verify link one may open, else the first magic
\* one, else the empty URL.
verifyLinkBest(links) ==
    LET Of(kind) == {i \in DOMAIN links : links[i].actionable /\ links[i].kind = kind}
    IN  IF Of("verify") # {} THEN links[Min(Of("verify"))].url
        ELSE IF Of("magic") # {} THEN links[Min(Of("magic"))].url ELSE <<>>

-----------------------------------------------------------------------------
(***************************************************************************)
(* One-time codes.                                                         *)
(***************************************************************************)
\* digitRuns: the maximal runs of digits that no letter touches.
digitRuns(s) ==
    LET D == {i \in DOMAIN s : s[i] \in Digit}
        Runs == {Span(i, Min({j \in (i + 1)..(Len(s) + 1) : j \notin D})) : i \in {k \in D : k - 1 \notin D}}
    IN  {at \in Runs : isWordBoundary(s, at)}

maxContextWordLen == Max({Len(w) : w \in ContextWord} \cup {0})

\* Searched by the start of a word as if words had no length.
NeighborhoodByStart(at, words) ==
    {w \in words : w.start >= at.start - FarWindow /\ w.start <= at.end + FarWindow}

\* The part of the sorted words that scoreCandidate walks: from the binary
\* search to the break.
Neighborhood(at, words) ==
    {w \in words : /\ w.start >= at.start - FarWindow - maxContextWordLen
                   /\ w.start <= at.end + FarWindow}

\* Distance of a word from the digits; zero should they overlap.
Distance(at, w) ==
    IF w.end <= at.start THEN at.start - w.end
    ELSE IF w.start >= at.end THEN w.start - at.end ELSE 0

\* A penalty that only takes the best proximity away.
PenaltyNear == -100

penaltyYear == -120

\* The score of a code at a place, given the words that count.
Score(code, at, words) ==
    LET Within(n) == \E w \in words : Distance(at, w) <= n
        leading == \E w \in words : w.end <= at.start /\ Distance(at, w) <= LeadingWindow
    IN  (IF Within(NearWindow) THEN 100 ELSE IF Within(MediumWindow) THEN 60
         ELSE IF Within(FarWindow) THEN 30 ELSE 0)
        + (IF leading THEN 15 ELSE 0)
        + (CASE Len(code) = SixDigits -> 10 [] Len(code) = MaxOTPLen -> 4 [] OTHER -> 0)
        + (IF code \in Year THEN penaltyYear ELSE 0)

scoreCandidate(code, at, words) == Score(code, at, Neighborhood(at, words))

\* The scan before bare hosts were links: only URLs with a scheme.
URLSpansScheme(folded) == findSchemeURLs(folded)

\* urlSpans: the same scanner, on the folded text.
urlSpans(folded) == ToSet(findPlainURLs(folded))

\* The digit runs that may be a code.
Eligible(folded) ==
    {at \in digitRuns(folded) : /\ at.end - at.start \in MinOTPLen..MaxOTPLen
                                /\ ~inSpans(mergeSpans(urlSpans(folded)), at)}

\* The order of two occurrences: by score, then by position.
Precedes(a, b) == a.score > b.score \/ (a.score = b.score /\ a.pos < b.pos)

Occurrences(folded) ==
    LET words == findWords(folded, ContextWord)
    IN  {[code |-> Slice(folded, at), pos |-> at.start,
          score |-> scoreCandidate(Slice(folded, at), at, words)] : at \in Eligible(folded)}

\* The occurrences, ranked.
Found(folded) ==
    LET all == Occurrences(folded)
    IN  Arranged(all, [o \in all |-> {x \in all : Precedes(x, o)}])

\* Repeats taken out as they are found, before the ranking.
CandidatesFirstSeen(folded) ==
    LET ranked == Found(folded)
    IN  SelectSeq(ranked, LAMBDA c : \A i \in DOMAIN ranked : ranked[i].code = c.code => c.pos <= ranked[i].pos)

\* A code seen before is passed over.
Keep(out, c) == IF \E i \in DOMAIN out : out[i].code = c.code THEN out ELSE Append(out, c)

\* otpCandidates: of every code its first occurrence in the ranking.
otpCandidates(folded) ==
    LET found == Found(folded)
        out[k \in 0..Len(found)] == IF k = 0 THEN <<>> ELSE Keep(out[k - 1], found[k])
    IN  out[Len(found)]

\* The rest of Extract: what the message yields.
Extracted(subject, text, found, seen) ==
    LET plain == subject \o <<"nl">> \o text \o <<"nl">> \o seen
        candidates == otpCandidates(fold(plain))
        links == collectLinks(found, plain)
        positive == {i \in DOMAIN candidates : candidates[i].score > 0}
    IN  [otpBest |-> IF positive = {} THEN <<>> ELSE candidates[Min(positive)].code,
         otpCandidates |-> [i \in DOMAIN candidates |-> candidates[i].code],
         links |-> links,
         verifyLinkBest |-> verifyLinkBest(links)]

-----------------------------------------------------------------------------
(***************************************************************************)
(* scanHTML, one token per step.                                           *)
(***************************************************************************)
Tag == {"a", "area", "b", "p", "script"}

\* "p" stands for the elements whose boundary a reader sees, "script" for
\* script and style.
separatingTags == {"p"}
separatesText(tag) == tag \in separatingTags

NoAnchor == [at |-> 0, anchor |-> <<>>]

\* The messages: texts, and what the tokenizer makes of the HTML body.
HTMLToken == [kind : {"text"}, data : Seq(Symbol) \ {<<>>}] \cup [kind : {"start"}, tag : Tag, href : Seq(Symbol)]
             \cup [kind : {"end"}, tag : Tag]

\* Nothing but text follows a script's start tag, until its end tag.
Tokenized(d) ==
    LET Script(i, kind) == d[i].kind = kind /\ d[i].tag = "script"
    IN  \A j, k \in DOMAIN d :
            (j < k /\ Script(j, "start") /\ \A i \in j..(k - 1) : ~Script(i, "end"))
                => d[k].kind = "text" \/ Script(k, "end")

Message == {m \in [subject : Seq(Symbol), text : Seq(Symbol), html : Seq(HTMLToken)] : Tokenized(m.html)}

\* The engine handed a message.
Begin(m) ==
    /\ msg = m
    /\ next = 1
    /\ hrefs = <<>> /\ visible = <<>>
    /\ open = NoAnchor
    /\ rawTextDepth = 0 /\ pendingBreak = FALSE
    /\ result = <<>>

Init == \E m \in Message : Begin(m)

\* The current token, read by a step.
Token(kind) ==
    /\ next <= Len(msg.html)
    /\ msg.html[next].kind = kind
    /\ next' = next + 1

\* closeAnchor: the open anchor's text goes to its href.
Closed == IF open.at = 0 THEN hrefs ELSE [hrefs EXCEPT ![open.at].anchor = open.anchor]

TextToken ==
    /\ Token("text")
    /\ LET chunk == msg.html[next].data
           Glue(s, c) == IF pendingBreak /\ s # <<>> THEN s \o <<c>> \o chunk ELSE s \o chunk
       IN  IF rawTextDepth > 0 THEN UNCHANGED <<visible, open, pendingBreak>>
           ELSE /\ visible' = Glue(visible, "nl")
                /\ open' = IF open.at = 0 THEN open ELSE [open EXCEPT !.anchor = Glue(@, " ")]
                /\ pendingBreak' = FALSE
    /\ UNCHANGED <<msg, hrefs, rawTextDepth, result>>

\* Start tags, self-closing or not.
StartTagToken ==
    /\ Token("start")
    /\ LET tag == msg.html[next].tag
           href == msg.html[next].href
       IN  /\ pendingBreak' = (pendingBreak \/ separatesText(tag))
           /\ rawTextDepth' = IF tag = "script" THEN rawTextDepth + 1 ELSE rawTextDepth
           /\ IF tag = "a"
              THEN /\ hrefs' = Append(Closed, [url |-> href, anchor |-> <<>>])
                   /\ open' = [at |-> Len(hrefs) + 1, anchor |-> <<>>]
              ELSE /\ hrefs' = IF tag # "script" /\ href # <<>>
                               THEN Append(hrefs, [url |-> href, anchor |-> <<>>]) ELSE hrefs
                   /\ UNCHANGED open
    /\ UNCHANGED <<msg, visible, result>>

\* A stray end tag counted as well.
DepthAfterAny(tag) == IF tag = "script" THEN rawTextDepth - 1 ELSE rawTextDepth

\* How an end tag changes the depth of script and style elements.
DepthAfter(tag) == IF tag = "script" /\ rawTextDepth > 0 THEN rawTextDepth - 1 ELSE rawTextDepth

EndTagToken ==
    /\ Token("end")
    /\ LET tag == msg.html[next].tag
       IN  /\ pendingBreak' = (pendingBreak \/ separatesText(tag))
           /\ rawTextDepth' = DepthAfter(tag)
           /\ hrefs' = IF tag = "a" THEN Closed ELSE hrefs
           /\ open' = IF tag = "a" THEN NoAnchor ELSE open
    /\ UNCHANGED <<msg, visible, result>>

\* The end of the markup: the open anchor keeps its text, and Extract goes on
\* with what was read.
ErrorToken ==
    /\ result = <<>> /\ next > Len(msg.html)
    /\ hrefs' = Closed
    /\ open' = NoAnchor
    /\ result' = <<Extracted(msg.subject, msg.text, Closed, visible)>>
    /\ UNCHANGED <<msg, next, visible, rawTextDepth, pendingBreak>>

Next == TextToken \/ StartTagToken \/ EndTagToken \/ ErrorToken

Spec == Init /\ [][Next]_vars

-----------------------------------------------------------------------------
(***************************************************************************)
(* Properties of a finished extraction.                                    *)
(***************************************************************************)
Done == result # <<>>
Res  == result[1]

\* The joined text every later stage reads.
Plain == msg.subject \o <<"nl">> \o msg.text \o <<"nl">> \o visible

Href == [url : Seq(Symbol), anchor : Seq(Symbol)]

\* scanHTML's locals: among others, the open anchor is an entry of hrefs and
\* the script depth never falls below zero.
ScanTypeOK ==
    /\ msg \in Message
    /\ next \in 1..(Len(msg.html) + 1)
    /\ hrefs \in Seq(Href)
    /\ visible \in Seq(Symbol)
    /\ open \in [at : 0..Len(hrefs), anchor : Seq(Symbol)]
    /\ rawTextDepth \in Nat
    /\ pendingBreak \in BOOLEAN

\* What a reader sees of document d: its text tokens outside scripts.
Seen(d) == {k \in DOMAIN d :
               /\ d[k].kind = "text"
               /\ LET scripts == {j \in 1..(k - 1) : d[j].kind # "text" /\ d[j].tag = "script"}
                  IN  scripts = {} \/ d[Max(scripts)].kind = "end"}

\* Token k comes behind another of tokens, and a visible boundary parts it from
\* all of those.
Parted(d, tokens, k) ==
    /\ \E j \in tokens : j < k
    /\ \E i \in 1..(k - 1) : /\ d[i].kind # "text" /\ separatesText(d[i].tag)
                            /\ \A j \in tokens : j < k => j < i

\* The text tokens of a set, up to one of them, joined with the glue where they
\* are parted.
Rendered(d, tokens, glue, upto) ==
    LET text[k \in 0..Len(d)] ==
            IF k = 0 THEN <<>>
            ELSE IF k \notin tokens THEN text[k - 1]
            ELSE IF Parted(d, tokens, k) THEN text[k - 1] \o <<glue>> \o d[k].data
            ELSE text[k - 1] \o d[k].data
    IN  text[upto]

\* The text of the anchor that token k opens: up to the next anchor tag.
AnchorText(d, k) ==
    LET ends == {j \in (k + 1)..Len(d) : d[j].kind # "text" /\ d[j].tag = "a"}
        last == IF ends = {} THEN Len(d) ELSE Min(ends)
    IN  Rendered(d, {j \in Seen(d) : j > k}, " ", last)

\* The tokens with an href to report, and which of them one is.
Linking(d) ==
    {k \in DOMAIN d : /\ d[k].kind = "start"
                      /\ d[k].tag = "a" \/ (d[k].tag # "script" /\ d[k].href # <<>>)}

Rank(d, k) == Cardinality({j \in Linking(d) : j <= k})

\* scanHTML reports what a reader sees: text outside scripts, parted exactly
\* where a visible boundary parts it, and every href in document order, each
\* anchor with its own text, however the tags nest or fail to close.
SeenAsRendered ==
    Done => LET d == msg.html
            IN  /\ visible = Rendered(d, Seen(d), "nl", Len(d))
                /\ Len(hrefs) = Cardinality(Linking(d))
                /\ \A k \in Linking(d) :
                      hrefs[Rank(d, k)] = [url |-> d[k].href,
                                           anchor |-> IF d[k].tag = "a" THEN AnchorText(d, k) ELSE <<>>]

\* The URLs found in the text are not empty, in ascending order and apart, as
\* the binary searches over them need: "https://www.a.test/x" is one link.
PlainURLsApart ==
    Done => LET urls == findPlainURLs(Plain)
            IN  /\ \A i \in DOMAIN urls : urls[i].start < urls[i].end
                /\ \A i \in 1..(Len(urls) - 1) : urls[i].end <= urls[i + 1].start

\* What trimming leaves when the brackets are counted anew at every step.
Recounted(raw) ==
    LET Stays(n) == /\ raw[n] \notin SentenceEnd
                    /\ raw[n] \in DOMAIN Opener => Occurs(raw, n, Opener[raw[n]]) >= Occurs(raw, n, raw[n])
    IN  SubSeq(raw, 1, Max({n \in 1..Len(raw) : Stays(n)} \cup {0}))

\* trimURLTail's running tallies give what recounting the brackets would: a
\* closing bracket stays on a URL exactly when what remains has its opener.
TrimmedAsRecounted ==
    Done => \A i \in DOMAIN Plain :
                LET raw == SubSeq(Plain, i, TokenEnd(Plain, i) - 1)
                IN  trimURLTail(raw) = Recounted(raw)

\* Codes and links agree on what a URL is, although one scan reads the folded
\* text and the other the text as written.  The two may differ where folding
\* changes a symbol, in a text with accents.  It also does on symbols that the
\* model's alphabet leaves out, of which some fold to a URL terminator (U+226E
\* to "<").  In any other text, a run of digits of the right length is a
\* candidate exactly when some occurrence is outside every URL of the text, and
\* every one of those is a link reported.
CodesOutsideLinks ==
    (Done /\ ToSet(Plain) \cap {"accent", "mark"} = {}) =>
        LET folded == fold(Plain)
            urls == findPlainURLs(Plain)
            Outside(at) == \A i \in DOMAIN urls : at.end <= urls[i].start \/ urls[i].end <= at.start
            runs == {at \in digitRuns(folded) : at.end - at.start \in MinOTPLen..MaxOTPLen}
            reported == {Res.links[i].url : i \in DOMAIN Res.links}
        IN  /\ ToSet(Res.otpCandidates) = {Slice(folded, at) : at \in {x \in runs : Outside(x)}}
            /\ \A i \in DOMAIN urls : Slice(Plain, urls[i]) \in reported

\* The whole list of words scores every run of digits as its neighborhood does.
FullScanAgrees(folded) ==
    LET words == findWords(folded, ContextWord)
    IN  \A at \in digitRuns(folded) :
            scoreCandidate(Slice(folded, at), at, words) = Score(Slice(folded, at), at, words)

\* Scoring a candidate by the words in its neighborhood gives what walking
\* the whole list would: a word left out is too far away to score.
ScoredAsFullScan == Done => FullScanAgrees(fold(Plain))

\* A list with every code of the occurrences found, once, in the order of
\* their best scores and, for those, first places.
RankedCodes(found, codes) ==
    LET Best(c) == Max({o.score : o \in {x \in found : x.code = c}})
        At(c) == Min({o.pos : o \in {x \in found : x.code = c /\ x.score = Best(c)}})
    IN  /\ ToSet(codes) = {o.code : o \in found}
        /\ \A i, j \in DOMAIN codes : i < j =>
              \/ Best(codes[i]) > Best(codes[j])
              \/ (Best(codes[i]) = Best(codes[j]) /\ At(codes[i]) < At(codes[j]))

\* The candidates are the codes of the message, each once, ranked by the best
\* placed of its occurrences.
RankedByBest == Done => RankedCodes(Occurrences(fold(Plain)), Res.otpCandidates)

\* A number that looks like a year is never the code of a message, however
\* well it is placed.
NeverAYear == Done => Res.otpBest \notin Year

\* The occurrences of a URL among the first n, and what the first of them to
\* say anything says.
Naming(raws, n, u) == {i \in 1..n : raws[i].url = u}
Telling(raws, n, u) == {i \in Naming(raws, n, u) : classify(u, raws[i].anchor) # "other"}
KindOf(raws, n, u) ==
    IF Telling(raws, n, u) = {} THEN "other" ELSE classify(u, raws[Min(Telling(raws, n, u))].anchor)

\* Every URL is reported once, where it first appears, hrefs before text, with
\* the kind of the first occurrence that says what it is for; and the link to
\* open may be followed and is, by that kind, to verify or to sign in.
LinksOnce ==
    Done => LET raws == RawLinks(hrefs, Plain)
                First(u) == Min(Naming(raws, Len(raws), u))
                links == Res.links
            IN  /\ {links[i].url : i \in DOMAIN links} = {raws[i].url : i \in DOMAIN raws} \ {<<>>}
                /\ \A i, j \in DOMAIN links : i < j => First(links[i].url) < First(links[j].url)
                /\ \A i \in DOMAIN links : links[i].kind = KindOf(raws, Len(raws), links[i].url)
                /\ Res.verifyLinkBest # <<>> =>
                      /\ actionable(Res.verifyLinkBest)
                      /\ KindOf(raws, Len(raws), Res.verifyLinkBest) \in {"verify", "magic"}
=============================================================================

-------------------------- MODULE ExtractionProofs --------------------------
(***************************************************************************)
(* What the extraction engine guarantees for texts and documents of any    *)
(* length, any list of context words and any windows.                      *)
(*                                                                         *)
(* The shortcuts of the code are shown to be exact: the neighborhood that  *)
(* scoreCandidate walks, the one span that inSpans looks at, the tallies   *)
(* of brackets by which trimURLTail cuts, and the single pass of scanHTML  *)
(* with its count of open scripts, its pending break and its open anchor.  *)
(* So is what the result says: the codes and their order, the links and    *)
(* their kinds, and that the two agree on what a URL is.                   *)
(***************************************************************************)
EXTENDS Extraction, FiniteSetTheorems, TLAPS

-----------------------------------------------------------------------------
(* Least and largest members.                                              *)

\* A set of naturals with a member has a least one.
LEMMA LeastNat ==
    ASSUME NEW S \in SUBSET Nat, S # {}
    PROVE  Min(S) \in S /\ \A y \in S : Min(S) <= y
<1> DEFINE R == {ss \in Nat \X Nat : ss[1] < ss[2]}
<1>1. IsWellFoundedOn(R, Nat)
  BY NatLessThanWellFounded, Zenon DEF OpToRel
<1> HIDE DEF R
<1>2. PICK x \in S : \A y \in S : ~(<<y, x>> \in R)
  BY <1>1, WFMin, Zenon
<1>3. \A y \in S : x <= y
  <2> SUFFICES ASSUME NEW y \in S PROVE x <= y
    OBVIOUS
  <2>1. PICK a \in Nat, b \in Nat : a = x /\ b = y
    OBVIOUS
  <2>2. b < a => <<b, a>> \in R
    BY DEF R
  <2>3. ~(b < a)
    BY <1>2, <2>1, <2>2
  <2> QED
    BY <2>1, <2>3
<1> QED
  BY <1>3 DEF Min

\* A bounded set of naturals with a member has a largest one.
LEMMA LargestNat ==
    ASSUME NEW S \in SUBSET Nat, S # {}, NEW n \in Nat, \A y \in S : y <= n
    PROVE  Max(S) \in S /\ \A y \in S : y <= Max(S)
<1> DEFINE T == {k \in Nat : \E y \in S : k = n - y}
<1>1. T \in SUBSET Nat /\ T # {}
  <2>1. PICK y \in S : TRUE
    OBVIOUS
  <2>2. n - y \in Nat
    BY <2>1
  <2> QED
    BY <2>1, <2>2
<1> HIDE DEF T
<1>2. PICK k \in T : \A j \in T : k <= j
  BY <1>1, LeastNat
<1>3. PICK x \in S : k = n - x
  BY <1>2 DEF T
<1>4. \A y \in S : x >= y
  <2> SUFFICES ASSUME NEW y \in S PROVE x >= y
    OBVIOUS
  <2>1. PICK a \in Nat, b \in Nat : a = x /\ b = y /\ a <= n /\ b <= n
    OBVIOUS
  <2>2. n - b \in T
    BY <2>1 DEF T
  <2>3. n - a <= n - b
    BY <1>2, <1>3, <2>1, <2>2
  <2> QED
    BY <2>1, <2>3
<1>5. Max(S) \in S /\ \A y \in S : Max(S) >= y
  BY <1>4, Zenon DEF Max
<1> QED
  BY <1>5

-----------------------------------------------------------------------------
(* Loops.  A set takes the place of the predicate in an induction, and a   *)
(* function the place of the body of a loop.                               *)

\* What holds at first, and at k when it held at k - 1, holds throughout.
LEMMA Induct ==
    ASSUME NEW n \in Nat, NEW G, 0 \in G, \A k \in 1..n : k - 1 \in G => k \in G
    PROVE  \A k \in 0..n : k \in G
<1> DEFINE Bad == {k \in 0..n : k \notin G}
<1> SUFFICES ASSUME Bad # {} PROVE FALSE
  OBVIOUS
<1>1. Bad \in SUBSET Nat
  OBVIOUS
<1>2. PICK k \in Bad : \A y \in Bad : k <= y
  <2> HIDE DEF Bad
  <2> QED
    BY <1>1, LeastNat
<1>3. k \in 1..n
  BY <1>2
<1>4. k - 1 \in 0..n /\ ~(k <= k - 1)
  BY <1>3
<1>5. k - 1 \notin Bad
  <2> HIDE DEF Bad
  <2> QED
    BY <1>2, <1>4
<1> QED
  BY <1>2, <1>3, <1>4, <1>5

\* n rounds from a, where round k takes state x to step[k][x].
IsLoop(f, n, a, step) == f[0] = a /\ \A k \in 1..n : f[k] = step[k][f[k - 1]]

\* A loop of n rounds runs to its end.
LEMMA LoopRuns ==
    ASSUME NEW n \in Nat, NEW S, NEW a \in S, NEW step \in [1..n -> [S -> S]]
    PROVE  \E f \in [0..n -> S] : IsLoop(f, n, a, step)
<1> DEFINE Runs(k) == \E f \in [0..k -> S] : IsLoop(f, k, a, step)
           G == {k \in 0..n : Runs(k)}
<1>1. Runs(0)
  <2>1. PICK f : f = [k \in 0..0 |-> a]
    OBVIOUS
  <2>2. f \in [0..0 -> S] /\ f[0] = a /\ 1..0 = {}
    BY <2>1
  <2> QED
    BY <2>2 DEF IsLoop
<1>2. ASSUME NEW k \in 1..n, k - 1 \in G PROVE k \in G
  <2>1. PICK f \in [0..(k - 1) -> S] : IsLoop(f, k - 1, a, step)
    BY <1>2
  <2>2. PICK e \in S : e = step[k][f[k - 1]]
    OBVIOUS
  <2>3. PICK g : g = [j \in 0..k |-> IF j = k THEN e ELSE f[j]]
    OBVIOUS
  <2>4. \A j \in 0..k : j # k => j \in 0..(k - 1)
    OBVIOUS
  <2>5. g \in [0..k -> S]
    BY <2>2, <2>3, <2>4
  <2>6. g[0] = a
    BY <2>1, <2>3 DEF IsLoop
  <2>7. ASSUME NEW j \in 1..k PROVE g[j] = step[j][g[j - 1]]
    <3>1. j \in 0..k /\ j - 1 \in 0..k /\ j - 1 # k
      OBVIOUS
    <3>2. g[j - 1] = f[j - 1]
      BY <2>3, <3>1
    <3>3. CASE j = k
      BY <2>2, <2>3, <3>1, <3>2, <3>3
    <3>4. CASE j # k
      <4>1. j \in 1..(k - 1) /\ g[j] = f[j]
        BY <2>3, <3>1, <3>4
      <4>2. f[j] = step[j][f[j - 1]]
        BY <2>1, <4>1, Zenon DEF IsLoop
      <4> QED
        BY <3>2, <4>1, <4>2
    <3> QED
      BY <3>3, <3>4
  <2>8. Runs(k)
    BY <2>5, <2>6, <2>7, Zenon DEF IsLoop
  <2>9. k \in 0..n
    OBVIOUS
  <2> HIDE DEF Runs
  <2> QED
    BY <2>8, <2>9
<1>3. 0 \in G /\ n \in 0..n
  <2>1. 0 \in 0..n /\ n \in 0..n
    OBVIOUS
  <2> HIDE DEF Runs
  <2> QED
    BY <1>1, <2>1
<1> HIDE DEF G
<1>4. n \in G
  BY <1>2, <1>3, Induct
<1> QED
  BY <1>4 DEF G

-----------------------------------------------------------------------------
(* The neighborhood of a candidate.                                        *)

\* A finite list of words has a bound on their lengths.
LEMMA LengthBound ==
    \E b \in Nat : \A w \in ContextWord : Len(w) \in Nat /\ Len(w) <= b
<1>1. \A w \in ContextWord : Len(w) \in Nat
  BY WordList
<1>2. PICK n \in Nat : ExistsSurjection(1..n, ContextWord)
  BY WordList, FS_NatSurjection
<1>3. PICK f \in Surjection(1..n, ContextWord) : TRUE
  BY <1>2 DEF ExistsSurjection
<1>4. /\ f \in [1..n -> ContextWord]
      /\ \A w \in ContextWord : \E k \in 1..n : f[k] = w
  BY <1>3 DEF Surjection
<1> DEFINE Bounded(k) == \E b \in Nat : \A j \in 1..k : Len(f[j]) <= b
           G == {k \in 0..n : Bounded(k)}
<1>5. ASSUME NEW k \in 1..n, k - 1 \in G PROVE k \in G
  <2>1. PICK b \in Nat : \A j \in 1..(k - 1) : Len(f[j]) <= b
    BY <1>5
  <2>2. PICK c \in Nat : c = Len(f[k])
    BY <1>1, <1>4
  <2>3. PICK d \in Nat : b <= d /\ c <= d
    <3>1. b + c \in Nat /\ b <= b + c /\ c <= b + c
      OBVIOUS
    <3> QED
      BY <3>1, Zenon
  <2>4. \A j \in 1..k : Len(f[j]) <= d
    <3> SUFFICES ASSUME NEW j \in 1..k PROVE Len(f[j]) <= d
      OBVIOUS
    <3>1. PICK x \in Nat : x = Len(f[j])
      BY <1>1, <1>4
    <3>2. CASE j = k
      BY <2>2, <2>3, <3>2
    <3>3. CASE j # k
      <4>1. j \in 1..(k - 1)
        BY <3>3
      <4>2. x <= b
        BY <2>1, <3>1, <4>1
      <4>3. x <= d
        BY <2>3, <4>2
      <4> QED
        BY <3>1, <4>3
    <3> QED
      BY <3>2, <3>3
  <2>5. k \in 0..n
    OBVIOUS
  <2> QED
    BY <2>4, <2>5
<1>6. \E b \in Nat : \A j \in 1..n : Len(f[j]) <= b
  <2>1. 0 \in G
    <3>1. 0 \in Nat /\ \A j \in 1..0 : Len(f[j]) <= 0
      OBVIOUS
    <3>2. 0 \in 0..n
      OBVIOUS
    <3> QED
      BY <3>1, <3>2, Zenon
  <2>2. n \in 0..n
    OBVIOUS
  <2> HIDE DEF G
  <2>3. n \in G
    BY <1>5, <2>1, <2>2, Induct
  <2> QED
    BY <2>3 DEF G
<1>7. PICK b \in Nat : \A j \in 1..n : Len(f[j]) <= b
  BY <1>6
<1> QED
  BY <1>1, <1>4, <1>7

\* maxContextWordLen bounds the length of every word.
LEMMA LongestWord ==
    /\ maxContextWordLen \in Nat
    /\ \A w \in ContextWord : Len(w) \in Nat /\ Len(w) <= maxContextWordLen
<1> DEFINE S == {Len(w) : w \in ContextWord} \cup {0}
<1>1. PICK b \in Nat : \A w \in ContextWord : Len(w) \in Nat /\ Len(w) <= b
  BY LengthBound
<1>2. S \in SUBSET Nat /\ S # {} /\ \A y \in S : y <= b
  BY <1>1
<1>3. \A w \in ContextWord : Len(w) \in S
  OBVIOUS
<1> HIDE DEF S
<1>4. Max(S) \in S /\ \A y \in S : y <= Max(S)
  BY <1>2, LargestNat
<1>5. maxContextWordLen = Max(S)
  BY DEF maxContextWordLen, S
<1> QED
  BY <1>1, <1>2, <1>3, <1>4, <1>5

\* A span as the scanners produce them.
IsSpan(at) ==
    at.start \in Nat /\ at.end \in Nat /\ at.start <= at.end

\* The words that findWords reports are no longer than the longest word.
LEMMA FoundWord ==
    ASSUME NEW s \in Seq(Symbol), NEW w \in findWords(s, ContextWord)
    PROVE  IsSpan(w) /\ w.end <= w.start + maxContextWordLen
<1>1. PICK v \in ContextWord, i \in 1..Len(s) : w = Span(i, i + Len(v))
  BY DEF findWords
<1>2. PICK n \in Nat, k \in Nat, x \in Nat : n = Len(v) /\ k = maxContextWordLen /\ x = i /\ n <= k
  BY LongestWord
<1>3. w.start = x /\ w.end = x + n
  BY <1>1, <1>2 DEF Span
<1> QED
  BY <1>2, <1>3 DEF IsSpan

\* The runs of digits that digitRuns reports are spans.
LEMMA FoundRun ==
    ASSUME NEW s \in Seq(Symbol), NEW at \in digitRuns(s)
    PROVE  IsSpan(at)
<1> DEFINE D == {i \in DOMAIN s : s[i] \in Digit}
           E(i) == {j \in (i + 1)..(Len(s) + 1) : j \notin D}
<1>1. PICK i \in D : at = Span(i, Min(E(i)))
  BY DEF digitRuns
<1>2. i \in 1..Len(s) /\ Len(s) \in Nat
  OBVIOUS
<1>3. Len(s) + 1 \in E(i) /\ E(i) \in SUBSET Nat
  BY <1>2
<1>4. \A j \in E(i) : i < j
  BY <1>2
<1> HIDE DEF D, E
<1>5. Min(E(i)) \in E(i)
  BY <1>3, LeastNat
<1>6. PICK e \in Nat : e = Min(E(i)) /\ i < e
  BY <1>3, <1>4, <1>5
<1>7. at.start = i /\ at.end = e
  BY <1>1, <1>6 DEF Span
<1> QED
  BY <1>2, <1>6, <1>7 DEF IsSpan

\* A word that scores at all lies in the neighborhood.
LEMMA NearIsNeighbor ==
    ASSUME NEW at, IsSpan(at), NEW words, NEW w \in words, IsSpan(w),
           w.end <= w.start + maxContextWordLen, Distance(at, w) <= FarWindow
    PROVE  w \in Neighborhood(at, words)
<1>1. PICK a \in Nat, b \in Nat, c \in Nat, d \in Nat, m \in Nat, f \in Nat :
         /\ a = at.start /\ b = at.end /\ c = w.start /\ d = w.end
         /\ m = maxContextWordLen /\ f = FarWindow
  BY LongestWord, WindowsNested DEF IsSpan
<1>2. a <= b /\ c <= d /\ d <= c + m
  BY <1>1 DEF IsSpan
<1>3. \/ d <= a /\ a - d <= f
      \/ c >= b /\ c - b <= f
      \/ ~(d <= a) /\ ~(c >= b)
  BY <1>1 DEF Distance
<1>4. c >= (a - f) - m /\ c <= b + f
  BY <1>2, <1>3
<1> QED
  BY <1>1, <1>4 DEF Neighborhood

\* Two lists of words that agree on what lies within each window score alike.
LEMMA SameScore ==
    ASSUME NEW code, NEW at, NEW A, NEW B,
           (\E w \in A : Distance(at, w) <= NearWindow) <=> (\E w \in B : Distance(at, w) <= NearWindow),
           (\E w \in A : Distance(at, w) <= MediumWindow) <=> (\E w \in B : Distance(at, w) <= MediumWindow),
           (\E w \in A : Distance(at, w) <= FarWindow) <=> (\E w \in B : Distance(at, w) <= FarWindow),
           (\E w \in A : w.end <= at.start /\ Distance(at, w) <= LeadingWindow)
              <=> (\E w \in B : w.end <= at.start /\ Distance(at, w) <= LeadingWindow)
    PROVE  Score(code, at, A) = Score(code, at, B)
  BY Zenon DEF Score

\* scoreCandidate's binary search and break leave out only words that are too
\* far away to count, for every text, word list and choice of windows.
THEOREM NeighborhoodSuffices == \A s \in Seq(Symbol) : FullScanAgrees(s)
<1> SUFFICES ASSUME NEW s \in Seq(Symbol), NEW at \in digitRuns(s)
             PROVE  scoreCandidate(Slice(s, at), at, findWords(s, ContextWord))
                      = Score(Slice(s, at), at, findWords(s, ContextWord))
  BY DEF FullScanAgrees
<1> DEFINE A == findWords(s, ContextWord)
           B == Neighborhood(at, A)
<1>1. IsSpan(at)
  BY FoundRun
<1>2. \A w \in A : IsSpan(w) /\ w.end <= w.start + maxContextWordLen
  BY FoundWord
<1> HIDE DEF A
<1>3. B \subseteq A
  BY DEF Neighborhood
<1>4. \A w \in A : Distance(at, w) <= FarWindow => w \in B
  BY <1>1, <1>2, NearIsNeighbor
<1>5. ASSUME NEW w \in A PROVE Distance(at, w) \in Int
  <2>1. IsSpan(at) /\ IsSpan(w)
    BY <1>1, <1>2
  <2> QED
    BY <2>1 DEF IsSpan, Distance
<1>6. /\ NearWindow \in Nat /\ MediumWindow \in Nat /\ FarWindow \in Nat /\ LeadingWindow \in Nat
      /\ NearWindow <= FarWindow /\ MediumWindow <= FarWindow /\ LeadingWindow <= FarWindow
  BY WindowsNested
<1>7. ASSUME NEW w \in A, NEW n \in {NearWindow, MediumWindow, FarWindow, LeadingWindow},
             Distance(at, w) <= n
      PROVE  w \in B
  <2>1. PICK x \in Int, y \in Nat, z \in Nat : x = Distance(at, w) /\ y = n /\ z = FarWindow /\ y <= z
    BY <1>5, <1>6
  <2>2. x <= z
    BY <1>7, <2>1
  <2> QED
    BY <1>4, <2>1, <2>2
<1> HIDE DEF B
<1>8. Score(Slice(s, at), at, B) = Score(Slice(s, at), at, A)
  <2>1. \A n \in {NearWindow, MediumWindow, FarWindow} :
           (\E w \in B : Distance(at, w) <= n) <=> (\E w \in A : Distance(at, w) <= n)
    BY <1>3, <1>7
  <2>2. (\E w \in B : w.end <= at.start /\ Distance(at, w) <= LeadingWindow)
          <=> (\E w \in A : w.end <= at.start /\ Distance(at, w) <= LeadingWindow)
    BY <1>3, <1>7
  <2>3. /\ (\E w \in B : Distance(at, w) <= NearWindow) <=> (\E w \in A : Distance(at, w) <= NearWindow)
        /\ (\E w \in B : Distance(at, w) <= MediumWindow) <=> (\E w \in A : Distance(at, w) <= MediumWindow)
        /\ (\E w \in B : Distance(at, w) <= FarWindow) <=> (\E w \in A : Distance(at, w) <= FarWindow)
    BY <2>1
  <2> QED
    BY <2>2, <2>3, SameScore, Zenon
<1> QED
  BY <1>8, Zenon DEF scoreCandidate, A, B

\* A year gets no bonus for its length and its penalty outweighs the best
\* placement, so a code that looks like a year never scores above zero, which
\* is what otpBest asks of a code.
THEOREM YearNeverScores ==
    ASSUME NEW code \in Year, NEW at, NEW words
    PROVE  scoreCandidate(code, at, words) <= 0
<1> DEFINE near == Neighborhood(at, words)
           Within(n) == \E w \in near : Distance(at, w) <= n
           leading == \E w \in near : w.end <= at.start /\ Distance(at, w) <= LeadingWindow
<1>1. Len(code) # SixDigits /\ Len(code) # MaxOTPLen
  BY CodeLengths
<1>2. PICK p \in {100, 60, 30, 0} :
         p = IF Within(NearWindow) THEN 100 ELSE IF Within(MediumWindow) THEN 60
             ELSE IF Within(FarWindow) THEN 30 ELSE 0
  OBVIOUS
<1>3. PICK b \in {15, 0} : b = IF leading THEN 15 ELSE 0
  OBVIOUS
<1>4. (CASE Len(code) = SixDigits -> 10 [] Len(code) = MaxOTPLen -> 4 [] OTHER -> 0) = 0
  BY <1>1
<1>5. (IF code \in Year THEN penaltyYear ELSE 0) = -120
  BY DEF penaltyYear
<1>6. scoreCandidate(code, at, words) = ((p + b) + 0) + (-120)
  BY <1>2, <1>3, <1>4, <1>5 DEF Score, scoreCandidate
<1> QED
  BY <1>6

-----------------------------------------------------------------------------
(* Membership in a list of spans.                                          *)

Overlaps(a, b) == a.start < b.end /\ b.start < a.end

\* The spans are in order and apart, as findPlainURLs and mergeSpans give them.
Apart(sorted) ==
    /\ \A i \in DOMAIN sorted : IsSpan(sorted[i]) /\ sorted[i].start < sorted[i].end
    /\ \A i, j \in DOMAIN sorted : i < j => sorted[i].end <= sorted[j].start

\* inSpans: on a list that is in order and apart, the first span that ends
\* after s begins decides whether any span of the list overlaps s.
THEOREM FirstSpanDecides ==
    ASSUME NEW T, NEW sorted \in Seq(T), Apart(sorted),
           NEW s, IsSpan(s)
    PROVE  inSpans(sorted, s) <=> \E i \in DOMAIN sorted : Overlaps(sorted[i], s)
<1> DEFINE after == {i \in DOMAIN sorted : sorted[i].end > s.start}
<1>1. after \in SUBSET Nat /\ \A i \in after : i \in DOMAIN sorted
  OBVIOUS
<1>2. s.start \in Nat /\ s.end \in Nat
  BY DEF IsSpan
<1>3. \A i \in DOMAIN sorted : /\ sorted[i].start \in Nat /\ sorted[i].end \in Nat
                               /\ i \in after <=> s.start < sorted[i].end
  BY <1>2 DEF Apart, IsSpan
<1>4. inSpans(sorted, s) <=> after # {} /\ sorted[Min(after)].start < s.end
  BY Zenon DEF inSpans
<1> HIDE DEF after
<1>5. CASE after = {}
  BY <1>3, <1>4, <1>5 DEF Overlaps
<1>6. CASE after # {}
  <2>1. PICK f \in after : f = Min(after) /\ \A i \in after : f <= i
    BY <1>1, <1>6, LeastNat
  <2>2. f \in DOMAIN sorted /\ s.start < sorted[f].end
    BY <1>1, <1>3, <2>1
  <2>3. inSpans(sorted, s) <=> sorted[f].start < s.end
    BY <1>4, <1>6, <2>1
  <2>4. sorted[f].start < s.end => Overlaps(sorted[f], s)
    BY <2>2 DEF Overlaps
  <2>5. ASSUME NEW i \in DOMAIN sorted, Overlaps(sorted[i], s)
        PROVE  sorted[f].start < s.end
    <3>1. i \in after /\ sorted[i].start < s.end
      BY <1>3, <2>5 DEF Overlaps
    <3>2. CASE i = f
      BY <3>1, <3>2
    <3>3. CASE i # f
      <4>1. f < i
        BY <1>1, <2>1, <3>1, <3>3
      <4>2. sorted[f].end <= sorted[i].start /\ sorted[f].start < sorted[f].end
        BY <2>2, <4>1 DEF Apart
      <4>3. PICK a \in Nat, b \in Nat, c \in Nat, d \in Nat :
               a = sorted[f].start /\ b = sorted[f].end /\ c = sorted[i].start /\ d = s.end
        BY <1>2, <1>3, <2>2
      <4>4. a < b /\ b <= c /\ c < d
        BY <3>1, <4>2, <4>3
      <4>5. a < d
        BY <4>4
      <4> QED
        BY <4>3, <4>5
    <3> QED
      BY <3>2, <3>3
  <2> QED
    BY <2>2, <2>3, <2>4, <2>5
<1> QED
  BY <1>5, <1>6

-----------------------------------------------------------------------------
(* scanHTML.                                                               *)

\* The parts of a message and of a token, by its kind.
LEMMA MessageParts ==
    ASSUME NEW m \in Message
    PROVE  /\ m.html \in Seq(HTMLToken) /\ Tokenized(m.html)
           /\ m.subject \in Seq(Symbol) /\ m.text \in Seq(Symbol)
  BY DEF Message

\* What a token of each kind holds.
LEMMA TokenParts ==
    ASSUME NEW t \in HTMLToken
    PROVE  /\ t.kind \in {"text", "start", "end"}
           /\ t.kind = "text" => t.data \in Seq(Symbol)
           /\ t.kind = "start" => t.tag \in Tag /\ t.href \in Seq(Symbol)
           /\ t.kind = "end" => t.tag \in Tag
  BY DEF HTMLToken

\* A builder starts out as the empty text.
LEMMA EmptyText == <<>> \in Seq(Symbol) /\ <<>> \in Seq(Href)
  OBVIOUS

\* No open anchor, whatever the number of hrefs.
LEMMA NoAnchorType == \A n \in Nat : NoAnchor \in [at : 0..n, anchor : Seq(Symbol)]
<1>1. PICK e \in Seq(Symbol) : e = <<>>
  BY EmptyText, Zenon
<1> QED
  BY <1>1 DEF NoAnchor

\* What scanHTML puts between two chunks is text.
LEMMA GlueSymbols == "nl" \in Symbol /\ " " \in Symbol
  BY DEF Symbol

\* The token a step reads.
LEMMA TokenRead ==
    ASSUME ScanTypeOK, NEW kind, Token(kind)
    PROVE  /\ next \in 1..Len(msg.html) /\ next' = next + 1
           /\ next + 1 \in 1..(Len(msg.html) + 1)
           /\ msg.html[next] \in HTMLToken /\ msg.html[next].kind = kind
<1>1. msg.html \in Seq(HTMLToken) /\ next \in 1..(Len(msg.html) + 1)
  BY MessageParts DEF ScanTypeOK
<1>2. next <= Len(msg.html) /\ msg.html[next].kind = kind /\ next' = next + 1
  BY Zenon DEF Token
<1> QED
  BY <1>1, <1>2

\* closeAnchor changes an entry of hrefs and never their number.
LEMMA ClosedTypes ==
    ASSUME ScanTypeOK
    PROVE  Closed \in Seq(Href) /\ Len(Closed) = Len(hrefs)
<1>1. hrefs \in Seq(Href) /\ open \in [at : 0..Len(hrefs), anchor : Seq(Symbol)]
  BY DEF ScanTypeOK
<1>2. CASE open.at = 0
  BY <1>1, <1>2 DEF Closed
<1>3. CASE open.at # 0
  <2>1. PICK i \in 1..Len(hrefs), a \in Seq(Symbol) : i = open.at /\ a = open.anchor
    BY <1>1, <1>3
  <2>2. hrefs[i] \in Href
    BY <1>1
  <2>3. PICK h \in Href : h = [hrefs[i] EXCEPT !.anchor = a]
    BY <2>2 DEF Href
  <2>4. Closed = [hrefs EXCEPT ![i] = h]
    BY <1>3, <2>1, <2>3 DEF Closed
  <2> QED
    BY <1>1, <2>4
<1> QED
  BY <1>2, <1>3

\* A text token keeps the types of the locals.
LEMMA TextTypes ==
    ASSUME ScanTypeOK, TextToken
    PROVE  ScanTypeOK'
<1>1. /\ next \in 1..Len(msg.html) /\ next' = next + 1 /\ next + 1 \in 1..(Len(msg.html) + 1)
      /\ msg.html[next] \in HTMLToken /\ msg.html[next].kind = "text"
  BY TokenRead DEF TextToken
<1>2. PICK chunk \in Seq(Symbol) : chunk = msg.html[next].data
  BY <1>1, TokenParts
<1>3. /\ msg \in Message /\ hrefs \in Seq(Href) /\ visible \in Seq(Symbol)
      /\ open \in [at : 0..Len(hrefs), anchor : Seq(Symbol)]
      /\ rawTextDepth \in Nat /\ pendingBreak \in BOOLEAN
  BY DEF ScanTypeOK
<1>4. UNCHANGED <<msg, hrefs, rawTextDepth, result>>
  BY DEF TextToken
<1> DEFINE Glue(s, c) == IF pendingBreak /\ s # <<>> THEN s \o <<c>> \o chunk ELSE s \o chunk
<1>5. \A s \in Seq(Symbol), c \in Symbol : Glue(s, c) \in Seq(Symbol)
  OBVIOUS
<1>6. \/ UNCHANGED <<visible, open, pendingBreak>>
      \/ /\ visible' = Glue(visible, "nl")
         /\ open' = IF open.at = 0 THEN open ELSE [open EXCEPT !.anchor = Glue(@, " ")]
         /\ pendingBreak' = FALSE
  BY <1>2 DEF TextToken
<1> HIDE DEF Glue
<1>7. visible' \in Seq(Symbol)
  BY <1>3, <1>5, <1>6, GlueSymbols
<1>8. open' \in [at : 0..Len(hrefs), anchor : Seq(Symbol)]
  <2>1. Glue(open.anchor, " ") \in Seq(Symbol)
    BY <1>3, <1>5, GlueSymbols
  <2> QED
    BY <1>3, <1>6, <2>1
<1>9. pendingBreak' \in BOOLEAN
  BY <1>3, <1>6
<1> QED
  BY <1>1, <1>3, <1>4, <1>7, <1>8, <1>9 DEF ScanTypeOK

\* So does a start tag,
LEMMA StartTagTypes ==
    ASSUME ScanTypeOK, StartTagToken
    PROVE  ScanTypeOK'
<1>1. /\ next \in 1..Len(msg.html) /\ next' = next + 1 /\ next + 1 \in 1..(Len(msg.html) + 1)
      /\ msg.html[next] \in HTMLToken /\ msg.html[next].kind = "start"
  BY TokenRead DEF StartTagToken
<1>2. PICK href \in Seq(Symbol), tag \in Tag : href = msg.html[next].href /\ tag = msg.html[next].tag
  BY <1>1, TokenParts
<1>3. /\ msg \in Message /\ hrefs \in Seq(Href) /\ visible \in Seq(Symbol)
      /\ open \in [at : 0..Len(hrefs), anchor : Seq(Symbol)]
      /\ rawTextDepth \in Nat /\ pendingBreak \in BOOLEAN
  BY DEF ScanTypeOK
<1>4. UNCHANGED <<msg, visible>>
  BY DEF StartTagToken
<1>5. pendingBreak' \in BOOLEAN
  BY DEF StartTagToken, separatesText
<1>6. rawTextDepth' \in Nat
  <2>1. rawTextDepth' = IF tag = "script" THEN rawTextDepth + 1 ELSE rawTextDepth
    BY <1>2 DEF StartTagToken
  <2> QED
    BY <1>3, <2>1
<1>7. PICK h \in Href : h = [url |-> href, anchor |-> <<>>]
  <2>1. PICK e \in Seq(Symbol) : e = <<>>
    BY EmptyText, Zenon
  <2>2. [url |-> href, anchor |-> e] \in Href
    BY <1>2 DEF Href
  <2> QED
    BY <2>1, <2>2, Zenon
<1>8. hrefs' \in Seq(Href) /\ open' \in [at : 0..Len(hrefs'), anchor : Seq(Symbol)]
  <2>1. CASE tag = "a"
    <3>1. hrefs' = Append(Closed, h) /\ open' = [at |-> Len(hrefs) + 1, anchor |-> <<>>]
      BY <1>2, <1>7, <2>1 DEF StartTagToken
    <3>2. Closed \in Seq(Href) /\ Len(Closed) = Len(hrefs)
      BY ClosedTypes
    <3>3. hrefs' \in Seq(Href) /\ Len(hrefs') = Len(hrefs) + 1
      BY <3>1, <3>2
    <3> QED
      BY <1>3, <3>1, <3>3
  <2>2. CASE tag # "a"
    <3>1. (hrefs' = Append(hrefs, h) \/ hrefs' = hrefs) /\ open' = open
      BY <1>2, <1>7, <2>2 DEF StartTagToken
    <3>2. CASE hrefs' = Append(hrefs, h)
      <4>1. Append(hrefs, h) \in Seq(Href) /\ Len(Append(hrefs, h)) = Len(hrefs) + 1
        BY <1>3
      <4>2. 0..Len(hrefs) \subseteq 0..Len(hrefs')
        BY <1>3, <3>2, <4>1
      <4> QED
        BY <1>3, <3>1, <3>2, <4>1, <4>2
    <3>3. CASE hrefs' = hrefs
      BY <1>3, <3>1, <3>3
    <3> QED
      BY <3>1, <3>2, <3>3
  <2> QED
    BY <2>1, <2>2
<1> QED
  BY <1>1, <1>3, <1>4, <1>5, <1>6, <1>8 DEF ScanTypeOK

\* an end tag,
LEMMA EndTagTypes ==
    ASSUME ScanTypeOK, EndTagToken
    PROVE  ScanTypeOK'
<1>1. /\ next \in 1..Len(msg.html) /\ next' = next + 1 /\ next + 1 \in 1..(Len(msg.html) + 1)
  BY TokenRead DEF EndTagToken
<1>3. /\ msg \in Message /\ hrefs \in Seq(Href) /\ visible \in Seq(Symbol)
      /\ open \in [at : 0..Len(hrefs), anchor : Seq(Symbol)]
      /\ rawTextDepth \in Nat /\ pendingBreak \in BOOLEAN
  BY DEF ScanTypeOK
<1>4. UNCHANGED <<msg, visible>>
  BY DEF EndTagToken
<1>5. pendingBreak' \in BOOLEAN
  BY DEF EndTagToken, separatesText
<1>6. rawTextDepth' \in Nat
  <2>1. rawTextDepth' = DepthAfter(msg.html[next].tag)
    BY DEF EndTagToken
  <2> QED
    BY <1>3, <2>1 DEF DepthAfter
<1>7. Closed \in Seq(Href) /\ Len(Closed) = Len(hrefs)
  BY ClosedTypes
<1>8. (hrefs' = Closed /\ open' = NoAnchor) \/ (hrefs' = hrefs /\ open' = open)
  BY DEF EndTagToken
<1>9. hrefs' \in Seq(Href) /\ open' \in [at : 0..Len(hrefs'), anchor : Seq(Symbol)]
  <2>1. hrefs' \in Seq(Href) /\ Len(hrefs') \in Nat
    BY <1>3, <1>7, <1>8
  <2>2. NoAnchor \in [at : 0..Len(hrefs'), anchor : Seq(Symbol)]
    BY <2>1, NoAnchorType
  <2> QED
    BY <1>3, <1>8, <2>1, <2>2
<1> QED
  BY <1>1, <1>3, <1>4, <1>5, <1>6, <1>9 DEF ScanTypeOK

\* and the end of the markup.
LEMMA ErrorTypes ==
    ASSUME ScanTypeOK, ErrorToken
    PROVE  ScanTypeOK'
<1>1. /\ msg \in Message /\ hrefs \in Seq(Href) /\ visible \in Seq(Symbol)
      /\ next \in 1..(Len(msg.html) + 1)
      /\ rawTextDepth \in Nat /\ pendingBreak \in BOOLEAN
  BY DEF ScanTypeOK
<1>2. Closed \in Seq(Href)
  BY ClosedTypes
<1>3. hrefs' = Closed /\ open' = NoAnchor /\ UNCHANGED <<msg, next, visible, rawTextDepth, pendingBreak>>
  BY DEF ErrorToken
<1>4. hrefs' \in Seq(Href) /\ open' \in [at : 0..Len(hrefs'), anchor : Seq(Symbol)]
  <2>1. hrefs' \in Seq(Href) /\ Len(hrefs') \in Nat
    BY <1>2, <1>3
  <2> QED
    BY <1>3, <2>1, NoAnchorType
<1> QED
  BY <1>1, <1>3, <1>4 DEF ScanTypeOK

\* scanHTML's locals keep their types on every document: the open anchor is
\* always an entry of hrefs, which closeAnchor indexes, and a stray end tag
\* never takes the script depth below zero.
THEOREM ScanTypes == Spec => []ScanTypeOK
<1>1. Init => ScanTypeOK
  <2> SUFFICES ASSUME NEW m \in Message, Begin(m) PROVE ScanTypeOK
    BY DEF Init
  <2>1. m.html \in Seq(HTMLToken)
    BY MessageParts
  <2>2. /\ msg = m /\ next = 1 /\ hrefs = <<>> /\ visible = <<>>
        /\ open = NoAnchor /\ rawTextDepth = 0 /\ pendingBreak = FALSE
    BY DEF Begin
  <2>3. next \in 1..(Len(msg.html) + 1) /\ hrefs \in Seq(Href) /\ visible \in Seq(Symbol)
    BY <2>1, <2>2, EmptyText
  <2>4. open \in [at : 0..Len(hrefs), anchor : Seq(Symbol)]
    <3>1. Len(hrefs) \in Nat
      BY <2>3
    <3> QED
      BY <2>2, <3>1, NoAnchorType
  <2> QED
    BY <2>2, <2>3, <2>4 DEF ScanTypeOK
<1>2. ScanTypeOK /\ [Next]_vars => ScanTypeOK'
  <2> SUFFICES ASSUME ScanTypeOK, [Next]_vars PROVE ScanTypeOK'
    OBVIOUS
  <2>1. CASE UNCHANGED vars
    BY <2>1, Zenon DEF ScanTypeOK, vars
  <2> QED
    BY <2>1, TextTypes, StartTagTypes, EndTagTypes, ErrorTypes DEF Next
<1> QED
  BY <1>1, <1>2, PTL DEF Spec

\* The tags of scripts before token k of document d.
Scripts(d, k) == {j \in 1..(k - 1) : d[j].kind # "text" /\ d[j].tag = "script"}

\* Token k is not inside a script: the last such tag, if any, closes it.
Outside(d, k) == Scripts(d, k) = {} \/ d[Max(Scripts(d, k))].kind = "end"

\* scanHTML's count of open scripts says whether the token it is at is inside
\* one: the tokenizer lets no script begin within a script.
DepthOK == rawTextDepth = IF Outside(msg.html, next) THEN 0 ELSE 1

\* A text token is seen when it is outside scripts.
LEMMA SeenOutside ==
    ASSUME NEW d, NEW k \in DOMAIN d
    PROVE  k \in Seen(d) <=> d[k].kind = "text" /\ Outside(d, k)
  BY Zenon DEF Seen, Outside, Scripts

\* The last script tag before a token is one of them.
LEMMA LastScript ==
    ASSUME NEW d, NEW k \in Nat, Scripts(d, k) # {}
    PROVE  /\ Max(Scripts(d, k)) \in Scripts(d, k)
           /\ \A j \in Scripts(d, k) : j <= Max(Scripts(d, k))
<1>1. Scripts(d, k) \in SUBSET Nat /\ \A y \in Scripts(d, k) : y <= k
  BY DEF Scripts
<1> QED
  BY <1>1, LargestNat

\* Reading any other token leaves the script tags behind as they were.
LEMMA OtherToken ==
    ASSUME NEW d, NEW k \in Nat \ {0}, d[k].kind = "text" \/ d[k].tag # "script"
    PROVE  Outside(d, k + 1) <=> Outside(d, k)
<1>1. Scripts(d, k + 1) = Scripts(d, k)
  <2>1. \A j : j \in 1..k <=> j \in 1..(k - 1) \/ j = k
    OBVIOUS
  <2>2. (k + 1) - 1 = k
    OBVIOUS
  <2> QED
    BY <2>1, <2>2 DEF Scripts
<1> QED
  BY <1>1, Zenon DEF Outside

\* Behind a script tag, that tag decides.
LEMMA ScriptTag ==
    ASSUME NEW d, NEW k \in Nat \ {0}, d[k].kind # "text", d[k].tag = "script"
    PROVE  Outside(d, k + 1) <=> d[k].kind = "end"
<1>1. k \in Scripts(d, k + 1)
  BY DEF Scripts
<1>2. \A j \in Scripts(d, k + 1) : j \in Nat /\ j <= k
  BY DEF Scripts
<1>3. Max(Scripts(d, k + 1)) = k
  <2>1. PICK x \in Nat : x = Max(Scripts(d, k + 1)) /\ x <= k /\ k <= x
    BY <1>1, <1>2, LastScript
  <2> QED
    BY <2>1
<1>4. Scripts(d, k + 1) # {}
  BY <1>1
<1> QED
  BY <1>3, <1>4, Zenon DEF Outside

\* No script begins within a script.
LEMMA ScriptBegins ==
    ASSUME NEW d \in Seq(HTMLToken), Tokenized(d), NEW k \in DOMAIN d, d[k].kind = "start", d[k].tag = "script"
    PROVE  Outside(d, k)
<1> SUFFICES ASSUME Scripts(d, k) # {}, d[Max(Scripts(d, k))].kind # "end" PROVE FALSE
  BY Zenon DEF Outside
<1>1. DOMAIN d = 1..Len(d) /\ Len(d) \in Nat
  OBVIOUS
<1>2. PICK j \in Scripts(d, k) : j = Max(Scripts(d, k)) /\ \A i \in Scripts(d, k) : i <= j
  BY <1>1, LastScript
<1>3. j \in 1..(k - 1) /\ j \in DOMAIN d /\ j < k
  BY <1>1 DEF Scripts
<1>4. d[j].kind = "start" /\ d[j].tag = "script"
  <2>1. d[j].kind # "text" /\ d[j].tag = "script"
    BY DEF Scripts
  <2>2. d[j].kind # "end"
    BY <1>2
  <2>3. d[j] \in HTMLToken
    BY <1>1, <1>3
  <2>4. d[j].kind \in {"text", "start", "end"}
    BY <2>3, TokenParts
  <2> QED
    BY <2>1, <2>2, <2>4
<1>5. ASSUME NEW i \in j..(k - 1)
      PROVE  ~(d[i].kind = "end" /\ d[i].tag = "script")
  <2>1. CASE i = j
    BY <1>4, <2>1
  <2>2. CASE i # j
    <3>1. i \in 1..(k - 1) /\ ~(i <= j)
      BY <1>1, <1>3, <2>2
    <3>2. ~(i \in Scripts(d, k))
      BY <1>2, <3>1
    <3> QED
      BY <3>1, <3>2 DEF Scripts
  <2> QED
    BY <2>1, <2>2
<1>6. d[k].kind = "text" \/ (d[k].kind = "end" /\ d[k].tag = "script")
  BY <1>1, <1>3, <1>4, <1>5, Zenon DEF Tokenized
<1> QED
  BY <1>6

\* Every step keeps the depth in line with the script tags read.
LEMMA DepthStep ==
    ASSUME ScanTypeOK, DepthOK, [Next]_vars
    PROVE  DepthOK'
<1>1. msg' = msg
  BY Zenon DEF Next, TextToken, StartTagToken, EndTagToken, ErrorToken, vars
<1>2. PICK n : n = next'
  OBVIOUS
<1>3. Outside(msg.html, next)' <=> Outside(msg.html, n)
  BY <1>1, <1>2, Zenon DEF Outside, Scripts
<1>4. rawTextDepth' = (IF Outside(msg.html, n) THEN 0 ELSE 1) => DepthOK'
  BY <1>3, Zenon DEF DepthOK
<1>5. ASSUME n = next, rawTextDepth' = rawTextDepth PROVE DepthOK'
  BY <1>4, <1>5, Zenon DEF DepthOK
<1>6. ASSUME NEW kind, Token(kind)
      PROVE  /\ next \in Nat \ {0} /\ next \in DOMAIN msg.html /\ n = next + 1
             /\ msg.html[next].kind = kind
  <2>1. msg.html \in Seq(HTMLToken)
    BY MessageParts DEF ScanTypeOK
  <2> QED
    BY <1>2, <1>6, <2>1, TokenRead
<1>7. CASE UNCHANGED vars
  BY <1>2, <1>5, <1>7, Zenon DEF vars
<1>8. CASE ErrorToken
  BY <1>2, <1>5, <1>8, Zenon DEF ErrorToken
<1>9. CASE TextToken
  <2>1. rawTextDepth' = rawTextDepth /\ Token("text")
    BY <1>9, Zenon DEF TextToken
  <2>2. Outside(msg.html, n) <=> Outside(msg.html, next)
    BY <1>6, <2>1, OtherToken
  <2> QED
    BY <1>4, <2>1, <2>2, Zenon DEF DepthOK
<1>10. CASE StartTagToken
  <2>1. /\ Token("start")
        /\ rawTextDepth' = IF msg.html[next].tag = "script" THEN rawTextDepth + 1 ELSE rawTextDepth
    BY <1>10, Zenon DEF StartTagToken
  <2>2. CASE msg.html[next].tag # "script"
    <3>1. Outside(msg.html, n) <=> Outside(msg.html, next)
      BY <1>6, <2>1, <2>2, OtherToken
    <3> QED
      BY <1>4, <2>1, <2>2, <3>1, Zenon DEF DepthOK
  <2>3. CASE msg.html[next].tag = "script"
    <3>1. Outside(msg.html, next)
      BY <1>6, <2>1, <2>3, ScriptBegins, MessageParts DEF ScanTypeOK
    <3>2. rawTextDepth' = 1
      <4>1. rawTextDepth = 0
        BY <3>1, Zenon DEF DepthOK
      <4> QED
        BY <2>1, <2>3, <4>1
    <3>3. ~Outside(msg.html, n)
      BY <1>6, <2>1, <2>3, ScriptTag
    <3> QED
      BY <1>4, <3>2, <3>3, Zenon
  <2> QED
    BY <2>2, <2>3
<1>11. CASE EndTagToken
  <2>1. Token("end") /\ rawTextDepth' = DepthAfter(msg.html[next].tag)
    BY <1>11, Zenon DEF EndTagToken
  <2>2. CASE msg.html[next].tag # "script"
    <3>1. Outside(msg.html, n) <=> Outside(msg.html, next)
      BY <1>6, <2>1, <2>2, OtherToken
    <3> QED
      BY <1>4, <2>1, <2>2, <3>1, Zenon DEF DepthOK, DepthAfter
  <2>3. CASE msg.html[next].tag = "script"
    <3>1. Outside(msg.html, n)
      BY <1>6, <2>1, <2>3, ScriptTag
    <3>2. rawTextDepth = 0 \/ rawTextDepth = 1
      BY Zenon DEF DepthOK
    <3>3. rawTextDepth' = 0
      BY <2>1, <2>3, <3>2 DEF DepthAfter
    <3> QED
      BY <1>4, <3>1, <3>3, Zenon
  <2> QED
    BY <2>2, <2>3
<1> QED
  BY <1>7, <1>8, <1>9, <1>10, <1>11, Zenon DEF Next

\* The script depth is 0 outside scripts and 1 within, at every step.
LEMMA DepthKept == Spec => []DepthOK
<1>1. Init => DepthOK
  <2> SUFFICES ASSUME NEW m \in Message, Begin(m) PROVE DepthOK
    BY DEF Init
  <2>1. next = 1 /\ rawTextDepth = 0
    BY Zenon DEF Begin
  <2>2. Scripts(msg.html, next) = {}
    BY <2>1 DEF Scripts
  <2> QED
    BY <2>1, <2>2, Zenon DEF DepthOK, Outside
<1>2. ScanTypeOK /\ DepthOK /\ [Next]_vars => DepthOK'
  BY DepthStep
<1> QED
  BY <1>1, <1>2, ScanTypes, PTL DEF Spec

-----------------------------------------------------------------------------
(* Folding.                                                                *)

\* One round of fold's loop: what the rune c adds to the builder b.
FoldRound(b, c) == IF c = "mark" THEN b ELSE Append(b, FoldSymbol(c))

\* Folding takes symbols to symbols,
LEMMA FoldSymbolType == \A c \in Symbol : FoldSymbol(c) \in Symbol
  BY DEF FoldSymbol, Symbol, Letter, magicStrongWords, resetStrongWords, verifyWords,
         magicWeakWords, resetWeakWords

\* and a round of fold texts to texts.
LEMMA RoundType == \A b \in Seq(Symbol), c \in Symbol : FoldRound(b, c) \in Seq(Symbol)
  BY FoldSymbolType DEF FoldRound

\* fold, round by round.
LEMMA FoldRuns ==
    ASSUME NEW s \in Seq(Symbol)
    PROVE  \E b : /\ fold(s) = b[Len(s)] /\ b[0] = <<>>
                  /\ \A n \in 1..Len(s) : b[n] = FoldRound(b[n - 1], s[n])
<1> DEFINE Rounds(b) == [n \in 0..Len(s) |-> IF n = 0 THEN <<>> ELSE FoldRound(b[n - 1], s[n])]
           step == [n \in 1..Len(s) |-> [b \in Seq(Symbol) |-> FoldRound(b, s[n])]]
<1>1. Len(s) \in Nat /\ \A n \in 1..Len(s) : s[n] \in Symbol
  OBVIOUS
<1>2. step \in [1..Len(s) -> [Seq(Symbol) -> Seq(Symbol)]]
  BY <1>1, RoundType
<1>3. \A n \in 1..Len(s), b \in Seq(Symbol) : step[n][b] = FoldRound(b, s[n])
  OBVIOUS
<1> HIDE DEF step
<1>4. PICK g \in [0..Len(s) -> Seq(Symbol)] : IsLoop(g, Len(s), <<>>, step)
  BY <1>1, <1>2, EmptyText, LoopRuns
<1>5. g = Rounds(g)
  <2>1. ASSUME NEW n \in 0..Len(s) PROVE g[n] = IF n = 0 THEN <<>> ELSE FoldRound(g[n - 1], s[n])
    <3>1. CASE n = 0
      BY <1>4, <3>1 DEF IsLoop
    <3>2. CASE n # 0
      <4>1. n \in 1..Len(s) /\ n - 1 \in 0..Len(s)
        BY <1>1, <3>2
      <4>2. g[n] = step[n][g[n - 1]] /\ g[n - 1] \in Seq(Symbol)
        BY <1>4, <4>1 DEF IsLoop
      <4> QED
        BY <1>3, <3>2, <4>1, <4>2
    <3> QED
      BY <3>1, <3>2
  <2> QED
    BY <2>1
<1>6. \E b : b = Rounds(b) /\ fold(s) = b[Len(s)]
  BY <1>5, Zenon DEF fold, FoldRound
<1>7. PICK b : b = Rounds(b) /\ fold(s) = b[Len(s)]
  BY <1>6
<1>8. \A n \in 0..Len(s) : b[n] = IF n = 0 THEN <<>> ELSE FoldRound(b[n - 1], s[n])
  BY <1>7, Zenon
<1>9. 0 \in 0..Len(s) /\ \A n \in 1..Len(s) : n \in 0..Len(s) /\ n # 0
  BY <1>1
<1> HIDE DEF Rounds
<1> QED
  BY <1>7, <1>8, <1>9, Zenon

\* fold takes texts to texts.
LEMMA FoldType ==
    ASSUME NEW s \in Seq(Symbol)
    PROVE  fold(s) \in Seq(Symbol)
<1>1. Len(s) \in Nat /\ \A n \in 1..Len(s) : s[n] \in Symbol
  OBVIOUS
<1>2. PICK b : /\ fold(s) = b[Len(s)] /\ b[0] = <<>>
               /\ \A n \in 1..Len(s) : b[n] = FoldRound(b[n - 1], s[n])
  BY FoldRuns
<1> DEFINE G == {n \in 0..Len(s) : b[n] \in Seq(Symbol)}
<1>3. 0 \in G
  <2>1. 0 \in 0..Len(s)
    BY <1>1
  <2> QED
    BY <1>2, <2>1, EmptyText, Zenon
<1>4. ASSUME NEW k \in 1..Len(s), k - 1 \in G PROVE k \in G
  <2>1. k \in 0..Len(s) /\ b[k - 1] \in Seq(Symbol)
    BY <1>1, <1>4
  <2>2. b[k] = FoldRound(b[k - 1], s[k])
    BY <1>2, Zenon
  <2> QED
    BY <1>1, <2>1, <2>2, RoundType
<1>5. Len(s) \in 0..Len(s)
  BY <1>1
<1> HIDE DEF G
<1>6. Len(s) \in G
  BY <1>1, <1>3, <1>4, <1>5, Induct
<1> QED
  BY <1>2, <1>6 DEF G

\* The joined text is a text.
LEMMA PlainType ==
    ASSUME ScanTypeOK
    PROVE  Plain \in Seq(Symbol)
<1>1. msg.subject \in Seq(Symbol) /\ msg.text \in Seq(Symbol) /\ visible \in Seq(Symbol)
  BY MessageParts DEF ScanTypeOK
<1>2. PICK a \in Seq(Symbol), t \in Seq(Symbol), v \in Seq(Symbol), nl \in Seq(Symbol) :
         a = msg.subject /\ t = msg.text /\ v = visible /\ nl = <<"nl">>
  <2>1. PICK c \in Symbol : c = "nl"
    BY GlueSymbols, Zenon
  <2>2. <<c>> \in Seq(Symbol)
    OBVIOUS
  <2> QED
    BY <1>1, <2>1, <2>2, Zenon
<1>3. Plain = a \o nl \o t \o nl \o v
  BY <1>2, Zenon DEF Plain
<1> QED
  BY <1>3

\* Whatever the message, every code in it is scored as if scoreCandidate had
\* walked the whole list of context words.
THEOREM ScoredInFull == Spec => []ScoredAsFullScan
<1>1. ScanTypeOK => ScoredAsFullScan
  BY PlainType, FoldType, NeighborhoodSuffices DEF ScoredAsFullScan
<1> QED
  BY <1>1, ScanTypes, PTL

-----------------------------------------------------------------------------
(* Bracket tallies.                                                        *)

\* Counting one symbol further.
LEMMA OccursNext ==
    ASSUME NEW s \in Seq(Symbol), NEW n \in 1..Len(s), NEW c
    PROVE  /\ Occurs(s, n - 1, c) \in Nat /\ Occurs(s, n, c) \in Nat
           /\ s[n] = c => Occurs(s, n, c) = Occurs(s, n - 1, c) + 1
           /\ s[n] # c => Occurs(s, n, c) = Occurs(s, n - 1, c)
<1> DEFINE A == {i \in 1..(n - 1) : s[i] = c}
           B == {i \in 1..n : s[i] = c}
<1>1. IsFiniteSet(A)
  <2>1. IsFiniteSet(1..(n - 1)) /\ A \subseteq 1..(n - 1)
    BY FS_Interval
  <2> QED
    BY <2>1, FS_Subset
<1>2. Cardinality(A) \in Nat
  BY <1>1, FS_CardinalityType
<1>3. n \notin A
  OBVIOUS
<1>4. s[n] = c => B = A \cup {n}
  OBVIOUS
<1>5. s[n] # c => B = A
  OBVIOUS
<1> HIDE DEF A, B
<1>6. Cardinality(A \cup {n}) = Cardinality(A) + 1
  BY <1>1, <1>3, FS_AddElement
<1>7. Occurs(s, n - 1, c) = Cardinality(A) /\ Occurs(s, n, c) = Cardinality(B)
  BY DEF Occurs, A, B
<1> QED
  <2>1. PICK x \in Nat : x = Occurs(s, n - 1, c) /\ x = Cardinality(A)
    BY <1>2, <1>7, Zenon
  <2>0. PICK y : y = Occurs(s, n, c) /\ y = Cardinality(B)
    BY <1>7, Zenon
  <2>2. CASE s[n] = c
    <3>1. y = x + 1
      BY <1>4, <1>6, <2>0, <2>1, <2>2
    <3> QED
      BY <2>0, <2>1, <2>2, <3>1
  <2>3. CASE s[n] # c
    <3>1. y = x
      BY <1>5, <2>0, <2>1, <2>3, Zenon
    <3> QED
      BY <2>0, <2>1, <2>3, <3>1
  <2> QED
    BY <2>2, <2>3

\* A count is a number.
LEMMA OccursType ==
    ASSUME NEW s \in Seq(Symbol), NEW n \in 0..Len(s), NEW c
    PROVE  Occurs(s, n, c) \in Nat
<1>1. IsFiniteSet(1..n) /\ {i \in 1..n : s[i] = c} \subseteq 1..n
  BY FS_Interval
<1> QED
  BY <1>1, FS_Subset, FS_CardinalityType DEF Occurs

\* A symbol that stays on the URL when the brackets up to it are counted.
Stays(raw, n) ==
    /\ raw[n] \notin SentenceEnd
    /\ raw[n] \in DOMAIN Opener => Occurs(raw, n, Opener[raw[n]]) >= Occurs(raw, n, raw[n])

\* The loop goes on, symbol n next: all behind it has been dropped, the tally
\* of closers is that of the first n symbols, and no opener was dropped.
Trimming(raw, st, n) ==
    /\ st.len = n
    /\ \A c \in DOMAIN Opener :
          /\ st.closers[c] = Occurs(raw, n, c)
          /\ Occurs(raw, n, Opener[c]) = Occurs(raw, Len(raw), Opener[c])
    /\ \A m \in (n + 1)..Len(raw) : ~Stays(raw, m)

\* The loop has returned, at the last symbol that stays.
Trimmed(raw, st, n) ==
    /\ st.len \in (n + 1)..Len(raw)
    /\ Stays(raw, st.len)
    /\ \A m \in (st.len + 1)..Len(raw) : ~Stays(raw, m)

TrimState == [len : Int, closers : [DOMAIN Opener -> Int]]

\* No opening bracket closes one or ends a sentence.
LEMMA OpenersDiffer ==
    \A c, d \in DOMAIN Opener : Opener[c] # d /\ Opener[c] \notin SentenceEnd
  BY DEF Opener, SentenceEnd

\* The tallies before the loop are counts of the whole URL.
LEMMA TalliedType ==
    ASSUME NEW raw \in Seq(Symbol)
    PROVE  Tallied(raw) \in TrimState /\ Trimming(raw, Tallied(raw), Len(raw))
<1>1. Len(raw) \in 0..Len(raw) /\ Len(raw) \in Int
  OBVIOUS
<1>2. \A c : Occurs(raw, Len(raw), c) \in Int
  BY <1>1, OccursType
<1>3. Tallied(raw).len = Len(raw)
      /\ \A c \in DOMAIN Opener : Tallied(raw).closers[c] = Occurs(raw, Len(raw), c)
  BY DEF Tallied
<1>4. \A m \in (Len(raw) + 1)..Len(raw) : FALSE
  BY <1>1
<1>5. Trimming(raw, Tallied(raw), Len(raw))
  BY <1>3, <1>4 DEF Trimming
<1>6. Tallied(raw) \in TrimState
  BY <1>1, <1>2 DEF Tallied, TrimState
<1> QED
  BY <1>5, <1>6

\* A round keeps the types of the locals.
LEMMA TrimRoundType ==
    ASSUME NEW raw, NEW st \in TrimState, NEW n \in Int
    PROVE  TrimRound(raw, st, n) \in TrimState
<1>1. st.closers \in [DOMAIN Opener -> Int] /\ n - 1 \in Int
  BY DEF TrimState
<1>2. [st EXCEPT !.len = n - 1] \in TrimState
  BY <1>1 DEF TrimState
<1>3. ASSUME raw[n] \in DOMAIN Opener
      PROVE  [len |-> n - 1, closers |-> [st.closers EXCEPT ![raw[n]] = @ - 1]] \in TrimState
  <2>1. [st.closers EXCEPT ![raw[n]] = @ - 1] \in [DOMAIN Opener -> Int]
    BY <1>1, <1>3
  <2> QED
    BY <1>1, <2>1 DEF TrimState
<1> QED
  BY <1>2, <1>3, Zenon DEF TrimRound

\* A round drops a symbol exactly when it does not stay.
LEMMA TrimRoundStep ==
    ASSUME NEW raw \in Seq(Symbol), NEW st \in TrimState, NEW n \in 1..Len(raw),
           Trimming(raw, st, n)
    PROVE  \/ Trimming(raw, TrimRound(raw, st, n), n - 1)
           \/ Trimmed(raw, TrimRound(raw, st, n), n - 1)
<1>1. st.len = n /\ st.closers \in [DOMAIN Opener -> Int] /\ Len(raw) \in Nat
  BY DEF Trimming, TrimState
<1>2. \A c \in DOMAIN Opener : /\ st.closers[c] = Occurs(raw, n, c)
                               /\ Occurs(raw, n, Opener[c]) = Occurs(raw, Len(raw), Opener[c])
  BY DEF Trimming
<1>3. \A m \in (n + 1)..Len(raw) : ~Stays(raw, m)
  BY DEF Trimming
<1>4. \A c : Occurs(raw, n, c) \in Nat /\ Occurs(raw, n - 1, c) \in Nat
  BY OccursNext
<1>5. \A c : raw[n] # c => Occurs(raw, n, c) = Occurs(raw, n - 1, c)
  BY OccursNext
<1>6. ASSUME ~Stays(raw, n), NEW m \in ((n - 1) + 1)..Len(raw)
      PROVE  ~Stays(raw, m)
  <2>1. m = n \/ m \in (n + 1)..Len(raw)
    BY <1>1
  <2> QED
    BY <1>3, <1>6, <2>1
<1>7. CASE raw[n] \in SentenceEnd
  <2>1. PICK t : t = TrimRound(raw, st, n)
    OBVIOUS
  <2>2. t = [st EXCEPT !.len = n - 1]
    BY <1>1, <1>7, <2>1 DEF TrimRound
  <2>3. t.len = n - 1 /\ t.closers = st.closers
    BY <2>2 DEF TrimState
  <2>4. ~Stays(raw, n)
    BY <1>7 DEF Stays
  <2>5. \A c \in DOMAIN Opener : raw[n] # c /\ raw[n] # Opener[c]
    BY <1>7 DEF SentenceEnd, Opener
  <2>6. \A c \in DOMAIN Opener :
           /\ t.closers[c] = Occurs(raw, n - 1, c)
           /\ Occurs(raw, n - 1, Opener[c]) = Occurs(raw, Len(raw), Opener[c])
    BY <1>2, <1>5, <2>3, <2>5
  <2> QED
    BY <1>6, <2>1, <2>3, <2>4, <2>6 DEF Trimming
<1>8. CASE raw[n] \notin SentenceEnd /\ raw[n] \in DOMAIN Opener
           /\ Occurs(raw, Len(raw), Opener[raw[n]]) < st.closers[raw[n]]
  <2>1. PICK t : t = TrimRound(raw, st, n)
    OBVIOUS
  <2>2. t = [len |-> n - 1, closers |-> [st.closers EXCEPT ![raw[n]] = @ - 1]]
    BY <1>1, <1>8, <2>1 DEF TrimRound
  <2>3. t.len = n - 1 /\ t.closers = [st.closers EXCEPT ![raw[n]] = @ - 1]
    BY <2>2
  <2>4. ~Stays(raw, n)
    <3>1. PICK x \in Nat, y \in Nat : x = Occurs(raw, n, Opener[raw[n]]) /\ y = Occurs(raw, n, raw[n]) /\ x < y
      BY <1>2, <1>4, <1>8
    <3>2. ~(x >= y)
      BY <3>1
    <3> QED
      BY <1>8, <3>1, <3>2, Zenon DEF Stays
  <2>5. ASSUME NEW c \in DOMAIN Opener
        PROVE  /\ t.closers[c] = Occurs(raw, n - 1, c)
               /\ Occurs(raw, n - 1, Opener[c]) = Occurs(raw, Len(raw), Opener[c])
    <3>1. raw[n] # Opener[c]
      BY <1>8, OpenersDiffer
    <3>2. CASE c = raw[n]
      <4>1. Occurs(raw, n, c) = Occurs(raw, n - 1, c) + 1
        BY <3>2, OccursNext
      <4>2. t.closers[c] = st.closers[c] - 1
        BY <1>1, <2>3, <3>2
      <4>3. PICK x \in Nat : x = Occurs(raw, n - 1, c)
        BY <1>4
      <4>4. t.closers[c] = x
        BY <1>2, <4>1, <4>2, <4>3
      <4> QED
        BY <1>2, <1>5, <3>1, <4>3, <4>4
    <3>3. CASE c # raw[n]
      <4>1. t.closers[c] = st.closers[c]
        BY <1>1, <2>3, <3>3
      <4> QED
        BY <1>2, <1>5, <3>1, <3>3, <4>1
    <3> QED
      BY <3>2, <3>3
  <2> QED
    BY <1>6, <2>1, <2>3, <2>4, <2>5 DEF Trimming
<1>9. CASE raw[n] \notin SentenceEnd /\ ~(raw[n] \in DOMAIN Opener
           /\ Occurs(raw, Len(raw), Opener[raw[n]]) < st.closers[raw[n]])
  <2>1. TrimRound(raw, st, n) = st
    BY <1>9, Zenon DEF TrimRound
  <2>2. raw[n] \in DOMAIN Opener => Occurs(raw, n, Opener[raw[n]]) >= Occurs(raw, n, raw[n])
    <3> SUFFICES ASSUME raw[n] \in DOMAIN Opener PROVE Occurs(raw, n, Opener[raw[n]]) >= Occurs(raw, n, raw[n])
      OBVIOUS
    <3>1. PICK x \in Nat, y \in Nat : x = Occurs(raw, n, Opener[raw[n]]) /\ y = Occurs(raw, n, raw[n]) /\ ~(x < y)
      BY <1>2, <1>4, <1>9
    <3>2. x >= y
      BY <3>1
    <3> QED
      BY <3>1, <3>2
  <2>3. Stays(raw, n)
    BY <1>9, <2>2, Zenon DEF Stays
  <2>4. n \in ((n - 1) + 1)..Len(raw)
    BY <1>1
  <2> QED
    BY <1>1, <1>3, <2>1, <2>3, <2>4 DEF Trimmed
<1> QED
  BY <1>7, <1>8, <1>9

\* Once the loop has returned, the other rounds change nothing.
LEMMA ReturnedStays ==
    ASSUME NEW raw \in Seq(Symbol), NEW st \in TrimState, NEW n \in 1..Len(raw), Trimmed(raw, st, n)
    PROVE  Trimmed(raw, TrimRound(raw, st, n), n - 1)
<1>1. PICK k : k = st.len
  OBVIOUS
<1>2. k \in (n + 1)..Len(raw) /\ Len(raw) \in Nat
  BY <1>1 DEF Trimmed
<1>3. k # n /\ k \in ((n - 1) + 1)..Len(raw)
  BY <1>2
<1>4. TrimRound(raw, st, n) = st
  BY <1>1, <1>3, Zenon DEF TrimRound
<1> QED
  BY <1>1, <1>3, <1>4, Zenon DEF Trimmed

\* The loop leaves what counting the brackets anew at every step would.
LEMMA TallyIsRecount ==
    ASSUME NEW raw \in Seq(Symbol)
    PROVE  trimURLTail(raw) = Recounted(raw)
<1> DEFINE L == Len(raw)
           Rounds(b) == [k \in 0..L |-> IF k = 0 THEN Tallied(raw) ELSE TrimRound(raw, b[k - 1], L + 1 - k)]
           step == [k \in 1..L |-> [st \in TrimState |-> TrimRound(raw, st, L + 1 - k)]]
<1>1. L \in Nat
  OBVIOUS
<1>2. step \in [1..L -> [TrimState -> TrimState]]
  BY <1>1, TrimRoundType
<1>3. \A k \in 1..L, st \in TrimState : step[k][st] = TrimRound(raw, st, L + 1 - k)
  OBVIOUS
<1> HIDE DEF step
<1>4. PICK g \in [0..L -> TrimState] : IsLoop(g, L, Tallied(raw), step)
  BY <1>1, <1>2, TalliedType, LoopRuns
<1>5. g = Rounds(g)
  <2>1. ASSUME NEW k \in 0..L
        PROVE  g[k] = IF k = 0 THEN Tallied(raw) ELSE TrimRound(raw, g[k - 1], L + 1 - k)
    <3>1. CASE k = 0
      BY <1>4, <3>1 DEF IsLoop
    <3>2. CASE k # 0
      <4>1. k \in 1..L /\ k - 1 \in 0..L
        BY <1>1, <3>2
      <4>2. g[k] = step[k][g[k - 1]] /\ g[k - 1] \in TrimState
        BY <1>4, <4>1 DEF IsLoop
      <4> QED
        BY <1>3, <3>2, <4>1, <4>2
    <3> QED
      BY <3>1, <3>2
  <2> QED
    BY <2>1
<1>6. \E b : b = Rounds(b) /\ trimURLTail(raw) = SubSeq(raw, 1, b[L].len)
  BY <1>5, Zenon DEF trimURLTail
<1>7. PICK b : b = Rounds(b) /\ trimURLTail(raw) = SubSeq(raw, 1, b[L].len)
  BY <1>6
<1>8. \A k \in 0..L : b[k] = IF k = 0 THEN Tallied(raw) ELSE TrimRound(raw, b[k - 1], L + 1 - k)
  BY <1>7, Zenon
<1> HIDE DEF Rounds
<1> DEFINE G == {k \in 0..L : b[k] \in TrimState
                              /\ (Trimming(raw, b[k], L - k) \/ Trimmed(raw, b[k], L - k))}
<1>9. 0 \in G
  <2>1. 0 \in 0..L /\ L - 0 = L
    BY <1>1
  <2>2. b[0] = Tallied(raw)
    BY <1>8, <2>1, Zenon
  <2> QED
    BY <2>1, <2>2, TalliedType
<1>10. ASSUME NEW k \in 1..L, k - 1 \in G PROVE k \in G
  <2>1. PICK n \in 1..L : n = L + 1 - k /\ n = L - (k - 1) /\ n - 1 = L - k
    <3>1. PICK l \in Nat : l = L
      BY <1>1
    <3>2. l + 1 - k \in 1..l /\ l + 1 - k = l - (k - 1) /\ (l + 1 - k) - 1 = l - k
      BY <3>1
    <3> QED
      BY <3>1, <3>2
  <2>2. PICK st \in TrimState : st = b[k - 1] /\ (Trimming(raw, st, n) \/ Trimmed(raw, st, n))
    BY <1>10, <2>1
  <2>3. k \in 0..L /\ k # 0
    BY <1>1
  <2>4. b[k] = TrimRound(raw, st, n)
    BY <1>8, <2>1, <2>2, <2>3
  <2>5. TrimRound(raw, st, n) \in TrimState
    BY <1>1, TrimRoundType
  <2>6. Trimming(raw, b[k], n - 1) \/ Trimmed(raw, b[k], n - 1)
    BY <2>2, <2>4, TrimRoundStep, ReturnedStays
  <2> QED
    BY <2>1, <2>3, <2>4, <2>5, <2>6
<1> HIDE DEF G
<1>11. L \in G
  <2>1. L \in 0..L
    BY <1>1
  <2> HIDE DEF L
  <2> QED
    BY <1>1, <1>9, <1>10, <2>1, Induct
<1>12. PICK st \in TrimState : st = b[L] /\ (Trimming(raw, st, 0) \/ Trimmed(raw, st, 0))
  <2>1. L - L = 0
    BY <1>1
  <2> QED
    BY <1>11, <2>1 DEF G
<1> DEFINE S == {n \in 1..L : Stays(raw, n)} \cup {0}
<1>13. Recounted(raw) = SubSeq(raw, 1, Max(S))
  BY Zenon DEF Recounted, Stays
<1>14. PICK k \in Nat : k = st.len /\ k \in S /\ \A m \in S : m <= k
  <2>1. CASE Trimming(raw, st, 0)
    <3>1. st.len = 0 /\ \A m \in (0 + 1)..L : ~Stays(raw, m)
      BY <2>1 DEF Trimming
    <3>2. S = {0}
      BY <3>1
    <3> QED
      BY <3>1, <3>2
  <2>2. CASE Trimmed(raw, st, 0)
    <3>1. PICK x \in 1..L : x = st.len
      BY <1>1, <2>2 DEF Trimmed
    <3>2. Stays(raw, x) /\ \A m \in (x + 1)..L : ~Stays(raw, m)
      BY <2>2, <3>1 DEF Trimmed
    <3>3. ASSUME NEW m \in S PROVE m <= x
      BY <1>1, <3>2, <3>3
    <3> QED
      BY <3>1, <3>2, <3>3
  <2> QED
    BY <1>12, <2>1, <2>2
<1>15. S \in SUBSET Nat
  BY <1>1
<1> HIDE DEF S, L
<1>16. Max(S) \in S /\ \A m \in S : m <= Max(S)
  BY <1>14, <1>15, LargestNat
<1>17. Max(S) = k
  <2>1. PICK x \in Nat : x = Max(S) /\ x <= k /\ k <= x
    BY <1>14, <1>15, <1>16
  <2> QED
    BY <2>1
<1> QED
  BY <1>7, <1>12, <1>13, <1>14, <1>17, Zenon

\* A token ends at a terminator, or with the text.
LEMMA TokenEndStops ==
    ASSUME NEW s \in Seq(Symbol), NEW i \in 1..Len(s)
    PROVE  /\ TokenEnd(s, i) \in i..(Len(s) + 1)
           /\ TokenEnd(s, i) \in 1..Len(s) => isURLTerminator(s[TokenEnd(s, i)])
           /\ \A j \in i..Len(s) : isURLTerminator(s[j]) => TokenEnd(s, i) <= j
<1> DEFINE T == {j \in i..Len(s) : isURLTerminator(s[j])} \cup {Len(s) + 1}
<1>1. T \in SUBSET Nat /\ T # {} /\ T \subseteq i..(Len(s) + 1)
  OBVIOUS
<1>2. \A j \in T : j \in 1..Len(s) => isURLTerminator(s[j])
  OBVIOUS
<1>3. \A j \in i..Len(s) : isURLTerminator(s[j]) => j \in T
  OBVIOUS
<1>4. TokenEnd(s, i) = Min(T)
  BY Zenon DEF TokenEnd
<1> HIDE DEF T
<1>5. Min(T) \in T /\ \A j \in T : Min(T) <= j
  BY <1>1, LeastNat
<1> QED
  BY <1>1, <1>2, <1>3, <1>4, <1>5

\* trimURLTail's tallies, counted once and kept up to date, cut off what its
\* quadratic form would, of every text that may be a URL of any message.
THEOREM TrimmedByTally == Spec => []TrimmedAsRecounted
<1>1. ScanTypeOK => TrimmedAsRecounted
  <2> SUFFICES ASSUME ScanTypeOK, NEW i \in DOMAIN Plain
               PROVE  trimURLTail(SubSeq(Plain, i, TokenEnd(Plain, i) - 1))
                        = Recounted(SubSeq(Plain, i, TokenEnd(Plain, i) - 1))
    BY DEF TrimmedAsRecounted
  <2>1. PICK s \in Seq(Symbol) : s = Plain
    BY PlainType
  <2>2. i \in 1..Len(s)
    BY <2>1
  <2>3. PICK e \in i..(Len(s) + 1) : e = TokenEnd(s, i)
    BY <2>2, TokenEndStops
  <2>4. SubSeq(s, i, e - 1) \in Seq(Symbol)
    BY <2>2, <2>3
  <2> QED
    BY <2>1, <2>3, <2>4, TallyIsRecount
<1> QED
  BY <1>1, ScanTypes, PTL

-----------------------------------------------------------------------------
(* What scanHTML reports.                                                  *)

\* A boundary lies behind all that was seen before token p of document d.
Crossed(d, p) ==
    \E i \in 1..(p - 1) : /\ d[i].kind # "text" /\ separatesText(d[i].tag)
                          /\ \A j \in Seen(d) : j < p => j < i

AnchorTag(d, j) == d[j].kind # "text" /\ d[j].tag = "a"

\* The anchor that token k begins is still open before token p.
OpenAt(d, k, p) ==
    /\ d[k].kind = "start" /\ d[k].tag = "a"
    /\ \A j \in (k + 1)..(p - 1) : ~AnchorTag(d, j)

\* The text tokens that an anchor begun by token k may hold.
After(d, k) == {j \in Seen(d) : j > k}

\* The entry of a link without its text, and with it.
Begun(d, k) == [url |-> d[k].href, anchor |-> <<>>]
Settled(d, k) == [url |-> d[k].href, anchor |-> IF d[k].tag = "a" THEN AnchorText(d, k) ELSE <<>>]

\* The hrefs before token p: one entry for each, and the text of all but the
\* anchor that is open.
HrefsOK(d, h, p) ==
    /\ Len(h) = Rank(d, p - 1)
    /\ \A k \in Linking(d) : k < p =>
          h[Rank(d, k)] = IF OpenAt(d, k, p) THEN Begun(d, k) ELSE Settled(d, k)

\* The open anchor before token p has the text seen since it began.
OpenOK(d, o, p) ==
    \/ o = NoAnchor /\ \A k \in 1..(p - 1) : ~OpenAt(d, k, p)
    \/ \E k \in 1..(p - 1) :
          OpenAt(d, k, p) /\ o = [at |-> Rank(d, k), anchor |-> Rendered(d, After(d, k), " ", p - 1)]

\* All hrefs before token p have their text.
HrefsSettled(d, h, p) ==
    /\ Len(h) = Rank(d, p - 1)
    /\ \A k \in Linking(d) : k < p => h[Rank(d, k)] = Settled(d, k)

\* scanHTML, at token next, holds what a reader has seen so far.
SeenInv ==
    /\ visible = Rendered(msg.html, Seen(msg.html), "nl", next - 1)
    /\ pendingBreak <=> Crossed(msg.html, next)
    /\ \/ result = <<>> /\ HrefsOK(msg.html, hrefs, next) /\ OpenOK(msg.html, open, next)
       \/ result # <<>> /\ next = Len(msg.html) + 1 /\ HrefsSettled(msg.html, hrefs, next)

\* Links are counted by their tokens.
LEMMA RankFinite ==
    ASSUME NEW d \in Seq(HTMLToken), NEW k
    PROVE  IsFiniteSet({j \in Linking(d) : j <= k}) /\ Rank(d, k) \in Nat
<1>1. IsFiniteSet(1..Len(d)) /\ {j \in Linking(d) : j <= k} \subseteq 1..Len(d)
  BY FS_Interval DEF Linking
<1> QED
  BY <1>1, FS_Subset, FS_CardinalityType DEF Rank

\* How the rank grows over one token.
LEMMA RankNext ==
    ASSUME NEW d \in Seq(HTMLToken), NEW p \in 1..Len(d)
    PROVE  /\ p \in Linking(d) => Rank(d, p) = Rank(d, p - 1) + 1
           /\ p \notin Linking(d) => Rank(d, p) = Rank(d, p - 1)
<1> DEFINE A == {j \in Linking(d) : j <= p - 1}
           B == {j \in Linking(d) : j <= p}
<1>1. \A j \in Linking(d) : j \in Nat
  BY DEF Linking
<1>2. \A j \in Linking(d) : (j <= p <=> j <= p - 1 \/ j = p) /\ ~(p <= p - 1) /\ p <= p
  BY <1>1
<1>3. (p \in Linking(d) => B = A \cup {p}) /\ (p \notin Linking(d) => B = A)
  BY <1>2
<1>4. p \notin A
  OBVIOUS
<1>5. IsFiniteSet(A)
  BY RankFinite
<1> HIDE DEF A, B
<1>6. Cardinality(A \cup {p}) = Cardinality(A) + 1
  BY <1>4, <1>5, FS_AddElement
<1>7. Rank(d, p - 1) = Cardinality(A) /\ Rank(d, p) = Cardinality(B)
  BY DEF Rank, A, B
<1>8. CASE p \in Linking(d)
  BY <1>3, <1>6, <1>7, <1>8
<1>9. CASE p \notin Linking(d)
  BY <1>3, <1>7, <1>9
<1> QED
  BY <1>8, <1>9

\* Later links come later.
LEMMA RankOrder ==
    ASSUME NEW d \in Seq(HTMLToken), NEW k \in Linking(d), NEW j \in Int, j < k
    PROVE  Rank(d, j) < Rank(d, k)
<1> DEFINE A == {i \in Linking(d) : i <= j}
           B == {i \in Linking(d) : i <= k}
<1>1. \A i \in Linking(d) : i \in Nat
  BY DEF Linking
<1>2. A \in SUBSET B /\ k \in B /\ k \notin A
  BY <1>1
<1>3. IsFiniteSet(B) /\ Rank(d, j) \in Nat /\ Rank(d, k) \in Nat
  BY RankFinite
<1>4. Rank(d, j) = Cardinality(A) /\ Rank(d, k) = Cardinality(B)
  BY DEF Rank
<1> HIDE DEF A, B
<1>5. Cardinality(A) <= Cardinality(B) /\ Cardinality(A) # Cardinality(B)
  BY <1>2, <1>3, FS_Subset
<1>6. PICK x \in Nat, y \in Nat : x = Rank(d, j) /\ y = Rank(d, k) /\ x <= y /\ x # y
  BY <1>3, <1>4, <1>5
<1>7. x < y
  BY <1>6
<1> QED
  BY <1>6, <1>7

\* The entry of a link before token p is among those reported.
LEMMA RankRange ==
    ASSUME NEW d \in Seq(HTMLToken), NEW p \in 1..(Len(d) + 1), NEW k \in Linking(d), k < p
    PROVE  Rank(d, k) \in 1..Rank(d, p - 1)
<1>1. k \in Nat /\ k >= 1
  BY DEF Linking
<1>2. Rank(d, k) \in Nat /\ Rank(d, p - 1) \in Nat /\ Rank(d, 0) \in Nat
  BY RankFinite
<1>3. Rank(d, 0) < Rank(d, k)
  BY <1>1, RankOrder
<1>4. {j \in Linking(d) : j <= k} \subseteq {j \in Linking(d) : j <= p - 1}
  BY <1>1 DEF Linking
<1>5. Rank(d, k) <= Rank(d, p - 1)
  <2>1. IsFiniteSet({j \in Linking(d) : j <= p - 1})
    BY RankFinite
  <2> QED
    BY <1>4, <2>1, FS_Subset, Zenon DEF Rank
<1>6. PICK x \in Nat, y \in Nat, z \in Nat : x = Rank(d, 0) /\ y = Rank(d, k) /\ z = Rank(d, p - 1)
  BY <1>2
<1>7. y \in 1..z
  BY <1>3, <1>5, <1>6
<1> QED
  BY <1>6, <1>7

\* Two linking tokens have two ranks.
LEMMA RankApart ==
    ASSUME NEW d \in Seq(HTMLToken), NEW j \in Linking(d), NEW k \in Linking(d), j # k
    PROVE  Rank(d, j) # Rank(d, k)
<1>1. j \in Nat /\ k \in Nat
  BY DEF Linking
<1>2. Rank(d, j) \in Nat /\ Rank(d, k) \in Nat
  BY RankFinite
<1>3. CASE j < k
  BY <1>1, <1>2, <1>3, RankOrder
<1>4. CASE k < j
  BY <1>1, <1>2, <1>4, RankOrder
<1> QED
  BY <1>1, <1>3, <1>4

-----------------------------------------------------------------------------
(* Rendering.                                                              *)

\* What token k adds to the text t of the tokens before it.
RenderRound(d, tokens, glue, t, k) ==
    IF k \notin tokens THEN t
    ELSE IF Parted(d, tokens, k) THEN t \o <<glue>> \o d[k].data
    ELSE t \o d[k].data

\* Rendering one more token yields a text, and never an empty one.
LEMMA RenderRoundType ==
    ASSUME NEW d \in Seq(HTMLToken), NEW tokens, \A k \in tokens : k \in DOMAIN d /\ d[k].kind = "text",
           NEW glue \in Symbol, NEW t \in Seq(Symbol), NEW k
    PROVE  /\ RenderRound(d, tokens, glue, t, k) \in Seq(Symbol)
           /\ k \in tokens => RenderRound(d, tokens, glue, t, k) # <<>>
<1>1. CASE k \notin tokens
  BY <1>1, Zenon DEF RenderRound
<1>2. CASE k \in tokens
  <2>1. PICK c \in Seq(Symbol) : c = d[k].data /\ c # <<>>
    <3>1. d[k] \in HTMLToken /\ d[k].kind = "text"
      BY <1>2
    <3> QED
      BY <3>1 DEF HTMLToken
  <2>2. Len(c) # 0 /\ Len(c) \in Nat
    BY <2>1
  <2>3. t \o <<glue>> \o c \in Seq(Symbol) /\ Len(t \o <<glue>> \o c) = Len(t) + 1 + Len(c)
    OBVIOUS
  <2>4. t \o c \in Seq(Symbol) /\ Len(t \o c) = Len(t) + Len(c)
    OBVIOUS
  <2>5. t \o <<glue>> \o c # <<>> /\ t \o c # <<>>
    <3>1. Len(t) \in Nat
      OBVIOUS
    <3>2. Len(t) + 1 + Len(c) # 0 /\ Len(t) + Len(c) # 0
      BY <2>2, <3>1
    <3> QED
      BY <2>3, <2>4, <3>2
  <2> QED
    BY <1>2, <2>1, <2>3, <2>4, <2>5, Zenon DEF RenderRound
<1> QED
  BY <1>1, <1>2

\* Rendered, token by token: it is empty until the first token of the set.
LEMMA RenderedStep ==
    ASSUME NEW d \in Seq(HTMLToken), NEW tokens, \A k \in tokens : k \in DOMAIN d /\ d[k].kind = "text",
           NEW glue \in Symbol
    PROVE  /\ Rendered(d, tokens, glue, 0) = <<>>
           /\ \A k \in 1..Len(d) :
                 Rendered(d, tokens, glue, k)
                   = RenderRound(d, tokens, glue, Rendered(d, tokens, glue, k - 1), k)
           /\ \A k \in 0..Len(d) :
                 /\ Rendered(d, tokens, glue, k) \in Seq(Symbol)
                 /\ Rendered(d, tokens, glue, k) = <<>> <=> \A j \in tokens : ~(j <= k)
<1> DEFINE L == Len(d)
           Rounds(b) == [k \in 0..L |-> IF k = 0 THEN <<>> ELSE RenderRound(d, tokens, glue, b[k - 1], k)]
           step == [k \in 1..L |-> [t \in Seq(Symbol) |-> RenderRound(d, tokens, glue, t, k)]]
<1>1. L \in Nat /\ DOMAIN d = 1..L
  OBVIOUS
<1>2. step \in [1..L -> [Seq(Symbol) -> Seq(Symbol)]]
  BY RenderRoundType
<1>3. \A k \in 1..L, t \in Seq(Symbol) : step[k][t] = RenderRound(d, tokens, glue, t, k)
  OBVIOUS
<1> HIDE DEF step
<1>4. PICK g \in [0..L -> Seq(Symbol)] : IsLoop(g, L, <<>>, step)
  BY <1>1, <1>2, EmptyText, LoopRuns
<1>5. g = Rounds(g)
  <2>1. ASSUME NEW k \in 0..L
        PROVE  g[k] = IF k = 0 THEN <<>> ELSE RenderRound(d, tokens, glue, g[k - 1], k)
    <3>1. CASE k = 0
      BY <1>4, <3>1 DEF IsLoop
    <3>2. CASE k # 0
      <4>1. k \in 1..L /\ k - 1 \in 0..L
        BY <1>1, <3>2
      <4>2. g[k] = step[k][g[k - 1]] /\ g[k - 1] \in Seq(Symbol)
        BY <1>4, <4>1 DEF IsLoop
      <4> QED
        BY <1>3, <3>2, <4>1, <4>2
    <3> QED
      BY <3>1, <3>2
  <2> QED
    BY <2>1
<1>6. \E b : b = Rounds(b) /\ \A k : Rendered(d, tokens, glue, k) = b[k]
  BY <1>5, Zenon DEF Rendered, RenderRound
<1>7. PICK b : b = Rounds(b) /\ \A k : Rendered(d, tokens, glue, k) = b[k]
  BY <1>6
<1>8. \A k \in 0..L : b[k] = IF k = 0 THEN <<>> ELSE RenderRound(d, tokens, glue, b[k - 1], k)
  BY <1>7, Zenon
<1> HIDE DEF Rounds
<1>9. b[0] = <<>>
  <2>1. 0 \in 0..L
    BY <1>1
  <2> QED
    BY <1>8, <2>1, Zenon
<1>10. ASSUME NEW k \in 1..L PROVE b[k] = RenderRound(d, tokens, glue, b[k - 1], k)
  <2>1. k \in 0..L /\ k # 0
    BY <1>1
  <2> QED
    BY <1>8, <2>1, Zenon
<1> DEFINE Fits(k) == b[k] \in Seq(Symbol) /\ (b[k] = <<>> <=> \A j \in tokens : ~(j <= k))
           G == {k \in 0..L : Fits(k)}
<1>11. 0 \in G
  <2>1. 0 \in 0..L /\ \A j \in tokens : ~(j <= 0)
    BY <1>1
  <2>2. b[0] \in Seq(Symbol)
    BY <1>9, EmptyText, Zenon
  <2> QED
    BY <1>9, <2>1, <2>2, Zenon
<1>12. ASSUME NEW k \in 1..L, k - 1 \in G PROVE k \in G
  <2>1. PICK t \in Seq(Symbol) : t = b[k - 1] /\ (t = <<>> <=> \A j \in tokens : ~(j <= k - 1))
    BY <1>12
  <2>2. b[k] = RenderRound(d, tokens, glue, t, k) /\ b[k] \in Seq(Symbol) /\ (k \in tokens => b[k] # <<>>)
    BY <1>10, <2>1, RenderRoundType
  <2>3. k \in 0..L /\ k <= k
    BY <1>1
  <2>4. CASE k \in tokens
    BY <2>2, <2>3, <2>4, Zenon
  <2>5. CASE k \notin tokens
    <3>1. b[k] = t
      BY <2>2, <2>5, Zenon DEF RenderRound
    <3>2. \A j \in tokens : j <= k <=> j <= k - 1
      BY <1>1, <2>5
    <3> QED
      BY <2>1, <2>2, <2>3, <3>1, <3>2, Zenon
  <2> QED
    BY <2>4, <2>5
<1>13. \A k \in 0..L : k \in G
  <2> HIDE DEF G, L
  <2> QED
    BY <1>1, <1>11, <1>12, Induct
<1>14. \A k \in 0..L : Fits(k)
  <2> HIDE DEF Fits
  <2> QED
    BY <1>13, Zenon
<1> QED
  BY <1>7, <1>9, <1>10, <1>14, Zenon

\* What is seen, and what is seen in an anchor, are text tokens.
LEMMA SeenTokens ==
    ASSUME NEW d
    PROVE  /\ \A k \in Seen(d) : k \in DOMAIN d /\ d[k].kind = "text"
           /\ \A i : \A k \in After(d, i) : k \in DOMAIN d /\ d[k].kind = "text"
  BY DEF Seen, After

\* A boundary is crossed by its tag, until the next text that is seen.
LEMMA CrossedNext ==
    ASSUME NEW d \in Seq(HTMLToken), NEW p \in 1..Len(d)
    PROVE  /\ p \in Seen(d) => ~Crossed(d, p + 1)
           /\ p \notin Seen(d) =>
                 (Crossed(d, p + 1) <=> Crossed(d, p) \/ (d[p].kind # "text" /\ separatesText(d[p].tag)))
<1> DEFINE Break(i) == d[i].kind # "text" /\ separatesText(d[i].tag)
           Behind(i, q) == \A j \in Seen(d) : j < q => j < i
<1>1. \A j \in Seen(d) : j \in Nat
  BY SeenTokens
<1>2. (p + 1) - 1 = p
  OBVIOUS
<1>3. /\ Crossed(d, p + 1) <=> \E i \in 1..p : Break(i) /\ Behind(i, p + 1)
      /\ Crossed(d, p) <=> \E i \in 1..(p - 1) : Break(i) /\ Behind(i, p)
  BY <1>2 DEF Crossed
<1>4. ASSUME p \in Seen(d), NEW i \in 1..p, Behind(i, p + 1) PROVE FALSE
  <2>1. p < p + 1 /\ ~(p < i)
    OBVIOUS
  <2> QED
    BY <1>4, <2>1
<1>5. ASSUME p \notin Seen(d) PROVE \A i : Behind(i, p + 1) <=> Behind(i, p)
  <2>1. \A j \in Seen(d) : j < p + 1 <=> j < p
    BY <1>1, <1>5
  <2> QED
    BY <2>1
<1>6. Behind(p, p)
  OBVIOUS
<1>7. \A i : i \in 1..p <=> i \in 1..(p - 1) \/ i = p
  OBVIOUS
<1> HIDE DEF Break, Behind
<1>8. p \notin Seen(d) => (Crossed(d, p + 1) <=> Crossed(d, p) \/ Break(p))
  BY <1>3, <1>5, <1>6, <1>7, Zenon
<1>9. p \in Seen(d) => ~Crossed(d, p + 1)
  BY <1>3, <1>4, Zenon
<1> QED
  BY <1>8, <1>9, Zenon DEF Break

\* What parts a text from all that was seen parts it from the anchor's text.
LEMMA PartedSeen ==
    ASSUME NEW d, NEW p
    PROVE  Parted(d, Seen(d), p) <=> (\E j \in Seen(d) : j < p) /\ Crossed(d, p)
  BY Zenon DEF Parted, Crossed

\* The same for the text of an anchor opened before.
LEMMA PartedAfter ==
    ASSUME NEW d \in Seq(HTMLToken), NEW p \in 1..Len(d), NEW k \in 1..(p - 1)
    PROVE  Parted(d, After(d, k), p) <=> (\E j \in After(d, k) : j < p) /\ Crossed(d, p)
<1>1. \A j \in Seen(d) : j \in Nat
  BY SeenTokens
<1>2. \A j \in After(d, k) : j \in Seen(d) /\ k < j
  BY <1>1 DEF After
<1>3. Crossed(d, p) /\ (\E j \in After(d, k) : j < p) => Parted(d, After(d, k), p)
  BY <1>2, Zenon DEF Parted, Crossed
<1>4. ASSUME Parted(d, After(d, k), p) PROVE Crossed(d, p) /\ \E j \in After(d, k) : j < p
  <2>1. PICK l \in After(d, k) : l < p
    BY <1>4, Zenon DEF Parted
  <2>2. PICK i \in 1..(p - 1) : /\ d[i].kind # "text" /\ separatesText(d[i].tag)
                                /\ \A j \in After(d, k) : j < p => j < i
    BY <1>4, Zenon DEF Parted
  <2>3. ASSUME NEW j \in Seen(d), j < p PROVE j < i
    <3>1. CASE j > k
      BY <2>2, <2>3, <3>1 DEF After
    <3>2. CASE ~(j > k)
      <4>1. k < l /\ l < i /\ l \in Nat
        BY <1>1, <1>2, <2>1, <2>2
      <4> QED
        BY <1>1, <3>2, <4>1
    <3> QED
      BY <3>1, <3>2
  <2> QED
    BY <2>1, <2>2, <2>3, Zenon DEF Crossed
<1> QED
  BY <1>3, <1>4

\* Text that is seen is glued to what came before as the tokens are parted.
LEMMA GluedText ==
    ASSUME NEW d \in Seq(HTMLToken), NEW p \in 1..Len(d), p \in Seen(d), NEW T, NEW c \in Symbol,
           \/ T = Seen(d)
           \/ \E k \in 1..(p - 1) : T = After(d, k)
    PROVE  LET s == Rendered(d, T, c, p - 1)
           IN  Rendered(d, T, c, p) = IF Crossed(d, p) /\ s # <<>> THEN s \o <<c>> \o d[p].data
                                      ELSE s \o d[p].data
<1>1. \A j \in T : j \in DOMAIN d /\ d[j].kind = "text" /\ j \in Nat
  <2>1. \A j \in T : j \in DOMAIN d /\ d[j].kind = "text"
    BY SeenTokens, Zenon
  <2>2. DOMAIN d \subseteq Nat
    OBVIOUS
  <2> QED
    BY <2>1, <2>2
<1>2. p \in T
  <2>1. \A k \in 1..(p - 1) : p > k
    OBVIOUS
  <2> QED
    BY <2>1 DEF After
<1>3. Parted(d, T, p) <=> (\E j \in T : j < p) /\ Crossed(d, p)
  BY PartedSeen, PartedAfter
<1>4. p - 1 \in 0..Len(d) /\ \A j \in T : j <= p - 1 <=> j < p
  BY <1>1
<1>5. PICK s : s = Rendered(d, T, c, p - 1)
  OBVIOUS
<1>6. s = <<>> <=> \A j \in T : ~(j <= p - 1)
  BY <1>1, <1>4, <1>5, RenderedStep
<1>7. s # <<>> <=> \E j \in T : j < p
  BY <1>4, <1>6
<1>8. Rendered(d, T, c, p) = RenderRound(d, T, c, s, p)
  BY <1>1, <1>5, RenderedStep
<1>9. Rendered(d, T, c, p) = IF Crossed(d, p) /\ s # <<>> THEN s \o <<c>> \o d[p].data
                             ELSE s \o d[p].data
  BY <1>2, <1>3, <1>7, <1>8, Zenon DEF RenderRound
<1> QED
  BY <1>5, <1>9, Zenon

\* Any other token adds nothing.
LEMMA UnseenToken ==
    ASSUME NEW d \in Seq(HTMLToken), NEW p \in 1..Len(d), p \notin Seen(d), NEW c \in Symbol
    PROVE  /\ Rendered(d, Seen(d), c, p) = Rendered(d, Seen(d), c, p - 1)
           /\ \A k : Rendered(d, After(d, k), c, p) = Rendered(d, After(d, k), c, p - 1)
<1>1. ASSUME NEW T, p \notin T, \A j \in T : j \in DOMAIN d /\ d[j].kind = "text"
      PROVE  Rendered(d, T, c, p) = Rendered(d, T, c, p - 1)
  <2>1. Rendered(d, T, c, p) = RenderRound(d, T, c, Rendered(d, T, c, p - 1), p)
    BY <1>1, RenderedStep
  <2> QED
    BY <1>1, <2>1, Zenon DEF RenderRound
<1>2. \A k : p \notin After(d, k)
  BY DEF After
<1> QED
  BY <1>1, <1>2, SeenTokens, Zenon

\* An anchor tag closes what was open, and nothing else does.
LEMMA OpenNext ==
    ASSUME NEW d, NEW p \in Nat \ {0}
    PROVE  /\ ~AnchorTag(d, p) => \A k \in 1..(p - 1) : OpenAt(d, k, p + 1) <=> OpenAt(d, k, p)
           /\ AnchorTag(d, p) => \A k \in 1..(p - 1) : ~OpenAt(d, k, p + 1)
           /\ OpenAt(d, p, p + 1) <=> d[p].kind = "start" /\ d[p].tag = "a"
<1>1. (p + 1) - 1 = p
  OBVIOUS
<1>2. \A k \in 1..(p - 1) : \A j : j \in (k + 1)..p <=> j \in (k + 1)..(p - 1) \/ j = p
  OBVIOUS
<1>3. \A j \in (p + 1)..p : FALSE
  OBVIOUS
<1>4. \A k : OpenAt(d, k, p + 1) <=> /\ d[k].kind = "start" /\ d[k].tag = "a"
                                     /\ \A j \in (k + 1)..p : ~AnchorTag(d, j)
  BY <1>1 DEF OpenAt
<1>5. OpenAt(d, p, p + 1) <=> d[p].kind = "start" /\ d[p].tag = "a"
  BY <1>3, <1>4
<1>6. \A k \in 1..(p - 1) : OpenAt(d, k, p + 1) <=> OpenAt(d, k, p) /\ ~AnchorTag(d, p)
  BY <1>2, <1>4, Zenon DEF OpenAt
<1> QED
  BY <1>5, <1>6, Zenon

\* At most one anchor is open.
LEMMA OneOpen ==
    ASSUME NEW d, NEW p \in Nat, NEW j \in 1..(p - 1), NEW k \in 1..(p - 1),
           OpenAt(d, j, p), OpenAt(d, k, p)
    PROVE  j = k
<1>1. ASSUME NEW a \in 1..(p - 1), NEW b \in 1..(p - 1), OpenAt(d, a, p), OpenAt(d, b, p), a < b
      PROVE  FALSE
  <2>1. b \in (a + 1)..(p - 1)
    BY <1>1
  <2>2. AnchorTag(d, b)
    BY <1>1 DEF OpenAt, AnchorTag
  <2> QED
    BY <1>1, <2>1, <2>2, Zenon DEF OpenAt
<1>2. j < k \/ k < j \/ j = k
  OBVIOUS
<1> QED
  BY <1>1, <1>2

\* An open anchor belongs to a link.
LEMMA OpenLinks ==
    ASSUME NEW d \in Seq(HTMLToken), NEW p \in 1..(Len(d) + 1), NEW k \in 1..(p - 1), OpenAt(d, k, p)
    PROVE  k \in Linking(d) /\ k < p
<1>1. k \in DOMAIN d /\ k < p
  OBVIOUS
<1> QED
  BY <1>1 DEF OpenAt, Linking

\* closeAnchor.
CloseAnchor(h, o) == IF o.at = 0 THEN h ELSE [h EXCEPT ![o.at].anchor = o.anchor]

\* The text of an anchor that is open until token p, an anchor tag or the end.
LEMMA AnchorEnds ==
    ASSUME NEW d \in Seq(HTMLToken), NEW p \in 1..(Len(d) + 1), NEW k \in 1..(p - 1), OpenAt(d, k, p),
           p = Len(d) + 1 \/ AnchorTag(d, p)
    PROVE  AnchorText(d, k) = Rendered(d, After(d, k), " ", p - 1)
<1> DEFINE ends == {j \in (k + 1)..Len(d) : AnchorTag(d, j)}
<1>1. AnchorText(d, k) = Rendered(d, After(d, k), " ", IF ends = {} THEN Len(d) ELSE Min(ends))
  BY Zenon DEF AnchorText, AnchorTag, After
<1>2. Len(d) \in Nat /\ \A j \in (k + 1)..(p - 1) : ~AnchorTag(d, j)
  BY DEF OpenAt
<1>3. CASE p = Len(d) + 1
  <2>1. p - 1 = Len(d)
    BY <1>2, <1>3
  <2>2. ends = {}
    BY <1>2, <2>1
  <2> QED
    BY <1>1, <2>1, <2>2, Zenon
<1>4. CASE p # Len(d) + 1
  <2>1. p \in 1..Len(d) /\ AnchorTag(d, p)
    BY <1>2, <1>4
  <2>2. p \in ends /\ ends \in SUBSET Nat /\ \A j \in ends : p <= j
    BY <1>2, <2>1
  <2>3. Min(ends) = p
    <3> HIDE DEF ends
    <3>1. PICK x \in Nat : x = Min(ends) /\ x \in ends /\ x <= p
      BY <2>2, LeastNat
    <3>2. p <= x
      BY <2>2, <3>1
    <3> QED
      BY <2>1, <3>1, <3>2
  <2>4. p \notin Seen(d)
    BY <2>1, SeenTokens DEF AnchorTag
  <2>5. Rendered(d, After(d, k), " ", p) = Rendered(d, After(d, k), " ", p - 1)
    BY <2>1, <2>4, UnseenToken, GlueSymbols
  <2>6. ends # {}
    BY <2>2
  <2> HIDE DEF ends
  <2> QED
    BY <1>1, <2>3, <2>5, <2>6, Zenon
<1> QED
  BY <1>3, <1>4

\* The two parts of an open anchor.
LEMMA AnchorParts ==
    ASSUME NEW r, NEW s, NEW o, o = [at |-> r, anchor |-> s]
    PROVE  o.at = r /\ o.anchor = s
  OBVIOUS

\* Closing the open anchor gives it its text, and no other link another.
LEMMA ClosedSettles ==
    ASSUME NEW d \in Seq(HTMLToken), NEW p \in 1..(Len(d) + 1), NEW h \in Seq(Href), NEW o,
           HrefsOK(d, h, p), OpenOK(d, o, p), p = Len(d) + 1 \/ AnchorTag(d, p)
    PROVE  HrefsSettled(d, CloseAnchor(h, o), p)
<1>1. Len(h) = Rank(d, p - 1)
  BY Zenon DEF HrefsOK
<1>2. \A k \in Linking(d) : k < p => k \in 1..(p - 1)
  BY DEF Linking
<1>3. CASE o = NoAnchor /\ \A k \in 1..(p - 1) : ~OpenAt(d, k, p)
  <2>1. CloseAnchor(h, o) = h
    BY <1>3 DEF CloseAnchor, NoAnchor
  <2>2. \A k \in Linking(d) : k < p => h[Rank(d, k)] = Settled(d, k)
    BY <1>2, <1>3, Zenon DEF HrefsOK
  <2> QED
    BY <1>1, <2>1, <2>2, Zenon DEF HrefsSettled
<1>4. ASSUME NEW i \in 1..(p - 1), OpenAt(d, i, p),
             o = [at |-> Rank(d, i), anchor |-> Rendered(d, After(d, i), " ", p - 1)]
      PROVE  HrefsSettled(d, CloseAnchor(h, o), p)
  <2>1. i \in Linking(d) /\ i < p
    BY <1>4, OpenLinks
  <2>2. PICK r \in 1..Len(h) : r = Rank(d, i)
    BY <1>1, <2>1, RankRange
  <2>3. PICK t : t = Rendered(d, After(d, i), " ", p - 1)
    OBVIOUS
  <2>4. o.at = r /\ o.anchor = t /\ r # 0
    <3>1. o = [at |-> r, anchor |-> t]
      BY <1>4, <2>2, <2>3, Zenon
    <3>2. r # 0
      OBVIOUS
    <3> QED
      BY <3>1, <3>2, AnchorParts, Zenon
  <2>5. PICK c : c = CloseAnchor(h, o)
    OBVIOUS
  <2>6. c = [h EXCEPT ![r].anchor = t]
    BY <2>4, <2>5, Zenon DEF CloseAnchor
  <2>7. Len(c) = Len(h) /\ (\A q \in 1..Len(h) : q # r => c[q] = h[q]) /\ c[r] = [h[r] EXCEPT !.anchor = t]
    <3>1. c = [h EXCEPT ![r] = [h[r] EXCEPT !.anchor = t]]
      BY <2>6
    <3>2. h[r] \in Href
      OBVIOUS
    <3>3. DOMAIN c = DOMAIN h
      BY <3>1
    <3> QED
      BY <3>1, <3>3
  <2>8. c[r] = Settled(d, i)
    <3>1. h[r] = [url |-> d[i].href, anchor |-> <<>>]
      BY <1>4, <2>1, <2>2, Zenon DEF HrefsOK, Begun
    <3>2. c[r] = [url |-> d[i].href, anchor |-> t]
      BY <2>7, <3>1
    <3>3. t = AnchorText(d, i) /\ d[i].tag = "a"
      BY <1>4, <2>3, AnchorEnds DEF OpenAt
    <3> QED
      BY <3>2, <3>3, Zenon DEF Settled
  <2>9. ASSUME NEW k \in Linking(d), k < p PROVE c[Rank(d, k)] = Settled(d, k)
    <3>1. CASE k = i
      BY <2>2, <2>8, <3>1
    <3>2. CASE k # i
      <4>1. ~OpenAt(d, k, p)
        <5>1. k \in 1..(p - 1) /\ p \in Nat
          BY <1>2, <2>9
        <5> QED
          BY <1>4, <3>2, <5>1, OneOpen, Zenon
      <4>2. h[Rank(d, k)] = Settled(d, k)
        BY <2>9, <4>1, Zenon DEF HrefsOK
      <4>3. Rank(d, k) \in 1..Len(h) /\ Rank(d, k) # r
        BY <1>1, <2>1, <2>2, <2>9, <3>2, RankRange, RankApart
      <4> QED
        BY <2>7, <4>2, <4>3
    <3> QED
      BY <3>1, <3>2
  <2> QED
    BY <1>1, <2>5, <2>7, <2>9, Zenon DEF HrefsSettled
<1> QED
  BY <1>3, <1>4, Zenon DEF OpenOK

\* A token that neither links nor closes leaves the hrefs as they are.
LEMMA HrefsSkip ==
    ASSUME NEW d \in Seq(HTMLToken), NEW p \in 1..Len(d), NEW h, HrefsOK(d, h, p),
           p \notin Linking(d), ~AnchorTag(d, p)
    PROVE  HrefsOK(d, h, p + 1)
<1>1. Rank(d, p) = Rank(d, p - 1) /\ (p + 1) - 1 = p
  BY RankNext
<1>2. \A k \in Linking(d) : k < p + 1 => k < p /\ k \in 1..(p - 1)
  BY DEF Linking
<1>3. \A k \in 1..(p - 1) : OpenAt(d, k, p + 1) <=> OpenAt(d, k, p)
  BY OpenNext
<1>4. ASSUME NEW k \in Linking(d), k < p + 1
      PROVE  h[Rank(d, k)] = IF OpenAt(d, k, p + 1) THEN Begun(d, k) ELSE Settled(d, k)
  <2>1. k < p /\ (OpenAt(d, k, p + 1) <=> OpenAt(d, k, p))
    BY <1>2, <1>3, <1>4
  <2> QED
    BY <2>1, Zenon DEF HrefsOK
<1>5. Len(h) = Rank(d, (p + 1) - 1)
  BY <1>1 DEF HrefsOK
<1> QED
  BY <1>4, <1>5, Zenon DEF HrefsOK

\* An href outside an anchor is reported without a text.
LEMMA HrefsArea ==
    ASSUME NEW d \in Seq(HTMLToken), NEW p \in 1..Len(d), NEW h \in Seq(Href), NEW e \in Href,
           HrefsOK(d, h, p), p \in Linking(d), ~AnchorTag(d, p), e = Begun(d, p)
    PROVE  HrefsOK(d, Append(h, e), p + 1)
<1>1. Rank(d, p) = Rank(d, p - 1) + 1 /\ (p + 1) - 1 = p /\ Rank(d, p - 1) \in Nat
  <2>1. Rank(d, p) = Rank(d, p - 1) + 1
    BY RankNext, Zenon
  <2>2. (p + 1) - 1 = p
    OBVIOUS
  <2> QED
    BY <2>1, <2>2, RankFinite, Zenon
<1>2. Len(h) = Rank(d, p - 1)
  BY Zenon DEF HrefsOK
<1>3. PICK g : g = Append(h, e)
  OBVIOUS
<1>4. Len(g) = Len(h) + 1 /\ g[Len(h) + 1] = e /\ \A q \in 1..Len(h) : g[q] = h[q]
  BY <1>3
<1>5. ASSUME NEW k \in Linking(d), k < p + 1
      PROVE  g[Rank(d, k)] = IF OpenAt(d, k, p + 1) THEN Begun(d, k) ELSE Settled(d, k)
  <2>1. k \in Nat
    BY DEF Linking
  <2>2. CASE k = p
    <3>1. d[p].kind = "start" /\ d[p].tag # "a"
      BY DEF Linking, AnchorTag
    <3>2. ~OpenAt(d, p, p + 1)
      BY <3>1, OpenNext
    <3>3. Settled(d, p) = Begun(d, p)
      BY <3>1 DEF Settled, Begun
    <3>4. g[Rank(d, k)] = e
      BY <1>1, <1>2, <1>4, <2>2
    <3> QED
      BY <2>2, <3>2, <3>3, <3>4, Zenon
  <2>3. CASE k # p
    <3>1. k < p /\ k \in 1..(p - 1)
      BY <1>5, <2>3 DEF Linking
    <3>2. p \in 1..(Len(d) + 1)
      OBVIOUS
    <3>3. Rank(d, k) \in 1..Len(h)
      BY <1>2, <3>1, <3>2, RankRange
    <3>4. OpenAt(d, k, p + 1) <=> OpenAt(d, k, p)
      BY <3>1, OpenNext
    <3>5. g[Rank(d, k)] = h[Rank(d, k)]
      BY <1>4, <3>3
    <3> QED
      BY <3>1, <3>4, <3>5, Zenon DEF HrefsOK
  <2> QED
    BY <2>2, <2>3
<1>6. Len(g) = Rank(d, (p + 1) - 1)
  BY <1>1, <1>2, <1>4
<1> QED
  BY <1>3, <1>5, <1>6, Zenon DEF HrefsOK

\* An anchor begins behind the one it closes.
LEMMA HrefsAnchor ==
    ASSUME NEW d \in Seq(HTMLToken), NEW p \in 1..Len(d), NEW c \in Seq(Href), NEW e \in Href,
           HrefsSettled(d, c, p), d[p].kind = "start", d[p].tag = "a", e = Begun(d, p)
    PROVE  HrefsOK(d, Append(c, e), p + 1)
<1>1. p \in Linking(d) /\ AnchorTag(d, p)
  BY DEF Linking, AnchorTag
<1>2. Rank(d, p) = Rank(d, p - 1) + 1 /\ (p + 1) - 1 = p /\ Rank(d, p - 1) \in Nat
  <2>1. Rank(d, p) = Rank(d, p - 1) + 1
    BY <1>1, RankNext, Zenon
  <2>2. (p + 1) - 1 = p
    OBVIOUS
  <2> QED
    BY <2>1, <2>2, RankFinite, Zenon
<1>3. Len(c) = Rank(d, p - 1)
  BY Zenon DEF HrefsSettled
<1>4. PICK g : g = Append(c, e)
  OBVIOUS
<1>5. Len(g) = Len(c) + 1 /\ g[Len(c) + 1] = e /\ \A q \in 1..Len(c) : g[q] = c[q]
  BY <1>4
<1>6. ASSUME NEW k \in Linking(d), k < p + 1
      PROVE  g[Rank(d, k)] = IF OpenAt(d, k, p + 1) THEN Begun(d, k) ELSE Settled(d, k)
  <2>1. CASE k = p
    <3>1. OpenAt(d, p, p + 1)
      BY OpenNext
    <3>2. g[Rank(d, k)] = e
      BY <1>2, <1>3, <1>5, <2>1
    <3> QED
      BY <2>1, <3>1, <3>2, Zenon
  <2>2. CASE k # p
    <3>1. k < p /\ k \in 1..(p - 1)
      BY <1>6, <2>2 DEF Linking
    <3>2. p \in 1..(Len(d) + 1)
      OBVIOUS
    <3>3. Rank(d, k) \in 1..Len(c)
      BY <1>3, <3>1, <3>2, RankRange
    <3>4. ~OpenAt(d, k, p + 1)
      BY <1>1, <3>1, OpenNext
    <3>5. g[Rank(d, k)] = c[Rank(d, k)]
      BY <1>5, <3>3
    <3> QED
      BY <3>1, <3>4, <3>5, Zenon DEF HrefsSettled
  <2> QED
    BY <2>1, <2>2
<1>7. Len(g) = Rank(d, (p + 1) - 1)
  BY <1>2, <1>3, <1>5
<1> QED
  BY <1>4, <1>6, <1>7, Zenon DEF HrefsOK

\* An end tag leaves no anchor open.
LEMMA HrefsEnd ==
    ASSUME NEW d \in Seq(HTMLToken), NEW p \in 1..Len(d), NEW c,
           HrefsSettled(d, c, p), d[p].kind = "end", d[p].tag = "a"
    PROVE  HrefsOK(d, c, p + 1) /\ OpenOK(d, NoAnchor, p + 1)
<1>1. p \notin Linking(d) /\ AnchorTag(d, p)
  BY DEF Linking, AnchorTag
<1>2. Rank(d, p) = Rank(d, p - 1) /\ (p + 1) - 1 = p
  BY <1>1, RankNext
<1>3. \A k \in 1..p : ~OpenAt(d, k, p + 1)
  <2>1. \A k \in 1..p : k \in 1..(p - 1) \/ k = p
    OBVIOUS
  <2>2. ~OpenAt(d, p, p + 1)
    BY OpenNext
  <2>3. \A k \in 1..(p - 1) : ~OpenAt(d, k, p + 1)
    BY <1>1, OpenNext
  <2> QED
    BY <2>1, <2>2, <2>3, Zenon
<1>4. \A k \in Linking(d) : k < p + 1 => k < p /\ k \in 1..p
  BY <1>1 DEF Linking
<1>5. Len(c) = Rank(d, (p + 1) - 1)
  BY <1>2 DEF HrefsSettled
<1>6. HrefsOK(d, c, p + 1)
  BY <1>3, <1>4, <1>5, Zenon DEF HrefsOK, HrefsSettled
<1>7. OpenOK(d, NoAnchor, p + 1)
  BY <1>2, <1>3 DEF OpenOK
<1> QED
  BY <1>6, <1>7

\* A token that is neither seen nor an anchor tag leaves the anchor as it is.
LEMMA OpenSkip ==
    ASSUME NEW d \in Seq(HTMLToken), NEW p \in 1..Len(d), NEW o, OpenOK(d, o, p),
           p \notin Seen(d), ~AnchorTag(d, p)
    PROVE  OpenOK(d, o, p + 1)
<1>1. (p + 1) - 1 = p /\ \A k \in 1..p : k \in 1..(p - 1) \/ k = p
  OBVIOUS
<1>2. \A k \in 1..(p - 1) : (OpenAt(d, k, p + 1) <=> OpenAt(d, k, p)) /\ k \in 1..p
  BY OpenNext
<1>3. ~OpenAt(d, p, p + 1)
  BY OpenNext DEF AnchorTag
<1>4. CASE o = NoAnchor /\ \A k \in 1..(p - 1) : ~OpenAt(d, k, p)
  <2>1. \A k \in 1..p : ~OpenAt(d, k, p + 1)
    BY <1>1, <1>2, <1>3, <1>4, Zenon
  <2> QED
    BY <1>1, <1>4, <2>1, Zenon DEF OpenOK
<1>5. ASSUME NEW k \in 1..(p - 1), OpenAt(d, k, p),
             o = [at |-> Rank(d, k), anchor |-> Rendered(d, After(d, k), " ", p - 1)]
      PROVE  OpenOK(d, o, p + 1)
  <2>1. Rendered(d, After(d, k), " ", p) = Rendered(d, After(d, k), " ", p - 1)
    BY UnseenToken, GlueSymbols
  <2>2. k \in 1..((p + 1) - 1) /\ OpenAt(d, k, p + 1)
    BY <1>1, <1>2, <1>5, Zenon
  <2>3. o = [at |-> Rank(d, k), anchor |-> Rendered(d, After(d, k), " ", (p + 1) - 1)]
    BY <1>1, <1>5, <2>1, Zenon
  <2> QED
    BY <2>2, <2>3, Zenon DEF OpenOK
<1> QED
  BY <1>4, <1>5, Zenon DEF OpenOK

\* Text that is seen goes to the open anchor as well.
LEMMA OpenText ==
    ASSUME NEW d \in Seq(HTMLToken), NEW p \in 1..Len(d), NEW o, OpenOK(d, o, p), p \in Seen(d)
    PROVE  OpenOK(d, IF o.at = 0 THEN o
                     ELSE [at |-> o.at,
                           anchor |-> IF Crossed(d, p) /\ o.anchor # <<>> THEN o.anchor \o <<" ">> \o d[p].data
                                      ELSE o.anchor \o d[p].data], p + 1)
<1> DEFINE text(s) == IF Crossed(d, p) /\ s # <<>> THEN s \o <<" ">> \o d[p].data ELSE s \o d[p].data
           new == IF o.at = 0 THEN o ELSE [at |-> o.at, anchor |-> text(o.anchor)]
<1>1. (p + 1) - 1 = p /\ \A k \in 1..p : k \in 1..(p - 1) \/ k = p
  OBVIOUS
<1>2. d[p].kind = "text"
  BY SeenTokens
<1>3. ~AnchorTag(d, p) /\ ~OpenAt(d, p, p + 1)
  BY <1>2 DEF AnchorTag, OpenAt
<1>4. \A k \in 1..(p - 1) : (OpenAt(d, k, p + 1) <=> OpenAt(d, k, p)) /\ k \in 1..p
  BY <1>3, OpenNext
<1>5. CASE o = NoAnchor /\ \A k \in 1..(p - 1) : ~OpenAt(d, k, p)
  <2>1. \A k \in 1..p : ~OpenAt(d, k, p + 1)
    BY <1>1, <1>3, <1>4, <1>5, Zenon
  <2>2. o.at = 0
    BY <1>5 DEF NoAnchor
  <2>3. new = NoAnchor
    BY <1>5, <2>2, Zenon
  <2>4. OpenOK(d, new, p + 1)
    BY <1>1, <2>1, <2>3, Zenon DEF OpenOK
  <2> QED
    BY <2>4, Zenon
<1>6. ASSUME NEW k \in 1..(p - 1), OpenAt(d, k, p),
             o = [at |-> Rank(d, k), anchor |-> Rendered(d, After(d, k), " ", p - 1)]
      PROVE  OpenOK(d, new, p + 1)
  <2>1. PICK s : s = Rendered(d, After(d, k), " ", p - 1)
    OBVIOUS
  <2>2. Rendered(d, After(d, k), " ", p) = text(s)
    <3>1. " " \in Symbol
      BY GlueSymbols
    <3>2. \E j \in 1..(p - 1) : After(d, k) = After(d, j)
      OBVIOUS
    <3> QED
      BY <2>1, <3>1, <3>2, GluedText, Zenon
  <2>3. PICK r \in Nat : r = Rank(d, k) /\ r # 0
    <3>1. p \in 1..(Len(d) + 1)
      OBVIOUS
    <3>2. Rank(d, k) \in 1..Rank(d, p - 1)
      BY <1>6, <3>1, OpenLinks, RankRange
    <3>3. Rank(d, p - 1) \in Nat
      BY RankFinite
    <3> QED
      BY <3>2, <3>3
  <2>4. o = [at |-> r, anchor |-> s]
    BY <1>6, <2>1, <2>3, Zenon
  <2>5. o.at = r /\ o.anchor = s
    BY <2>4, AnchorParts, Zenon
  <2>6. new = [at |-> r, anchor |-> text(s)]
    BY <2>3, <2>5, Zenon
  <2>7. new = [at |-> Rank(d, k), anchor |-> Rendered(d, After(d, k), " ", (p + 1) - 1)]
    BY <1>1, <2>2, <2>3, <2>6, Zenon
  <2>8. k \in 1..((p + 1) - 1) /\ OpenAt(d, k, p + 1)
    BY <1>1, <1>4, <1>6, Zenon
  <2> HIDE DEF new
  <2> QED
    BY <2>7, <2>8, Zenon DEF OpenOK
<1> QED
  BY <1>5, <1>6, Zenon DEF OpenOK

\* An anchor begins without a text.
LEMMA OpenBegins ==
    ASSUME NEW d \in Seq(HTMLToken), NEW p \in 1..Len(d), NEW n, n = Rank(d, p - 1),
           d[p].kind = "start", d[p].tag = "a"
    PROVE  OpenOK(d, [at |-> n + 1, anchor |-> <<>>], p + 1)
<1>1. (p + 1) - 1 = p /\ p \in 1..p /\ p \in 0..Len(d)
  OBVIOUS
<1>2. p \in Linking(d)
  BY DEF Linking
<1>3. Rank(d, p) = n + 1
  BY <1>2, RankNext, Zenon
<1>4. OpenAt(d, p, p + 1)
  BY OpenNext
<1>5. Rendered(d, After(d, p), " ", p) = <<>>
  <2>1. \A j \in After(d, p) : ~(j <= p)
    <3>1. \A j \in After(d, p) : j \in Nat /\ j > p
      BY SeenTokens DEF After
    <3> QED
      BY <3>1
  <2>2. " " \in Symbol
    BY GlueSymbols
  <2> QED
    <3>1. \A j \in After(d, p) : j \in DOMAIN d /\ d[j].kind = "text"
      BY SeenTokens, Zenon
    <3>2. Rendered(d, After(d, p), " ", p) = <<>> <=> \A j \in After(d, p) : ~(j <= p)
      <4>1. PICK S : S = After(d, p)
        OBVIOUS
      <4>2. \A j \in S : j \in DOMAIN d /\ d[j].kind = "text"
        BY <3>1, <4>1, Zenon
      <4>3. \A k \in 0..Len(d) : Rendered(d, S, " ", k) = <<>> <=> \A j \in S : ~(j <= k)
        BY <2>2, <4>2, RenderedStep
      <4> QED
        BY <1>1, <4>1, <4>3, Zenon
    <3> QED
      BY <2>1, <3>2, Zenon
<1> QED
  BY <1>1, <1>3, <1>4, <1>5, Zenon DEF OpenOK

\* scanHTML at token p of document d, with its locals given.
SeenAt(d, p, v, h, o) ==
    /\ v = Rendered(d, Seen(d), "nl", p - 1)
    /\ HrefsOK(d, h, p) /\ OpenOK(d, o, p)

\* A step that reads token p, and goes on to the next.
LEMMA ReadOn ==
    ASSUME NEW d, NEW p \in Nat, msg.html = d, msg' = msg, next' = p + 1, result' = <<>>,
           SeenAt(d, p + 1, visible', hrefs', open'),
           pendingBreak' <=> Crossed(d, p + 1)
    PROVE  SeenInv'
<1>1. msg.html' = d
  BY Zenon
<1> QED
  BY <1>1, Zenon DEF SeenInv, SeenAt

\* Before such a step.
LEMMA ReadFrom ==
    ASSUME ScanTypeOK, SeenInv, NEW kind, Token(kind)
    PROVE  /\ msg.html \in Seq(HTMLToken) /\ next \in 1..Len(msg.html)
           /\ result = <<>>
           /\ SeenAt(msg.html, next, visible, hrefs, open)
           /\ pendingBreak <=> Crossed(msg.html, next)
           /\ msg.html[next] \in HTMLToken /\ msg.html[next].kind = kind
           /\ next' = next + 1
<1>1. msg.html \in Seq(HTMLToken)
  BY MessageParts DEF ScanTypeOK
<1>2. /\ next \in 1..Len(msg.html) /\ next' = next + 1
      /\ msg.html[next] \in HTMLToken /\ msg.html[next].kind = kind
  BY TokenRead
<1>3. next # Len(msg.html) + 1
  BY <1>1, <1>2
<1>4. result = <<>> /\ SeenAt(msg.html, next, visible, hrefs, open) /\ (pendingBreak <=> Crossed(msg.html, next))
  BY <1>3, Zenon DEF SeenInv, SeenAt
<1> QED
  BY <1>1, <1>2, <1>4, Zenon

\* A text token keeps the invariant.
LEMMA SeenText ==
    ASSUME ScanTypeOK, DepthOK, SeenInv, TextToken
    PROVE  SeenInv'
<1>1. Token("text") /\ UNCHANGED <<msg, hrefs, rawTextDepth, result>>
  BY Zenon DEF TextToken
<1>0. PICK d \in Seq(HTMLToken) : d = msg.html
  BY <1>1, ReadFrom, Zenon
<1>2. PICK p \in 1..Len(d) :
         /\ d = msg.html /\ p = next /\ result = <<>>
         /\ SeenAt(d, p, visible, hrefs, open) /\ (pendingBreak <=> Crossed(d, p))
         /\ d[p] \in HTMLToken /\ d[p].kind = "text" /\ next' = p + 1
  BY <1>0, <1>1, ReadFrom, Zenon
<1>3. p \in Nat /\ p \in DOMAIN d /\ (p + 1) - 1 = p
  OBVIOUS
<1>4. ~AnchorTag(d, p) /\ p \notin Linking(d)
  BY <1>2 DEF AnchorTag, Linking
<1>5. HrefsOK(d, hrefs', p + 1)
  BY <1>1, <1>2, <1>4, HrefsSkip, Zenon DEF SeenAt
<1>6. p \in Seen(d) <=> Outside(d, p)
  BY <1>2, <1>3, SeenOutside, Zenon
<1>7. rawTextDepth = IF p \in Seen(d) THEN 0 ELSE 1
  BY <1>2, <1>6, Zenon DEF DepthOK
<1>8. CASE p \notin Seen(d)
  <2>1. rawTextDepth > 0
    BY <1>7, <1>8
  <2>2. UNCHANGED <<visible, open, pendingBreak>>
    BY <2>1, Zenon DEF TextToken
  <2>3. Rendered(d, Seen(d), "nl", p) = Rendered(d, Seen(d), "nl", p - 1)
    BY <1>8, UnseenToken, GlueSymbols
  <2>4. visible' = Rendered(d, Seen(d), "nl", (p + 1) - 1)
    BY <1>2, <1>3, <2>2, <2>3, Zenon DEF SeenAt
  <2>5. OpenOK(d, open', p + 1)
    BY <1>2, <1>4, <1>8, <2>2, OpenSkip, Zenon DEF SeenAt
  <2>6. pendingBreak' <=> Crossed(d, p + 1)
    BY <1>2, <1>8, <2>2, CrossedNext, Zenon
  <2>7. SeenAt(d, p + 1, visible', hrefs', open')
    BY <1>5, <2>4, <2>5, Zenon DEF SeenAt
  <2>8. msg' = msg /\ result' = <<>>
    BY <1>1, <1>2, Zenon
  <2> QED
    BY <1>2, <1>3, <2>6, <2>7, <2>8, ReadOn, Zenon
<1>9. CASE p \in Seen(d)
  <2>1. ~(rawTextDepth > 0)
    BY <1>7, <1>9
  <2>2. PICK chunk : chunk = d[p].data
    OBVIOUS
  <2>3. /\ visible' = IF pendingBreak /\ visible # <<>> THEN visible \o <<"nl">> \o chunk ELSE visible \o chunk
        /\ open' = IF open.at = 0 THEN open
                   ELSE [open EXCEPT !.anchor = IF pendingBreak /\ open.anchor # <<>>
                                                THEN open.anchor \o <<" ">> \o chunk ELSE open.anchor \o chunk]
        /\ pendingBreak' = FALSE
    BY <1>2, <2>1, <2>2, Zenon DEF TextToken
  <2>4. visible' = Rendered(d, Seen(d), "nl", p)
    <3>1. "nl" \in Symbol
      BY GlueSymbols
    <3>2. visible = Rendered(d, Seen(d), "nl", p - 1)
      BY <1>2, Zenon DEF SeenAt
    <3> QED
      BY <1>2, <1>9, <2>2, <2>3, <3>1, <3>2, GluedText, Zenon
  <2>5. PICK t : t = IF Crossed(d, p) /\ open.anchor # <<>>
                     THEN open.anchor \o <<" ">> \o chunk ELSE open.anchor \o chunk
    OBVIOUS
  <2>6. open' = IF open.at = 0 THEN open ELSE [open EXCEPT !.anchor = t]
    BY <1>2, <2>3, <2>5, Zenon
  <2>7. [open EXCEPT !.anchor = t] = [at |-> open.at, anchor |-> t]
    <3>1. open \in [at : 0..Len(hrefs), anchor : Seq(Symbol)]
      BY Zenon DEF ScanTypeOK
    <3> QED
      BY <3>1
  <2>8. OpenOK(d, open', p + 1)
    <3>1. OpenOK(d, open, p)
      BY <1>2, Zenon DEF SeenAt
    <3>2. OpenOK(d, IF open.at = 0 THEN open ELSE [at |-> open.at, anchor |-> t], p + 1)
      BY <1>9, <2>2, <2>5, <3>1, OpenText, Zenon
    <3> QED
      BY <2>6, <2>7, <3>2, Zenon
  <2>9. pendingBreak' <=> Crossed(d, p + 1)
    BY <1>9, <2>3, CrossedNext, Zenon
  <2>10. SeenAt(d, p + 1, visible', hrefs', open')
    BY <1>3, <1>5, <2>4, <2>8, Zenon DEF SeenAt
  <2>11. msg' = msg /\ result' = <<>>
    BY <1>1, <1>2, Zenon
  <2> QED
    BY <1>2, <1>3, <2>9, <2>10, <2>11, ReadOn, Zenon
<1> QED
  BY <1>8, <1>9

\* closeAnchor's result, in the state of scanHTML.
LEMMA ClosedIsClose == Closed = CloseAnchor(hrefs, open)
  BY Zenon DEF Closed, CloseAnchor

\* A tag token is never seen, so it adds to no text and may cross a boundary.
LEMMA TagToken ==
    ASSUME NEW d \in Seq(HTMLToken), NEW p \in 1..Len(d), d[p].kind # "text"
    PROVE  /\ p \notin Seen(d)
           /\ Rendered(d, Seen(d), "nl", (p + 1) - 1) = Rendered(d, Seen(d), "nl", p - 1)
           /\ Crossed(d, p + 1) <=> Crossed(d, p) \/ separatesText(d[p].tag)
<1>1. p \notin Seen(d)
  BY SeenTokens
<1>2. (p + 1) - 1 = p
  OBVIOUS
<1>3. Rendered(d, Seen(d), "nl", p) = Rendered(d, Seen(d), "nl", p - 1)
  BY <1>1, UnseenToken, GlueSymbols
<1>4. Crossed(d, p + 1) <=> Crossed(d, p) \/ separatesText(d[p].tag)
  BY <1>1, CrossedNext, Zenon
<1> QED
  BY <1>1, <1>2, <1>3, <1>4, Zenon

\* So does a start tag,
LEMMA SeenStartTag ==
    ASSUME ScanTypeOK, SeenInv, StartTagToken
    PROVE  SeenInv'
<1>1. Token("start") /\ UNCHANGED <<msg, visible, result>>
  BY Zenon DEF StartTagToken
<1>0. PICK d \in Seq(HTMLToken) : d = msg.html
  BY <1>1, ReadFrom, Zenon
<1>2. PICK p \in 1..Len(d) :
         /\ d = msg.html /\ p = next /\ result = <<>>
         /\ SeenAt(d, p, visible, hrefs, open) /\ (pendingBreak <=> Crossed(d, p))
         /\ d[p] \in HTMLToken /\ d[p].kind = "start" /\ next' = p + 1
  BY <1>0, <1>1, ReadFrom, Zenon
<1>3. p \in Nat /\ p \in DOMAIN d /\ p \in 1..(Len(d) + 1)
  OBVIOUS
<1>4. d[p].kind # "text" /\ msg' = msg /\ result' = <<>>
  BY <1>1, <1>2
<1>5. visible' = Rendered(d, Seen(d), "nl", (p + 1) - 1)
  BY <1>1, <1>2, <1>4, TagToken, Zenon DEF SeenAt
<1>6. pendingBreak' <=> Crossed(d, p + 1)
  <2>1. pendingBreak' = (pendingBreak \/ separatesText(d[p].tag))
    BY <1>2, Zenon DEF StartTagToken
  <2> QED
    BY <1>2, <1>4, <2>1, TagToken, Zenon
<1>7. hrefs \in Seq(Href)
  BY Zenon DEF ScanTypeOK
<1>8. PICK e \in Href : e = Begun(d, p)
  <2>1. d[p].href \in Seq(Symbol)
    BY <1>2, TokenParts
  <2>2. PICK u \in Seq(Symbol), w \in Seq(Symbol) : u = d[p].href /\ w = <<>>
    BY <2>1, EmptyText, Zenon
  <2>3. [url |-> u, anchor |-> w] \in Href
    BY DEF Href
  <2> QED
    BY <2>2, <2>3, Zenon DEF Begun
<1>9. HrefsOK(d, hrefs, p) /\ OpenOK(d, open, p)
  BY <1>2, Zenon DEF SeenAt
<1>10. HrefsOK(d, hrefs', p + 1) /\ OpenOK(d, open', p + 1)
  <2>1. CASE d[p].tag = "a"
    <3>1. hrefs' = Append(Closed, e) /\ open' = [at |-> Len(hrefs) + 1, anchor |-> <<>>]
      BY <1>2, <1>8, <2>1, Zenon DEF StartTagToken, Begun
    <3>2. Closed \in Seq(Href)
      BY ClosedTypes
    <3>3. AnchorTag(d, p)
      BY <1>4, <2>1 DEF AnchorTag
    <3>4. HrefsSettled(d, Closed, p)
      BY <1>3, <1>7, <1>9, <3>3, ClosedSettles, ClosedIsClose, Zenon
    <3>5. HrefsOK(d, hrefs', p + 1)
      BY <1>2, <1>8, <2>1, <3>1, <3>2, <3>4, HrefsAnchor, Zenon
    <3>6. OpenOK(d, open', p + 1)
      <4>1. Len(hrefs) = Rank(d, p - 1)
        BY <1>9, Zenon DEF HrefsOK
      <4> QED
        BY <1>2, <2>1, <3>1, <4>1, OpenBegins, Zenon
    <3> QED
      BY <3>5, <3>6
  <2>2. CASE d[p].tag # "a"
    <3>1. /\ open' = open
          /\ hrefs' = IF d[p].tag # "script" /\ d[p].href # <<>> THEN Append(hrefs, e) ELSE hrefs
      BY <1>2, <1>8, <2>2, Zenon DEF StartTagToken, Begun
    <3>2. ~AnchorTag(d, p) /\ p \notin Seen(d)
      BY <1>4, <2>2, TagToken DEF AnchorTag
    <3>3. OpenOK(d, open', p + 1)
      BY <1>9, <3>1, <3>2, OpenSkip, Zenon
    <3>4. CASE d[p].tag # "script" /\ d[p].href # <<>>
      <4>1. p \in Linking(d)
        BY <1>2, <1>3, <3>4, Zenon DEF Linking
      <4> QED
        BY <1>7, <1>8, <1>9, <3>1, <3>2, <3>3, <3>4, <4>1, HrefsArea, Zenon
    <3>5. CASE ~(d[p].tag # "script" /\ d[p].href # <<>>)
      <4>1. p \notin Linking(d)
        BY <2>2, <3>5, Zenon DEF Linking
      <4> QED
        BY <1>9, <3>1, <3>2, <3>3, <3>5, <4>1, HrefsSkip, Zenon
    <3> QED
      BY <3>4, <3>5
  <2> QED
    BY <2>1, <2>2
<1>11. SeenAt(d, p + 1, visible', hrefs', open')
  BY <1>5, <1>10, Zenon DEF SeenAt
<1> QED
  BY <1>2, <1>3, <1>4, <1>6, <1>11, ReadOn, Zenon

\* an end tag,
LEMMA SeenEndTag ==
    ASSUME ScanTypeOK, SeenInv, EndTagToken
    PROVE  SeenInv'
<1>1. Token("end") /\ UNCHANGED <<msg, visible, result>>
  BY Zenon DEF EndTagToken
<1>0. PICK d \in Seq(HTMLToken) : d = msg.html
  BY <1>1, ReadFrom, Zenon
<1>2. PICK p \in 1..Len(d) :
         /\ d = msg.html /\ p = next /\ result = <<>>
         /\ SeenAt(d, p, visible, hrefs, open) /\ (pendingBreak <=> Crossed(d, p))
         /\ d[p] \in HTMLToken /\ d[p].kind = "end" /\ next' = p + 1
  BY <1>0, <1>1, ReadFrom, Zenon
<1>3. p \in Nat /\ p \in 1..(Len(d) + 1)
  OBVIOUS
<1>4. d[p].kind # "text" /\ d[p].kind # "start" /\ msg' = msg /\ result' = <<>>
  BY <1>1, <1>2
<1>5. visible' = Rendered(d, Seen(d), "nl", (p + 1) - 1)
  BY <1>1, <1>2, <1>4, TagToken, Zenon DEF SeenAt
<1>6. pendingBreak' <=> Crossed(d, p + 1)
  <2>1. pendingBreak' = (pendingBreak \/ separatesText(d[p].tag))
    BY <1>2, Zenon DEF EndTagToken
  <2> QED
    BY <1>2, <1>4, <2>1, TagToken, Zenon
<1>7. hrefs \in Seq(Href)
  BY Zenon DEF ScanTypeOK
<1>8. HrefsOK(d, hrefs, p) /\ OpenOK(d, open, p)
  BY <1>2, Zenon DEF SeenAt
<1>9. HrefsOK(d, hrefs', p + 1) /\ OpenOK(d, open', p + 1)
  <2>1. CASE d[p].tag = "a"
    <3>1. hrefs' = Closed /\ open' = NoAnchor
      BY <1>2, <2>1, Zenon DEF EndTagToken
    <3>2. AnchorTag(d, p)
      BY <1>4, <2>1 DEF AnchorTag
    <3>3. HrefsSettled(d, Closed, p)
      BY <1>3, <1>7, <1>8, <3>2, ClosedSettles, ClosedIsClose, Zenon
    <3> QED
      BY <1>2, <2>1, <3>1, <3>3, HrefsEnd, Zenon
  <2>2. CASE d[p].tag # "a"
    <3>1. hrefs' = hrefs /\ open' = open
      BY <1>2, <2>2, Zenon DEF EndTagToken
    <3>2. ~AnchorTag(d, p) /\ p \notin Seen(d)
      BY <1>4, <2>2, TagToken DEF AnchorTag
    <3>3. p \notin Linking(d)
      BY <1>4, Zenon DEF Linking
    <3> QED
      BY <1>8, <3>1, <3>2, <3>3, HrefsSkip, OpenSkip, Zenon
  <2> QED
    BY <2>1, <2>2
<1>10. SeenAt(d, p + 1, visible', hrefs', open')
  BY <1>5, <1>9, Zenon DEF SeenAt
<1> QED
  BY <1>2, <1>3, <1>4, <1>6, <1>10, ReadOn, Zenon

\* and the end of the markup.
LEMMA SeenEnd ==
    ASSUME ScanTypeOK, SeenInv, ErrorToken
    PROVE  SeenInv'
<1>1. /\ result = <<>> /\ next > Len(msg.html) /\ hrefs' = Closed
      /\ result' = <<Extracted(msg.subject, msg.text, Closed, visible)>>
      /\ UNCHANGED <<msg, next, visible, rawTextDepth, pendingBreak>>
  BY Zenon DEF ErrorToken
<1>2. PICK d \in Seq(HTMLToken) : d = msg.html
  BY MessageParts DEF ScanTypeOK
<1>3. next \in 1..(Len(d) + 1) /\ hrefs \in Seq(Href)
  BY <1>2, Zenon DEF ScanTypeOK
<1>4. next = Len(d) + 1
  <2>1. Len(d) \in Nat /\ next > Len(d)
    BY <1>1, <1>2
  <2> QED
    BY <1>3, <2>1
<1>5. /\ visible = Rendered(d, Seen(d), "nl", next - 1) /\ (pendingBreak <=> Crossed(d, next))
      /\ HrefsOK(d, hrefs, next) /\ OpenOK(d, open, next)
  BY <1>1, <1>2, Zenon DEF SeenInv
<1>6. HrefsSettled(d, hrefs', next)
  BY <1>1, <1>3, <1>4, <1>5, ClosedSettles, ClosedIsClose, Zenon
<1>7. result' # <<>>
  <2>1. \A x : <<x>> # <<>>
    OBVIOUS
  <2> QED
    BY <1>1, <2>1, Zenon
<1>8. msg.html' = d /\ next' = next /\ visible' = visible /\ pendingBreak' = pendingBreak
  BY <1>1, <1>2, Zenon
<1> QED
  BY <1>4, <1>5, <1>6, <1>7, <1>8, Zenon DEF SeenInv

\* On every document the tokenizer can hand over, scanHTML reports the text a
\* reader sees, parted where a boundary parts it, and every href in order with
\* the text of its own anchor.
THEOREM ReportsWhatIsSeen == Spec => []SeenAsRendered
<1>1. Init => SeenInv
  <2> SUFFICES ASSUME NEW m \in Message, Begin(m) PROVE SeenInv
    BY DEF Init
  <2>1. /\ msg = m /\ next = 1 /\ hrefs = <<>> /\ visible = <<>> /\ result = <<>>
        /\ open = NoAnchor /\ pendingBreak = FALSE
    BY Zenon DEF Begin
  <2>2. PICK d \in Seq(HTMLToken) : d = msg.html
    BY <2>1, MessageParts
  <2>3. next - 1 = 0 /\ 1..(next - 1) = {}
    BY <2>1
  <2>4. visible = Rendered(d, Seen(d), "nl", next - 1)
    <3>1. \A k \in Seen(d) : k \in DOMAIN d /\ d[k].kind = "text"
      BY SeenTokens, Zenon
    <3>2. "nl" \in Symbol
      BY GlueSymbols
    <3>3. Rendered(d, Seen(d), "nl", 0) = <<>>
      BY <3>1, <3>2, RenderedStep, Zenon
    <3> QED
      BY <2>1, <2>3, <3>3, Zenon
  <2>5. ~Crossed(d, next) /\ OpenOK(d, open, next)
    BY <2>1, <2>3, Zenon DEF Crossed, OpenOK
  <2>6. \A k \in Linking(d) : ~(k < next) /\ ~(k <= 0)
    BY <2>1 DEF Linking
  <2>7. Len(hrefs) = Rank(d, next - 1)
    <3>1. {k \in Linking(d) : k <= 0} = {}
      BY <2>6
    <3>2. Rank(d, 0) = 0
      BY <3>1, FS_EmptySet, Zenon DEF Rank
    <3>3. Len(hrefs) = 0
      BY <2>1
    <3> QED
      BY <2>3, <3>2, <3>3, Zenon
  <2>8. HrefsOK(d, hrefs, next)
    BY <2>6, <2>7, Zenon DEF HrefsOK
  <2> QED
    BY <2>1, <2>2, <2>4, <2>5, <2>8, Zenon DEF SeenInv
<1>2. ScanTypeOK /\ DepthOK /\ SeenInv /\ [Next]_vars => SeenInv'
  <2> SUFFICES ASSUME ScanTypeOK, DepthOK, SeenInv, [Next]_vars PROVE SeenInv'
    OBVIOUS
  <2>1. CASE UNCHANGED vars
    BY <2>1, Zenon DEF SeenInv, vars
  <2> QED
    BY <2>1, SeenText, SeenStartTag, SeenEndTag, SeenEnd, Zenon DEF Next
<1>3. ScanTypeOK /\ SeenInv => SeenAsRendered
  <2> SUFFICES ASSUME ScanTypeOK, SeenInv, Done PROVE SeenAsRendered
    BY Zenon DEF SeenAsRendered
  <2>1. PICK d \in Seq(HTMLToken) : d = msg.html
    BY MessageParts DEF ScanTypeOK
  <2>2. next = Len(d) + 1 /\ HrefsSettled(d, hrefs, next)
    BY <2>1, Zenon DEF SeenInv, Done
  <2>3. next - 1 = Len(d) /\ \A k \in Linking(d) : k < next /\ k <= Len(d)
    BY <2>2 DEF Linking
  <2>4. visible = Rendered(d, Seen(d), "nl", Len(d))
    BY <2>1, <2>3, Zenon DEF SeenInv
  <2>5. Len(hrefs) = Cardinality(Linking(d))
    <3>1. {k \in Linking(d) : k <= Len(d)} = Linking(d)
      BY <2>3
    <3> QED
      BY <2>2, <2>3, <3>1, Zenon DEF HrefsSettled, Rank
  <2>6. \A k \in Linking(d) : hrefs[Rank(d, k)] = Settled(d, k)
    BY <2>2, <2>3, Zenon DEF HrefsSettled
  <2> QED
    BY <2>1, <2>4, <2>5, <2>6, Zenon DEF SeenAsRendered, Settled
<1>4. Spec => []DepthOK
  BY DepthKept
<1> QED
  BY <1>1, <1>2, <1>3, <1>4, ScanTypes, PTL DEF Spec

-----------------------------------------------------------------------------
(* Candidates.                                                             *)

\* Where before is a strict total order on a finite set, sorting by it loses
\* nothing and leaves every element behind those that come before it.
LEMMA ArrangedSorts ==
    ASSUME NEW S, IsFiniteSet(S), NEW before \in [S -> SUBSET S],
           \A x \in S : x \notin before[x],
           \A x, y \in S : x \in before[y] => before[x] \subseteq before[y],
           \A x, y \in S : x # y => x \in before[y] \/ y \in before[x]
    PROVE  /\ Cardinality(S) \in Nat
           /\ Arranged(S, before) \in [1..Cardinality(S) -> S]
           /\ \A j, k \in 1..Cardinality(S) : j < k => Arranged(S, before)[j] \in before[Arranged(S, before)[k]]
           /\ \A x \in S : \E k \in 1..Cardinality(S) : Arranged(S, before)[k] = x
<1> DEFINE place == [x \in S |-> Cardinality(before[x]) + 1]
<1>1. PICK n \in Nat : n = Cardinality(S)
  BY FS_CardinalityType
<1>2. \A x \in S : IsFiniteSet(before[x]) /\ Cardinality(before[x]) \in Nat
  BY FS_Subset, FS_CardinalityType
<1>3. ASSUME NEW x \in S, NEW y \in S, x \in before[y]
      PROVE  Cardinality(before[x]) < Cardinality(before[y])
  <2>1. before[x] \in SUBSET before[y] /\ before[x] # before[y]
    BY <1>3
  <2>2. Cardinality(before[x]) <= Cardinality(before[y]) /\ Cardinality(before[y]) # Cardinality(before[x])
    BY <1>2, <2>1, FS_Subset
  <2> QED
    BY <1>2, <2>2
<1>4. ASSUME NEW x \in S PROVE place[x] \in 1..n
  <2>1. before[x] \in SUBSET S /\ before[x] # S
    OBVIOUS
  <2>2. Cardinality(before[x]) <= Cardinality(S) /\ Cardinality(S) # Cardinality(before[x])
    BY <2>1, FS_Subset
  <2> QED
    BY <1>1, <1>2, <2>2
<1>5. \A x, y \in S : x # y => place[x] # place[y]
  BY <1>2, <1>3
<1>6. \A x \in S : place[x] = Cardinality(before[x]) + 1
  OBVIOUS
<1>7. place \in Injection(S, 1..n)
  BY <1>4, <1>5 DEF Injection, IsInjective
<1> HIDE DEF place
<1>8. Cardinality(1..n) = n /\ IsFiniteSet(1..n)
  BY FS_Interval
<1>9. place \in Surjection(S, 1..n)
  BY <1>1, <1>7, <1>8, FS_Injection
<1>10. \A k \in 1..n : \E x \in S : place[x] = k
  BY <1>9 DEF Surjection
<1>11. PICK f : f = Arranged(S, before)
  OBVIOUS
<1>12. f = [k \in 1..n |-> CHOOSE x \in S : Cardinality(before[x]) = k - 1]
  BY <1>1, <1>11 DEF Arranged
<1>13. ASSUME NEW k \in 1..n PROVE f[k] \in S /\ place[f[k]] = k
  <2>1. PICK x \in S : place[x] = k
    BY <1>10
  <2>2. Cardinality(before[x]) = k - 1
    BY <1>2, <1>6, <2>1
  <2>3. f[k] = CHOOSE z \in S : Cardinality(before[z]) = k - 1
    BY <1>12
  <2>4. f[k] \in S /\ Cardinality(before[f[k]]) = k - 1
    BY <2>2, <2>3, Zenon
  <2> QED
    BY <1>6, <2>4
<1>14. f \in [1..n -> S]
  BY <1>12, <1>13
<1>15. ASSUME NEW j \in 1..n, NEW k \in 1..n, j < k PROVE f[j] \in before[f[k]]
  <2>1. f[j] # f[k]
    BY <1>13, <1>15
  <2>2. ASSUME f[k] \in before[f[j]] PROVE FALSE
    <3>1. Cardinality(before[f[k]]) < Cardinality(before[f[j]])
      BY <1>3, <1>13, <2>2
    <3>2. Cardinality(before[f[j]]) + 1 = j /\ Cardinality(before[f[k]]) + 1 = k
      BY <1>6, <1>13
    <3> QED
      BY <1>2, <1>13, <1>15, <3>1, <3>2
  <2> QED
    BY <1>13, <2>1, <2>2
<1>16. ASSUME NEW x \in S PROVE \E k \in 1..n : f[k] = x
  <2>1. place[x] \in 1..n
    BY <1>4
  <2>2. place[f[place[x]]] = place[x] /\ f[place[x]] \in S
    BY <1>13, <2>1
  <2> QED
    BY <1>5, <2>1, <2>2
<1> QED
  BY <1>1, <1>11, <1>14, <1>15, <1>16

\* An occurrence of a code.
Occurrence == [code : Seq(Symbol), pos : Nat, score : Int]

\* The scores are integers.
LEMMA ScoreType ==
    ASSUME NEW code, NEW at, NEW words
    PROVE  scoreCandidate(code, at, words) \in Int
<1> DEFINE near == Neighborhood(at, words)
           Within(n) == \E w \in near : Distance(at, w) <= n
           leading == \E w \in near : w.end <= at.start /\ Distance(at, w) <= LeadingWindow
<1>1. PICK p \in Int :
         p = IF Within(NearWindow) THEN 100 ELSE IF Within(MediumWindow) THEN 60
             ELSE IF Within(FarWindow) THEN 30 ELSE 0
  OBVIOUS
<1>2. PICK b \in Int : b = IF leading THEN 15 ELSE 0
  OBVIOUS
<1>3. PICK l \in Int : l = CASE Len(code) = SixDigits -> 10 [] Len(code) = MaxOTPLen -> 4 [] OTHER -> 0
  OBVIOUS
<1>4. PICK y \in Int : y = IF code \in Year THEN penaltyYear ELSE 0
  BY DEF penaltyYear
<1>5. scoreCandidate(code, at, words) = ((p + b) + l) + y
  BY <1>1, <1>2, <1>3, <1>4 DEF Score, scoreCandidate
<1> QED
  BY <1>5

\* A run of digits is where it starts, and lies in the text.
LEMMA RunPlace ==
    ASSUME NEW s \in Seq(Symbol)
    PROVE  /\ \A at \in digitRuns(s) : at.start \in 1..Len(s) /\ at.end \in 1..(Len(s) + 1) /\ at.start < at.end
           /\ \A a, b \in digitRuns(s) : a.start = b.start => a = b
<1> DEFINE D == {i \in DOMAIN s : s[i] \in Digit}
           E(i) == {j \in (i + 1)..(Len(s) + 1) : j \notin D}
<1>1. \A at \in digitRuns(s) : \E i \in D : at = Span(i, Min(E(i)))
  BY DEF digitRuns
<1>2. ASSUME NEW i \in D PROVE i \in 1..Len(s) /\ Min(E(i)) \in (i + 1)..(Len(s) + 1)
  <2>1. i \in 1..Len(s) /\ Len(s) \in Nat
    OBVIOUS
  <2>2. Len(s) + 1 \in E(i) /\ E(i) \in SUBSET Nat
    BY <2>1
  <2>3. E(i) \subseteq (i + 1)..(Len(s) + 1)
    OBVIOUS
  <2> HIDE DEF D, E
  <2>4. Min(E(i)) \in E(i)
    BY <2>2, LeastNat
  <2> QED
    BY <2>1, <2>3, <2>4
<1> HIDE DEF D, E
<1>3. ASSUME NEW at \in digitRuns(s)
      PROVE  at.start \in 1..Len(s) /\ at.end \in 1..(Len(s) + 1) /\ at.start < at.end
  <2>1. PICK i \in D : at = Span(i, Min(E(i)))
    BY <1>1
  <2>2. PICK e \in (i + 1)..(Len(s) + 1) : e = Min(E(i))
    BY <1>2
  <2>3. at.start = i /\ at.end = e
    BY <2>1, <2>2 DEF Span
  <2> QED
    BY <1>2, <2>2, <2>3
<1>4. ASSUME NEW a \in digitRuns(s), NEW b \in digitRuns(s), a.start = b.start PROVE a = b
  <2>1. PICK i \in D : a = Span(i, Min(E(i)))
    BY <1>1
  <2>2. PICK j \in D : b = Span(j, Min(E(j)))
    BY <1>1
  <2>3. a.start = i /\ b.start = j
    BY <2>1, <2>2 DEF Span
  <2> QED
    BY <1>4, <2>1, <2>2, <2>3
<1> QED
  BY <1>3, <1>4

\* The occurrences are finitely many, and no two are in the same place.
LEMMA OccurrencesApart ==
    ASSUME NEW s \in Seq(Symbol)
    PROVE  /\ Occurrences(s) \subseteq Occurrence
           /\ IsFiniteSet(Occurrences(s))
           /\ \A x, y \in Occurrences(s) : x.pos = y.pos => x = y
           /\ \A x \in Occurrences(s) : \E at : x.score = scoreCandidate(x.code, at, findWords(s, ContextWord))
<1> DEFINE words == findWords(s, ContextWord)
           Of(at) == [code |-> Slice(s, at), pos |-> at.start, score |-> scoreCandidate(Slice(s, at), at, words)]
<1>1. Eligible(s) \subseteq digitRuns(s)
  BY DEF Eligible
<1>2. Occurrences(s) = {Of(at) : at \in Eligible(s)}
  BY Zenon DEF Occurrences
<1>3. \A at : /\ Of(at).code = Slice(s, at) /\ Of(at).pos = at.start
              /\ Of(at).score = scoreCandidate(Of(at).code, at, words)
  OBVIOUS
<1>4. ASSUME NEW at \in Eligible(s) PROVE Of(at) \in Occurrence
  <2>1. PICK i \in 1..Len(s), e \in 1..(Len(s) + 1) : i = at.start /\ e = at.end /\ i < e
    BY <1>1, RunPlace
  <2>2. SubSeq(s, i, e - 1) \in Seq(Symbol)
    BY <2>1
  <2>3. Slice(s, at) \in Seq(Symbol)
    BY <2>1, <2>2, Zenon DEF Slice
  <2>4. at.start \in Nat
    BY <2>1
  <2>5. scoreCandidate(Slice(s, at), at, words) \in Int
    BY ScoreType
  <2> QED
    BY <2>3, <2>4, <2>5 DEF Occurrence
<1> HIDE DEF Of
<1>5. ASSUME NEW x \in Occurrences(s), NEW y \in Occurrences(s), x.pos = y.pos PROVE x = y
  <2>1. PICK a \in Eligible(s) : x = Of(a)
    BY <1>2
  <2>2. PICK b \in Eligible(s) : y = Of(b)
    BY <1>2
  <2>3. a.start = b.start
    BY <1>3, <1>5, <2>1, <2>2, Zenon
  <2>4. a = b
    BY <1>1, <2>3, RunPlace
  <2> QED
    BY <2>1, <2>2, <2>4
<1>6. IsFiniteSet(Occurrences(s))
  <2>1. IsFiniteSet(1..Len(s))
    BY FS_Interval
  <2>2. PICK f : f = [x \in Occurrences(s) |-> x.pos]
    OBVIOUS
  <2>3. \A x \in Occurrences(s) : x.pos \in 1..Len(s)
    BY <1>1, <1>2, <1>3, RunPlace
  <2>4. f \in Injection(Occurrences(s), 1..Len(s))
    BY <1>5, <2>2, <2>3 DEF Injection, IsInjective
  <2> QED
    BY <2>1, <2>4, FS_Injection
<1>7. ASSUME NEW x \in Occurrences(s) PROVE \E at : x.score = scoreCandidate(x.code, at, words)
  BY <1>2, <1>3, Zenon
<1> QED
  BY <1>2, <1>4, <1>5, <1>6, <1>7

\* The ranking of the occurrences.
LEMMA FoundRanked ==
    ASSUME NEW s \in Seq(Symbol)
    PROVE  /\ Found(s) \in Seq(Occurrences(s)) /\ Len(Found(s)) \in Nat
           /\ \A j, k \in 1..Len(Found(s)) : j < k => Precedes(Found(s)[j], Found(s)[k])
           /\ \A x \in Occurrences(s) : \E k \in 1..Len(Found(s)) : Found(s)[k] = x
<1>1. PICK S \in SUBSET Occurrence : S = Occurrences(s)
  BY OccurrencesApart
<1>2. IsFiniteSet(S) /\ \A x, y \in S : x.pos = y.pos => x = y
  BY <1>1, OccurrencesApart, Zenon
<1>3. \A x \in S : x.pos \in Nat /\ x.score \in Int
  BY DEF Occurrence
<1>4. PICK b : b = [o \in S |-> {x \in S : Precedes(x, o)}]
  OBVIOUS
<1>5. b \in [S -> SUBSET S] /\ \A x, y \in S : x \in b[y] <=> Precedes(x, y)
  BY <1>4
<1>6. \A x \in S : x \notin b[x]
  BY <1>3, <1>5 DEF Precedes
<1>7. \A x, y, z \in S : Precedes(x, y) /\ Precedes(y, z) => Precedes(x, z)
  BY <1>3 DEF Precedes
<1>8. ASSUME NEW x \in S, NEW y \in S, x \in b[y] PROVE b[x] \subseteq b[y]
  BY <1>5, <1>7, <1>8
<1>9. ASSUME NEW x \in S, NEW y \in S, x # y PROVE x \in b[y] \/ y \in b[x]
  <2>1. x.pos # y.pos
    BY <1>2, <1>9
  <2>2. Precedes(x, y) \/ Precedes(y, x)
    BY <1>3, <2>1 DEF Precedes
  <2> QED
    BY <1>5, <2>2
<1>10. PICK f : f = Arranged(S, b)
  OBVIOUS
<1>11. Found(s) = f
  BY <1>1, <1>4, <1>10, Zenon DEF Found
<1>12. PICK n \in Nat : n = Cardinality(S)
  BY <1>2, FS_CardinalityType
<1>13. /\ f \in [1..n -> S]
       /\ \A j, k \in 1..n : j < k => f[j] \in b[f[k]]
       /\ \A x \in S : \E k \in 1..n : f[k] = x
  BY <1>2, <1>5, <1>6, <1>8, <1>9, <1>10, <1>12, ArrangedSorts
<1>14. f \in Seq(S) /\ Len(f) = n
  BY <1>13
<1>15. \A j, k \in 1..n : j < k => Precedes(f[j], f[k])
  BY <1>5, <1>13
<1> QED
  BY <1>1, <1>11, <1>13, <1>14, <1>15, Zenon

\* What otpCandidates keeps of the first k occurrences: each code once, at its
\* first place in the ranking, in the order of the ranking.
KeptOK(found, out, k) ==
    /\ \A i \in DOMAIN out : \E j \in 1..k : out[i] = found[j]
    /\ \A j \in 1..k : \E i \in DOMAIN out : /\ out[i].code = found[j].code
                                             /\ out[i] = found[j] \/ Precedes(out[i], found[j])
    /\ \A i, j \in DOMAIN out : i < j => Precedes(out[i], out[j]) /\ out[i].code # out[j].code

\* Keep yields a list of what it is given.
LEMMA KeepType ==
    ASSUME NEW S, NEW out \in Seq(S), NEW c \in S
    PROVE  Keep(out, c) \in Seq(S)
  BY DEF Keep

\* One more occurrence, which ranks behind those before it.
LEMMA KeepNext ==
    ASSUME NEW S, NEW found \in Seq(S), NEW out \in Seq(S), NEW k \in 1..Len(found),
           \A j \in 1..Len(found) : j < k => Precedes(found[j], found[k]),
           KeptOK(found, out, k - 1)
    PROVE  KeptOK(found, Keep(out, found[k]), k)
<1>0. /\ \A i \in DOMAIN out : \E j \in 1..(k - 1) : out[i] = found[j]
      /\ \A i, j \in DOMAIN out : i < j => Precedes(out[i], out[j]) /\ out[i].code # out[j].code
  BY Zenon DEF KeptOK
<1>1. PICK c \in S : c = found[k]
  OBVIOUS
<1>2. \A j \in 1..k : j = k \/ j \in 1..(k - 1)
  OBVIOUS
<1>3. \A j \in 1..(k - 1) : j \in 1..k /\ j \in 1..Len(found) /\ j < k
  OBVIOUS
<1>4. k \in 1..k
  OBVIOUS
<1>5. \A i \in DOMAIN out : Precedes(out[i], c)
  BY <1>1, <1>3, Zenon DEF KeptOK
<1>6. CASE \E i \in DOMAIN out : out[i].code = c.code
  <2>1. Keep(out, found[k]) = out
    BY <1>1, <1>6, Zenon DEF Keep
  <2>2. \A j \in 1..k : \E i \in DOMAIN out : /\ out[i].code = found[j].code
                                              /\ out[i] = found[j] \/ Precedes(out[i], found[j])
    BY <1>1, <1>2, <1>5, <1>6, Zenon DEF KeptOK
  <2>3. \A i \in DOMAIN out : \E j \in 1..k : out[i] = found[j]
    BY <1>3, Zenon DEF KeptOK
  <2> QED
    <3>1. KeptOK(found, out, k)
      BY <1>0, <2>2, <2>3 DEF KeptOK
    <3> QED
      BY <2>1, <3>1, Zenon
<1>7. CASE ~\E i \in DOMAIN out : out[i].code = c.code
  <2>1. PICK new : new = Append(out, c)
    OBVIOUS
  <2>2. Keep(out, found[k]) = new
    BY <1>1, <1>7, <2>1, Zenon DEF Keep
  <2>3. PICK n \in Nat : n = Len(out) + 1 /\ DOMAIN out = 1..(n - 1)
    OBVIOUS
  <2>4. DOMAIN new = 1..n /\ new[n] = c /\ \A i \in DOMAIN out : new[i] = out[i]
    BY <2>1, <2>3
  <2>5. \A i \in DOMAIN new : i = n \/ i \in DOMAIN out
    BY <2>3, <2>4
  <2>6. n \in DOMAIN new /\ n \notin DOMAIN out /\ \A i \in DOMAIN out : i \in DOMAIN new /\ ~(n < i)
    BY <2>3, <2>4
  <2>7. \A i \in DOMAIN new : \E j \in 1..k : new[i] = found[j]
    <3>1. new[n] = found[k]
      BY <1>1, <2>4, Zenon
    <3>2. ASSUME NEW i \in DOMAIN out PROVE \E j \in 1..k : new[i] = found[j]
      <4>1. PICK j \in 1..(k - 1) : out[i] = found[j]
        BY <1>0, Zenon
      <4>2. j \in 1..k /\ new[i] = out[i]
        BY <2>4
      <4> QED
        BY <4>1, <4>2, Zenon
    <3> QED
      BY <1>4, <2>5, <3>1, <3>2, Zenon
  <2>8. \A j \in 1..k : \E i \in DOMAIN new : /\ new[i].code = found[j].code
                                              /\ new[i] = found[j] \/ Precedes(new[i], found[j])
    <3> SUFFICES ASSUME NEW j \in 1..k
                 PROVE  \E i \in DOMAIN new : /\ new[i].code = found[j].code
                                              /\ new[i] = found[j] \/ Precedes(new[i], found[j])
      OBVIOUS
    <3>1. CASE j = k
      BY <1>1, <2>4, <2>6, <3>1, Zenon
    <3>2. CASE j \in 1..(k - 1)
      <4>1. PICK i \in DOMAIN out : /\ out[i].code = found[j].code
                                    /\ out[i] = found[j] \/ Precedes(out[i], found[j])
        BY <3>2, Zenon DEF KeptOK
      <4> QED
        BY <2>4, <2>6, <4>1, Zenon
    <3> QED
      BY <1>2, <3>1, <3>2
  <2>9. ASSUME NEW i \in DOMAIN new, NEW j \in DOMAIN new, i < j
        PROVE  Precedes(new[i], new[j]) /\ new[i].code # new[j].code
    <3>1. i \in DOMAIN out
      BY <2>3, <2>4, <2>9
    <3>2. CASE j = n
      BY <1>5, <1>7, <2>4, <3>1, <3>2, Zenon
    <3>3. CASE j \in DOMAIN out
      <4>1. Precedes(out[i], out[j]) /\ out[i].code # out[j].code
        BY <1>0, <2>9, <3>1, <3>3
      <4>2. new[i] = out[i] /\ new[j] = out[j]
        BY <2>4, <3>1, <3>3, Zenon
      <4> QED
        BY <4>1, <4>2, Zenon
    <3> QED
      BY <2>5, <3>2, <3>3
  <2> QED
    <3>1. \A i, j \in DOMAIN new : i < j => Precedes(new[i], new[j]) /\ new[i].code # new[j].code
      BY <2>9, Zenon
    <3>2. KeptOK(found, new, k)
      BY <2>7, <2>8, <3>1, ZenonT(40) DEF KeptOK
    <3> QED
      BY <2>2, <3>2, Zenon
<1> QED
  BY <1>6, <1>7

\* otpCandidates keeps each code once, by the best placed of its occurrences.
LEMMA CandidatesKept ==
    ASSUME NEW s \in Seq(Symbol)
    PROVE  /\ otpCandidates(s) \in Seq(Occurrences(s))
           /\ KeptOK(Found(s), otpCandidates(s), Len(Found(s)))
<1>1. PICK S : S = Occurrences(s)
  OBVIOUS
<1>2. PICK f \in Seq(S) : f = Found(s)
  BY <1>1, FoundRanked, Zenon
<1>3. PICK L \in Nat : L = Len(f) /\ DOMAIN f = 1..L
  OBVIOUS
<1>4. \A j, k \in 1..L : j < k => Precedes(f[j], f[k])
  BY <1>2, <1>3, FoundRanked, Zenon
<1>5. <<>> \in Seq(S) /\ DOMAIN <<>> = {}
  OBVIOUS
<1> DEFINE Rounds(b) == [k \in 0..L |-> IF k = 0 THEN <<>> ELSE Keep(b[k - 1], f[k])]
           step == [k \in 1..L |-> [b \in Seq(S) |-> Keep(b, f[k])]]
<1>6. step \in [1..L -> [Seq(S) -> Seq(S)]]
  BY <1>3, KeepType
<1>7. \A k \in 1..L, b \in Seq(S) : step[k][b] = Keep(b, f[k])
  OBVIOUS
<1> HIDE DEF step
<1>8. PICK g \in [0..L -> Seq(S)] : IsLoop(g, L, <<>>, step)
  BY <1>5, <1>6, LoopRuns
<1>9. g = Rounds(g)
  <2>1. ASSUME NEW k \in 0..L PROVE g[k] = IF k = 0 THEN <<>> ELSE Keep(g[k - 1], f[k])
    <3>1. CASE k = 0
      BY <1>8, <3>1 DEF IsLoop
    <3>2. CASE k # 0
      <4>1. k \in 1..L /\ k - 1 \in 0..L
        BY <3>2
      <4>2. g[k] = step[k][g[k - 1]] /\ g[k - 1] \in Seq(S)
        BY <1>8, <4>1 DEF IsLoop
      <4> QED
        BY <1>7, <3>2, <4>1, <4>2
    <3> QED
      BY <3>1, <3>2
  <2> QED
    BY <2>1
<1>10. \E b : b = Rounds(b) /\ otpCandidates(s) = b[L]
  BY <1>2, <1>3, <1>9, Zenon DEF otpCandidates
<1>11. PICK b : b = Rounds(b) /\ otpCandidates(s) = b[L]
  BY <1>10
<1>12. \A k \in 0..L : b[k] = IF k = 0 THEN <<>> ELSE Keep(b[k - 1], f[k])
  BY <1>11, Zenon
<1> HIDE DEF Rounds
<1> DEFINE G == {k \in 0..L : b[k] \in Seq(S) /\ KeptOK(f, b[k], k)}
<1>13. 0 \in G
  <2>1. 0 \in 0..L /\ 1..0 = {}
    OBVIOUS
  <2>2. b[0] = <<>>
    BY <1>12, <2>1, Zenon
  <2>3. KeptOK(f, b[0], 0)
    BY <1>5, <2>1, <2>2, Zenon DEF KeptOK
  <2> QED
    BY <1>5, <2>1, <2>2, <2>3, Zenon
<1>14. ASSUME NEW k \in 1..L, k - 1 \in G PROVE k \in G
  <2>1. k \in 0..L /\ k # 0 /\ f[k] \in S
    BY <1>3
  <2>2. b[k] = Keep(b[k - 1], f[k])
    BY <1>12, <2>1, Zenon
  <2>3. PICK out \in Seq(S) : out = b[k - 1] /\ KeptOK(f, out, k - 1)
    BY <1>14, Zenon
  <2>4. KeptOK(f, Keep(out, f[k]), k)
    BY <1>3, <1>4, <2>3, KeepNext
  <2>5. Keep(out, f[k]) \in Seq(S)
    BY <2>1, KeepType
  <2> QED
    BY <2>1, <2>2, <2>3, <2>4, <2>5, Zenon
<1>15. L \in 0..L
  OBVIOUS
<1> HIDE DEF G
<1>16. L \in G
  BY <1>13, <1>14, <1>15, Induct
<1> QED
  BY <1>1, <1>2, <1>3, <1>11, <1>16, Zenon DEF G

\* The largest and the least of a set of integers are members that bound it.
LEMMA MaxIs ==
    ASSUME NEW S \in SUBSET Int, NEW m \in S, \A y \in S : y <= m
    PROVE  Max(S) = m
<1>1. \A y \in S : m >= y
  OBVIOUS
<1>2. Max(S) \in S /\ \A y \in S : Max(S) >= y
  BY <1>1, Zenon DEF Max
<1>3. PICK x \in Int : x = Max(S) /\ x >= m /\ x <= m
  BY <1>2
<1> QED
  BY <1>3

\* And the least number of a set by what it is.
LEMMA MinIs ==
    ASSUME NEW S \in SUBSET Int, NEW m \in S, \A y \in S : m <= y
    PROVE  Min(S) = m
<1>1. Min(S) \in S /\ \A y \in S : Min(S) <= y
  BY Zenon DEF Min
<1>2. PICK x \in Int : x = Min(S) /\ x >= m /\ x <= m
  BY <1>1
<1> QED
  BY <1>2

\* The result is what the rest of Extract makes of the finished scan.
ResultOK ==
    Done => /\ ~(next <= Len(msg.html))
            /\ result = <<Extracted(msg.subject, msg.text, hrefs, visible)>>

\* The result is what Extract makes of what was read, and stays so.
LEMMA ResultKept == Spec => []ResultOK
<1>1. Init => ResultOK
  <2> SUFFICES ASSUME NEW m \in Message, Begin(m) PROVE ResultOK
    BY DEF Init
  <2> QED
    BY Zenon DEF Begin, ResultOK, Done
<1>2. ScanTypeOK /\ ResultOK /\ [Next]_vars => ResultOK'
  <2> SUFFICES ASSUME ScanTypeOK, ResultOK, [Next]_vars PROVE ResultOK'
    OBVIOUS
  <2>1. CASE TextToken \/ StartTagToken \/ EndTagToken
    <3>1. next <= Len(msg.html) /\ result' = result
      BY <2>1, Zenon DEF TextToken, StartTagToken, EndTagToken, Token
    <3> QED
      BY <3>1, Zenon DEF ResultOK, Done
  <2>2. CASE ErrorToken
    <3>1. /\ next > Len(msg.html) /\ hrefs' = Closed /\ UNCHANGED <<msg, next, visible>>
          /\ result' = <<Extracted(msg.subject, msg.text, Closed, visible)>>
      BY <2>2, Zenon DEF ErrorToken
    <3>2. ~(next <= Len(msg.html))
      <4>1. PICK x \in Int, n \in Nat : x = next /\ n = Len(msg.html) /\ x > n
        <5>1. msg.html \in Seq(HTMLToken)
          BY MessageParts DEF ScanTypeOK
        <5>2. Len(msg.html) \in Nat
          BY <5>1
        <5>3. next \in 1..(Len(msg.html) + 1)
          BY Zenon DEF ScanTypeOK
        <5> QED
          BY <3>1, <5>2, <5>3
      <4> QED
        BY <4>1
    <3> QED
      BY <3>1, <3>2, Zenon DEF ResultOK, Done
  <2>3. CASE UNCHANGED vars
    BY <2>3, Zenon DEF vars, ResultOK, Done
  <2> QED
    BY <2>1, <2>2, <2>3, Zenon DEF Next
<1> QED
  BY <1>1, <1>2, ScanTypes, PTL DEF Spec

\* What becomes of the candidates.
CodesOf(c, codes, best) ==
    /\ codes = [i \in DOMAIN c |-> c[i].code]
    /\ best = IF {i \in DOMAIN c : c[i].score > 0} = {} THEN <<>>
              ELSE c[Min({i \in DOMAIN c : c[i].score > 0})].code

\* The codes of the result are those of the candidates.
LEMMA ResultCodes ==
    ASSUME ResultOK, Done
    PROVE  CodesOf(otpCandidates(fold(Plain)), Res.otpCandidates, Res.otpBest)
<1>0. PICK c : c = otpCandidates(fold(Plain))
  OBVIOUS
<1>1. PICK e : e = Extracted(msg.subject, msg.text, hrefs, visible)
  OBVIOUS
<1>2. result = <<e>>
  BY <1>1, Zenon DEF ResultOK
<1>3. Res = e
  BY <1>2 DEF Res
<1>4. PICK v : v = verifyLinkBest(collectLinks(hrefs, Plain))
  OBVIOUS
<1>5. PICK links : links = collectLinks(hrefs, Plain)
  OBVIOUS
<1>6. PICK best : best = IF {i \in DOMAIN c : c[i].score > 0} = {} THEN <<>>
                         ELSE c[Min({i \in DOMAIN c : c[i].score > 0})].code
  OBVIOUS
<1>7. e = [otpBest |-> best, otpCandidates |-> [i \in DOMAIN c |-> c[i].code],
           links |-> links, verifyLinkBest |-> v]
  BY <1>0, <1>1, <1>4, <1>5, <1>6, Zenon DEF Extracted, Plain
<1>8. e.otpBest = best /\ e.otpCandidates = [i \in DOMAIN c |-> c[i].code]
  BY <1>7
<1>9. CodesOf(c, e.otpCandidates, e.otpBest)
  BY <1>6, <1>8, Zenon DEF CodesOf
<1> QED
  BY <1>0, <1>3, <1>9, Zenon

\* Whatever the message says, the code that Extract proposes for it is not a
\* year: every candidate carries the score of its own occurrence, and a year
\* has none above zero.
THEOREM BestIsNoYear == Spec => []NeverAYear
<1>1. ScanTypeOK /\ ResultOK => NeverAYear
  <2> SUFFICES ASSUME ScanTypeOK, ResultOK, Done PROVE Res.otpBest \notin Year
    BY Zenon DEF NeverAYear
  <2>1. PICK s \in Seq(Symbol) : s = fold(Plain)
    BY PlainType, FoldType
  <2>2. PICK c \in Seq(Occurrences(s)) : c = otpCandidates(s)
    BY CandidatesKept
  <2> DEFINE P == {i \in DOMAIN c : c[i].score > 0}
  <2>3. Res.otpBest = IF P = {} THEN <<>> ELSE c[Min(P)].code
    <3>1. CodesOf(c, Res.otpCandidates, Res.otpBest)
      BY <2>1, <2>2, ResultCodes, Zenon
    <3> QED
      BY <3>1, Zenon DEF CodesOf
  <2>4. CASE P = {}
    <3>1. Len(<<>>) = 0
      OBVIOUS
    <3>2. \A y \in Year : Len(y) # 0
      BY CodeLengths
    <3> QED
      BY <2>3, <2>4, <3>1, <3>2, Zenon
  <2>5. CASE P # {}
    <3>1. P \in SUBSET Nat
      OBVIOUS
    <3>2. \A i \in P : i \in DOMAIN c /\ c[i].score > 0
      OBVIOUS
    <3> HIDE DEF P
    <3>3. PICK i \in DOMAIN c : i = Min(P) /\ c[i].score > 0
      BY <2>5, <3>1, <3>2, LeastNat
    <3>4. PICK o \in Occurrences(s) : o = c[i]
      BY <3>3
    <3>5. PICK at : o.score = scoreCandidate(o.code, at, findWords(s, ContextWord))
      BY <3>4, OccurrencesApart
    <3>6. ASSUME o.code \in Year PROVE FALSE
      <4>1. scoreCandidate(o.code, at, findWords(s, ContextWord)) <= 0
        BY <3>6, YearNeverScores
      <4>2. PICK n \in Int : n = o.score
        BY <3>4, OccurrencesApart DEF Occurrence
      <4>3. n <= 0 /\ n > 0
        BY <3>3, <3>4, <3>5, <4>1, <4>2
      <4> QED
        BY <4>3
    <3>7. Res.otpBest = o.code
      BY <2>3, <2>5, <3>3, <3>4, Zenon
    <3> QED
      BY <3>6, <3>7, Zenon
  <2> QED
    BY <2>4, <2>5
<1> QED
  BY <1>1, ScanTypes, ResultKept, PTL

\* The best score and its first place, of the occurrences of a code.
LEMMA BestPlaced ==
    ASSUME NEW S \in SUBSET Occurrence, NEW o \in S,
           \A x \in S : x.code = o.code => x = o \/ Precedes(o, x)
    PROVE  /\ Max({x.score : x \in {y \in S : y.code = o.code}}) = o.score
           /\ Min({x.pos : x \in {y \in S : y.code = o.code /\ y.score = o.score}}) = o.pos
<1>1. \A x \in S : x.pos \in Nat /\ x.score \in Int
  BY DEF Occurrence
<1>2. \A x \in S : x.code = o.code => x.score <= o.score /\ (x.score = o.score => o.pos <= x.pos)
  BY <1>1 DEF Precedes
<1>3. PICK A : A = {x.score : x \in {y \in S : y.code = o.code}}
  OBVIOUS
<1>4. A \in SUBSET Int /\ o.score \in A /\ \A n \in A : n <= o.score
  BY <1>1, <1>2, <1>3
<1>5. PICK B : B = {x.pos : x \in {y \in S : y.code = o.code /\ y.score = o.score}}
  OBVIOUS
<1>6. B \in SUBSET Int /\ o.pos \in B /\ \A n \in B : o.pos <= n
  BY <1>1, <1>2, <1>5
<1>7. Max(A) = o.score
  BY <1>4, MaxIs
<1>8. Min(B) = o.pos
  BY <1>6, MinIs
<1> QED
  BY <1>3, <1>5, <1>7, <1>8, Zenon

\* The candidates of every message are its codes, each once, in the order of
\* their best placed occurrences: taking out repeats after the sort keeps the
\* right one.
THEOREM CandidatesRanked == Spec => []RankedByBest
<1>1. ScanTypeOK /\ ResultOK => RankedByBest
  <2> SUFFICES ASSUME ScanTypeOK, ResultOK, Done PROVE RankedByBest
    BY Zenon DEF RankedByBest
  <2>1. PICK s \in Seq(Symbol) : s = fold(Plain)
    BY PlainType, FoldType
  <2>2. PICK S \in SUBSET Occurrence : S = Occurrences(s)
    BY OccurrencesApart
  <2>3. PICK c \in Seq(S) : c = otpCandidates(s)
    BY <2>2, CandidatesKept, Zenon
  <2>4. PICK f \in Seq(S) : f = Found(s)
    BY <2>2, FoundRanked, Zenon
  <2>5. PICK codes : codes = [i \in DOMAIN c |-> c[i].code]
    OBVIOUS
  <2>6. Res.otpCandidates = codes
    <3>1. CodesOf(c, Res.otpCandidates, Res.otpBest)
      BY <2>1, <2>3, ResultCodes, Zenon
    <3> QED
      BY <2>5, <3>1, Zenon DEF CodesOf
  <2>7. DOMAIN codes = DOMAIN c /\ \A i \in DOMAIN c : codes[i] = c[i].code /\ c[i] \in S
    BY <2>5
  <2>8. KeptOK(f, c, Len(f))
    BY <2>3, <2>4, CandidatesKept, Zenon
  <2>9. \A x \in S : \E k \in 1..Len(f) : f[k] = x
    BY <2>2, <2>4, FoundRanked, Zenon
  <2>10. \A x \in S : \E i \in DOMAIN c : c[i].code = x.code /\ (c[i] = x \/ Precedes(c[i], x))
    <3> SUFFICES ASSUME NEW x \in S
                 PROVE  \E i \in DOMAIN c : c[i].code = x.code /\ (c[i] = x \/ Precedes(c[i], x))
      OBVIOUS
    <3>1. PICK k \in 1..Len(f) : f[k] = x
      BY <2>9
    <3>2. PICK i \in DOMAIN c : c[i].code = f[k].code /\ (c[i] = f[k] \/ Precedes(c[i], f[k]))
      BY <2>8, Zenon DEF KeptOK
    <3> QED
      BY <3>1, <3>2, Zenon
  <2>11. \A i, j \in DOMAIN c : i < j => Precedes(c[i], c[j]) /\ c[i].code # c[j].code
    BY <2>8, Zenon DEF KeptOK
  <2>12. \A i, j \in DOMAIN c : c[i].code = c[j].code => i = j
    <3>1. \A i, j \in DOMAIN c : i = j \/ i < j \/ j < i
      OBVIOUS
    <3> QED
      BY <2>11, <3>1, Zenon
  <2>13. ToSet(codes) = {o.code : o \in S}
    <3>1. ToSet(codes) = {codes[i] : i \in DOMAIN c}
      BY <2>7, Zenon DEF ToSet
    <3> QED
      <4>1. \A i \in DOMAIN c : codes[i] \in {o.code : o \in S}
        BY <2>7
      <4>2. \A o \in S : o.code \in {codes[i] : i \in DOMAIN c}
        BY <2>7, <2>10
      <4> QED
        BY <3>1, <4>1, <4>2, Zenon
  <2> DEFINE Best(w) == Max({o.score : o \in {x \in S : x.code = w}})
             At(w) == Min({o.pos : o \in {x \in S : x.code = w /\ x.score = Best(w)}})
  <2>14. ASSUME NEW i \in DOMAIN c PROVE Best(codes[i]) = c[i].score /\ At(codes[i]) = c[i].pos
    <3>1. PICK o \in S : o = c[i] /\ codes[i] = o.code
      BY <2>7, Zenon
    <3>2. \A x \in S : x.code = o.code => x = o \/ Precedes(o, x)
      BY <2>10, <2>12, <3>1, Zenon
    <3>3. /\ Max({x.score : x \in {y \in S : y.code = o.code}}) = o.score
          /\ Min({x.pos : x \in {y \in S : y.code = o.code /\ y.score = o.score}}) = o.pos
      BY <3>2, BestPlaced
    <3>4. Best(codes[i]) = o.score
      BY <3>1, <3>3, Zenon
    <3>5. At(codes[i]) = o.pos
      BY <3>1, <3>3, <3>4, Zenon
    <3> QED
      BY <3>1, <3>4, <3>5, Zenon
  <2>15. \A i, j \in DOMAIN codes : i < j =>
            \/ Best(codes[i]) > Best(codes[j])
            \/ (Best(codes[i]) = Best(codes[j]) /\ At(codes[i]) < At(codes[j]))
    <3> HIDE DEF Best, At
    <3> SUFFICES ASSUME NEW i \in DOMAIN c, NEW j \in DOMAIN c, i < j
                 PROVE  \/ Best(codes[i]) > Best(codes[j])
                        \/ (Best(codes[i]) = Best(codes[j]) /\ At(codes[i]) < At(codes[j]))
      BY <2>7, Zenon
    <3>1. \/ c[i].score > c[j].score
          \/ (c[i].score = c[j].score /\ c[i].pos < c[j].pos)
      BY <2>11, Zenon DEF Precedes
    <3> QED
      BY <2>14, <3>1, Zenon
  <2>16. RankedCodes(S, codes)
    BY <2>13, <2>15, Zenon DEF RankedCodes
  <2>17. RankedCodes(Occurrences(fold(Plain)), Res.otpCandidates)
    BY <2>1, <2>2, <2>6, <2>16, Zenon
  <2> QED
    BY <2>17, Zenon DEF RankedByBest
<1> QED
  BY <1>1, ScanTypes, ResultKept, PTL

-----------------------------------------------------------------------------
(* URLs in text.                                                           *)

\* Spans none of which is empty and no two of which overlap.
Disjoint(S) ==
    /\ \A a \in S : IsSpan(a) /\ a.start < a.end
    /\ \A a, b \in S : a # b => a.end <= b.start \/ b.end <= a.start

\* Sorted by their starts, such spans are in order and apart.
LEMMA AscendingSorts ==
    ASSUME NEW S, IsFiniteSet(S), Disjoint(S)
    PROVE  /\ Ascending(S) \in Seq(S)
           /\ Apart(Ascending(S))
           /\ \A x \in S : \E i \in DOMAIN Ascending(S) : Ascending(S)[i] = x
<1>1. \A x \in S : x.start \in Nat /\ x.end \in Nat /\ x.start < x.end
  BY DEF Disjoint, IsSpan
<1>2. \A a, b \in S : a # b => a.end <= b.start \/ b.end <= a.start
  BY Zenon DEF Disjoint
<1>3. PICK b : b = [x \in S |-> {y \in S : y.start < x.start}]
  OBVIOUS
<1>4. b \in [S -> SUBSET S] /\ \A x, y \in S : x \in b[y] <=> x.start < y.start
  BY <1>3
<1>5. \A x \in S : x \notin b[x]
  BY <1>1, <1>4
<1>6. \A x, y, z \in S : x.start < y.start /\ y.start < z.start => x.start < z.start
  BY <1>1
<1>7. ASSUME NEW x \in S, NEW y \in S, x \in b[y] PROVE b[x] \subseteq b[y]
  BY <1>4, <1>6, <1>7
<1>8. ASSUME NEW x \in S, NEW y \in S, x # y PROVE x \in b[y] \/ y \in b[x]
  <2>1. x.start < y.start \/ y.start < x.start
    BY <1>1, <1>2, <1>8
  <2> QED
    BY <1>4, <2>1
<1>9. PICK f : f = Arranged(S, b)
  OBVIOUS
<1>10. Ascending(S) = f
  BY <1>3, <1>9, Zenon DEF Ascending
<1>11. PICK n \in Nat : n = Cardinality(S)
  BY FS_CardinalityType
<1>12. /\ f \in [1..n -> S]
       /\ \A j, k \in 1..n : j < k => f[j] \in b[f[k]]
       /\ \A x \in S : \E k \in 1..n : f[k] = x
  BY <1>4, <1>5, <1>7, <1>8, <1>9, <1>11, ArrangedSorts
<1>13. f \in Seq(S) /\ DOMAIN f = 1..n
  BY <1>12
<1>14. ASSUME NEW j \in 1..n, NEW k \in 1..n, j < k PROVE f[j].end <= f[k].start
  <2>1. PICK x \in S, y \in S : x = f[j] /\ y = f[k]
    BY <1>12
  <2>2. x.start < y.start
    BY <1>4, <1>12, <1>14, <2>1
  <2>3. x # y
    BY <1>1, <2>2
  <2>4. x.end <= y.start \/ y.end <= x.start
    BY <1>2, <2>3
  <2>5. x.end <= y.start
    BY <1>1, <2>2, <2>4
  <2> QED
    BY <2>1, <2>5
<1>15. Apart(f)
  <2>1. \A i \in DOMAIN f : IsSpan(f[i]) /\ f[i].start < f[i].end
    BY <1>12, <1>13, Zenon DEF Disjoint
  <2>2. \A i, j \in DOMAIN f : i < j => f[i].end <= f[j].start
    BY <1>13, <1>14
  <2> QED
    BY <2>1, <2>2, Zenon DEF Apart
<1> QED
  BY <1>10, <1>12, <1>13, <1>15, Zenon

\* What is reported of a text that begins at start and whose token holds, at m,
\* something that is never trimmed: it goes beyond m and not beyond the token.
LEMMA URLFromSpan ==
    ASSUME NEW s \in Seq(Symbol), NEW m \in 1..Len(s), NEW start \in 1..m,
           s[m] \notin SentenceEnd, s[m] \notin DOMAIN Opener, ~isURLTerminator(s[m])
    PROVE  \E e \in Nat : /\ URLFrom(s, start, TokenEnd(s, m)) = Span(start, e)
                          /\ m < e /\ e <= TokenEnd(s, m)
<1>1. PICK t \in m..(Len(s) + 1) : t = TokenEnd(s, m) /\ t # m
  <2>1. PICK t \in m..(Len(s) + 1) : t = TokenEnd(s, m) /\ (t \in 1..Len(s) => isURLTerminator(s[t]))
    BY TokenEndStops
  <2> QED
    BY <2>1
<1>2. PICK raw \in Seq(Symbol) : raw = SubSeq(s, start, t - 1)
  <2>1. SubSeq(s, start, t - 1) \in Seq(Symbol)
    BY <1>1
  <2> QED
    BY <2>1
<1>3. PICK L \in Nat : L = Len(raw) /\ L = t - start
  <2>1. t - 1 \in Nat /\ start \in Nat /\ start <= t - 1 /\ t - 1 <= Len(s) /\ t - start \in Nat
    BY <1>1
  <2>2. Len(SubSeq(s, start, t - 1)) = t - start
    BY <2>1
  <2> QED
    BY <1>2, <2>1, <2>2
<1>4. PICK q \in 1..L : q = m - start + 1 /\ raw[q] = s[m]
  <2>1. PICK q \in 1..L : q = m - start + 1 /\ start + q - 1 = m
    BY <1>1, <1>3
  <2>2. \A i \in 1..L : SubSeq(s, start, t - 1)[i] = s[start + i - 1]
    BY <1>1, <1>3
  <2> QED
    BY <1>2, <2>1, <2>2, Zenon
<1> DEFINE T == {n \in 1..L : Stays(raw, n)} \cup {0}
<1>5. Stays(raw, q)
  BY <1>4, Zenon DEF Stays
<1>6. Recounted(raw) = SubSeq(raw, 1, Max(T))
  BY <1>3, Zenon DEF Recounted, Stays
<1>7. q \in T /\ T \subseteq 0..L
  BY <1>5
<1> HIDE DEF T
<1>8. T \in SUBSET Nat /\ T # {} /\ \A y \in T : y <= L
  <2>1. \A y \in T : y \in 0..L
    BY <1>7
  <2>2. \A y \in 0..L : y \in Nat /\ y <= L
    OBVIOUS
  <2> QED
    BY <1>7, <2>1, <2>2, Zenon
<1>9. Max(T) \in T /\ \A y \in T : y <= Max(T)
  BY <1>8, LargestNat
<1>10. PICK n \in 0..L : n = Max(T) /\ q <= n
  BY <1>7, <1>9
<1>11. trimURLTail(raw) = SubSeq(raw, 1, n)
  BY <1>6, <1>10, TallyIsRecount, Zenon
<1>12. Len(SubSeq(raw, 1, n)) = n
  BY <1>3
<1>13. PICK e \in Nat : e = start + n /\ m < e /\ e <= t
  <2>1. n <= t - start /\ m - start + 1 <= n
    BY <1>3, <1>4, <1>10
  <2>2. Len(s) \in Nat
    OBVIOUS
  <2>3. m \in Nat /\ start \in Nat /\ n \in Nat
    BY <2>2
  <2>4. t \in Nat
    BY <2>2, <2>3
  <2>5. start + n \in Nat /\ m < start + n /\ start + n <= t
    BY <2>1, <2>3, <2>4
  <2> QED
    BY <2>5
<1>14. URLFrom(s, start, t) = Span(start, e)
  BY <1>2, <1>11, <1>12, <1>13, Zenon DEF URLFrom
<1> QED
  BY <1>1, <1>13, <1>14, Zenon

\* Of two marks that each come first in their tokens, the later is behind the
\* end of the other's token, where a terminator stands.
LEMMA FirstsApart ==
    ASSUME NEW s \in Seq(Symbol), NEW At \in SUBSET (1..Len(s)),
           NEW i \in FirstOfToken(s, At), NEW j \in FirstOfToken(s, At), i < j
    PROVE  /\ TokenEnd(s, i) \in 1..Len(s) /\ TokenEnd(s, i) < j
           /\ isURLTerminator(s[TokenEnd(s, i)])
<1>1. i \in At /\ j \in At /\ TokenEnd(s, i) < j
  BY DEF FirstOfToken
<1>2. PICK t \in i..(Len(s) + 1) : t = TokenEnd(s, i) /\ (t \in 1..Len(s) => isURLTerminator(s[t]))
  BY <1>1, TokenEndStops
<1>3. t \in 1..Len(s) /\ t < j
  BY <1>1, <1>2
<1> QED
  BY <1>2, <1>3

\* The image of a finite set is finite.
LEMMA ImageFinite ==
    ASSUME NEW A, IsFiniteSet(A), NEW f, DOMAIN f = A
    PROVE  IsFiniteSet({f[x] : x \in A})
<1>1. PICK g : g = [x \in A |-> f[x]]
  OBVIOUS
<1>2. PICK B : B = {f[x] : x \in A}
  OBVIOUS
<1>3. g \in Surjection(A, B)
  BY <1>1, <1>2 DEF Surjection
<1> QED
  BY <1>2, <1>3, FS_Surjection, Zenon

\* findSchemeURLs: where the scheme before a mark starts.
SchemeStart(s, m) == Max({j \in 1..(m - 1) : ~isSchemeByte(s[j])} \cup {0}) + 1

SchemeMarks(s) == {m \in FirstOfToken(s, {i \in DOMAIN s : s[i] = "://"}) : SchemeStart(s, m) # m}

\* The scheme begins behind the last byte that no scheme has.
LEMMA SchemeStarts ==
    ASSUME NEW s \in Seq(Symbol), NEW m \in 1..Len(s)
    PROVE  /\ SchemeStart(s, m) \in 1..m
           /\ \A j \in 1..(m - 1) : ~isSchemeByte(s[j]) => j < SchemeStart(s, m)
<1> DEFINE T == {j \in 1..(m - 1) : ~isSchemeByte(s[j])} \cup {0}
<1>1. T \in SUBSET Nat /\ T # {} /\ T \subseteq 0..(m - 1)
  OBVIOUS
<1>2. \A j \in 1..(m - 1) : ~isSchemeByte(s[j]) => j \in T
  OBVIOUS
<1>3. SchemeStart(s, m) = Max(T) + 1
  BY Zenon DEF SchemeStart
<1> HIDE DEF T
<1>4. m \in Nat /\ \A y \in T : y <= m
  BY <1>1
<1>5. PICK x \in T : x = Max(T) /\ \A y \in T : y <= x
  BY <1>1, <1>4, LargestNat
<1>6. x \in 0..(m - 1)
  BY <1>1, <1>5
<1>7. \A j \in 1..(m - 1) : ~isSchemeByte(s[j]) => j <= x
  BY <1>2, <1>5
<1> QED
  BY <1>3, <1>5, <1>6, <1>7

\* One URL with a scheme.
LEMMA SchemeURL ==
    ASSUME NEW s \in Seq(Symbol), NEW u \in findSchemeURLs(s)
    PROVE  \E m \in SchemeMarks(s) :
              /\ u = URLFrom(s, SchemeStart(s, m), TokenEnd(s, m))
              /\ m \in 1..Len(s) /\ u.start = SchemeStart(s, m) /\ u.start \in 1..m
              /\ u.end \in Nat /\ m < u.end /\ u.end <= TokenEnd(s, m)
<1>1. PICK m \in SchemeMarks(s) : u = URLFrom(s, SchemeStart(s, m), TokenEnd(s, m))
  BY Zenon DEF findSchemeURLs, SchemeMarks, SchemeStart
<1>2. m \in 1..Len(s) /\ s[m] = "://"
  BY DEF SchemeMarks, FirstOfToken
<1>3. s[m] \notin SentenceEnd /\ s[m] \notin DOMAIN Opener /\ ~isURLTerminator(s[m])
  BY <1>2 DEF SentenceEnd, Opener, isURLTerminator
<1>4. PICK b \in 1..m : b = SchemeStart(s, m)
  BY <1>2, SchemeStarts
<1>5. PICK e \in Nat : URLFrom(s, b, TokenEnd(s, m)) = Span(b, e) /\ m < e /\ e <= TokenEnd(s, m)
  BY <1>2, <1>3, URLFromSpan
<1>6. u = Span(b, e)
  BY <1>1, <1>4, <1>5, Zenon
<1>7. u.start = b /\ u.end = e
  BY <1>6 DEF Span
<1> QED
  BY <1>1, <1>2, <1>4, <1>5, <1>7, Zenon

\* The URLs with a scheme do not overlap: a scheme does not reach over the end
\* of a token.
LEMMA SchemeDisjoint ==
    ASSUME NEW s \in Seq(Symbol)
    PROVE  IsFiniteSet(findSchemeURLs(s)) /\ Disjoint(findSchemeURLs(s))
<1>1. SchemeMarks(s) \subseteq FirstOfToken(s, {i \in DOMAIN s : s[i] = "://"})
  BY Zenon DEF SchemeMarks
<1>2. PICK At \in SUBSET (1..Len(s)) : At = {i \in DOMAIN s : s[i] = "://"}
  <2>1. {i \in DOMAIN s : s[i] = "://"} \in SUBSET (1..Len(s))
    OBVIOUS
  <2> QED
    BY <2>1
<1>3. FirstOfToken(s, At) \subseteq At
  BY DEF FirstOfToken
<1>4. IsFiniteSet(findSchemeURLs(s))
  <2>1. SchemeMarks(s) \in SUBSET (1..Len(s)) /\ IsFiniteSet(1..Len(s))
    <3>1. SchemeMarks(s) \subseteq At
      BY <1>1, <1>2, <1>3, Zenon
    <3>2. 1 \in Int /\ Len(s) \in Int
      OBVIOUS
    <3>3. IsFiniteSet(1..Len(s))
      BY <3>2, FS_Interval
    <3> QED
      BY <3>1, <3>3, Zenon
  <2>2. IsFiniteSet(SchemeMarks(s))
    BY <2>1, FS_Subset
  <2>3. PICK f : f = [m \in SchemeMarks(s) |-> URLFrom(s, SchemeStart(s, m), TokenEnd(s, m))]
    OBVIOUS
  <2>4. findSchemeURLs(s) = {f[m] : m \in SchemeMarks(s)}
    <3>1. findSchemeURLs(s) = {URLFrom(s, SchemeStart(s, m), TokenEnd(s, m)) : m \in SchemeMarks(s)}
      BY Zenon DEF findSchemeURLs, SchemeMarks, SchemeStart
    <3> QED
      BY <2>3, <3>1
  <2> QED
    BY <2>2, <2>3, <2>4, ImageFinite
<1>5. ASSUME NEW a \in findSchemeURLs(s) PROVE IsSpan(a) /\ a.start < a.end
  <2>1. PICK m \in 1..Len(s) : a.start \in 1..m /\ a.end \in Nat /\ m < a.end
    BY SchemeURL
  <2>2. PICK x \in 1..m, e \in Nat : x = a.start /\ e = a.end /\ m < e
    BY <2>1
  <2> QED
    BY <2>2 DEF IsSpan
<1>6. ASSUME NEW a \in findSchemeURLs(s), NEW b \in findSchemeURLs(s),
             NEW m \in SchemeMarks(s), NEW n \in SchemeMarks(s), m \in 1..Len(s), n \in 1..Len(s),
             b.start = SchemeStart(s, n), a.end <= TokenEnd(s, m), a.end \in Nat, m < n
      PROVE  a.end <= b.start
  <2>1. PICK t \in 1..Len(s) : t = TokenEnd(s, m) /\ t < n /\ isURLTerminator(s[t])
    BY <1>1, <1>2, <1>6, FirstsApart
  <2>2. ~isSchemeByte(s[t])
    BY <2>1 DEF isURLTerminator, isSchemeByte, Letter, Digit, magicStrongWords, resetStrongWords,
                verifyWords, magicWeakWords, resetWeakWords
  <2>3. t \in 1..(n - 1)
    BY <1>6, <2>1
  <2>4. t < SchemeStart(s, n) /\ SchemeStart(s, n) \in 1..n
    BY <1>6, <2>2, <2>3, SchemeStarts
  <2> QED
    BY <1>6, <2>1, <2>4
<1>7. ASSUME NEW a \in findSchemeURLs(s), NEW b \in findSchemeURLs(s), a # b
      PROVE  a.end <= b.start \/ b.end <= a.start
  <2>1. PICK m \in SchemeMarks(s) :
              /\ a = URLFrom(s, SchemeStart(s, m), TokenEnd(s, m))
              /\ m \in 1..Len(s) /\ a.start = SchemeStart(s, m)
              /\ a.end \in Nat /\ a.end <= TokenEnd(s, m)
    BY SchemeURL
  <2>2. PICK n \in SchemeMarks(s) :
              /\ b = URLFrom(s, SchemeStart(s, n), TokenEnd(s, n))
              /\ n \in 1..Len(s) /\ b.start = SchemeStart(s, n)
              /\ b.end \in Nat /\ b.end <= TokenEnd(s, n)
    BY SchemeURL
  <2>3. m # n
    BY <1>7, <2>1, <2>2
  <2>4. m < n \/ n < m
    BY <2>1, <2>2, <2>3
  <2> QED
    BY <1>6, <2>1, <2>2, <2>4
<1> QED
  BY <1>4, <1>5, <1>7, Zenon DEF Disjoint

\* findBareHostURLs: the places it looks at, and those it takes.
HostPrefixes(s) == {j \in DOMAIN s : s[j] \in {"www", "WWW"} /\ j < Len(s) /\ s[j + 1] = "."}

HostStarts(s, exclude) ==
    {i \in FirstOfToken(s, HostPrefixes(s)) : startsToken(s, i) /\ ~inSpans(exclude, Span(i, TokenEnd(s, i)))}

\* One URL without a scheme.
LEMMA BareURL ==
    ASSUME NEW s \in Seq(Symbol), NEW exclude, NEW u \in findBareHostURLs(s, exclude)
    PROVE  \E i \in HostStarts(s, exclude) :
              /\ u = URLFrom(s, i, TokenEnd(s, i))
              /\ i \in 1..Len(s) /\ u.start = i
              /\ u.end \in Nat /\ i < u.end /\ u.end <= TokenEnd(s, i)
<1>1. PICK i \in HostStarts(s, exclude) : u = URLFrom(s, i, TokenEnd(s, i))
  BY Zenon DEF findBareHostURLs, HostStarts, HostPrefixes
<1>2. i \in 1..Len(s) /\ s[i] \in {"www", "WWW"}
  BY DEF HostStarts, HostPrefixes, FirstOfToken
<1>3. s[i] \notin SentenceEnd /\ s[i] \notin DOMAIN Opener /\ ~isURLTerminator(s[i])
  BY <1>2 DEF SentenceEnd, Opener, isURLTerminator
<1>4. i \in 1..i
  BY <1>2
<1>5. PICK e \in Nat : URLFrom(s, i, TokenEnd(s, i)) = Span(i, e) /\ i < e /\ e <= TokenEnd(s, i)
  BY <1>2, <1>3, <1>4, URLFromSpan
<1>6. u = Span(i, e)
  BY <1>1, <1>5, Zenon
<1>7. u.start = i /\ u.end = e
  BY <1>6 DEF Span
<1> QED
  BY <1>1, <1>2, <1>5, <1>7, Zenon

\* What findPlainURLs sorts.
PlainURLs(s) == findSchemeURLs(s) \cup findBareHostURLs(s, Ascending(findSchemeURLs(s)))

\* The two scans together report each part of the text once.
LEMMA PlainDisjoint ==
    ASSUME NEW s \in Seq(Symbol)
    PROVE  IsFiniteSet(PlainURLs(s)) /\ Disjoint(PlainURLs(s))
<1>1. PICK A : A = findSchemeURLs(s)
  OBVIOUS
<1>2. IsFiniteSet(A) /\ Disjoint(A)
  BY <1>1, SchemeDisjoint
<1>3. PICK ex \in Seq(A) : /\ ex = Ascending(A) /\ Apart(ex)
                           /\ \A x \in A : \E i \in DOMAIN ex : ex[i] = x
  BY <1>2, AscendingSorts
<1>4. PICK B : B = findBareHostURLs(s, ex)
  OBVIOUS
<1>5. PlainURLs(s) = A \cup B
  BY <1>1, <1>3, <1>4, Zenon DEF PlainURLs
<1>6. HostPrefixes(s) \in SUBSET (1..Len(s))
  BY DEF HostPrefixes
<1>7. HostStarts(s, ex) \subseteq FirstOfToken(s, HostPrefixes(s))
  BY Zenon DEF HostStarts
<1>8. IsFiniteSet(B)
  <2>1. HostStarts(s, ex) \in SUBSET (1..Len(s))
    BY <1>6 DEF HostStarts, FirstOfToken
  <2>2. 1 \in Int /\ Len(s) \in Int
    OBVIOUS
  <2>3. IsFiniteSet(HostStarts(s, ex))
    BY <2>1, <2>2, FS_Interval, FS_Subset
  <2>4. PICK f : f = [i \in HostStarts(s, ex) |-> URLFrom(s, i, TokenEnd(s, i))]
    OBVIOUS
  <2>5. IsFiniteSet({f[i] : i \in HostStarts(s, ex)})
    BY <2>3, <2>4, ImageFinite
  <2>6. B \in SUBSET {f[i] : i \in HostStarts(s, ex)}
    BY <1>4, <2>4, BareURL
  <2> QED
    BY <2>5, <2>6, FS_Subset
<1>9. ASSUME NEW u \in B PROVE IsSpan(u) /\ u.start < u.end
  <2>1. PICK i \in 1..Len(s) : u.start = i /\ u.end \in Nat /\ i < u.end
    BY <1>4, BareURL
  <2>2. PICK e \in Nat : e = u.end /\ i < e
    BY <2>1
  <2> QED
    BY <2>1, <2>2 DEF IsSpan
<1>10. ASSUME NEW u \in B, NEW v \in B, u # v PROVE u.end <= v.start \/ v.end <= u.start
  <2>1. PICK i \in HostStarts(s, ex) : /\ u = URLFrom(s, i, TokenEnd(s, i)) /\ i \in 1..Len(s) /\ u.start = i
                                       /\ u.end \in Nat /\ u.end <= TokenEnd(s, i)
    BY <1>4, BareURL
  <2>2. PICK j \in HostStarts(s, ex) : /\ v = URLFrom(s, j, TokenEnd(s, j)) /\ j \in 1..Len(s) /\ v.start = j
                                       /\ v.end \in Nat /\ v.end <= TokenEnd(s, j)
    BY <1>4, BareURL
  <2>3. i < j \/ j < i
    BY <1>10, <2>1, <2>2
  <2>4. CASE i < j
    <3>1. TokenEnd(s, i) \in 1..Len(s) /\ TokenEnd(s, i) < j
      BY <1>6, <1>7, <2>4, FirstsApart
    <3> QED
      BY <2>1, <2>2, <3>1
  <2>5. CASE j < i
    <3>1. TokenEnd(s, j) \in 1..Len(s) /\ TokenEnd(s, j) < i
      BY <1>6, <1>7, <2>5, FirstsApart
    <3> QED
      BY <2>1, <2>2, <3>1
  <2> QED
    BY <2>3, <2>4, <2>5
<1>11. ASSUME NEW u \in B, NEW a \in A PROVE u.end <= a.start \/ a.end <= u.start
  <2>1. PICK i \in HostStarts(s, ex) : /\ i \in 1..Len(s) /\ u.start = i
                                       /\ u.end \in Nat /\ u.end <= TokenEnd(s, i)
    BY <1>4, BareURL
  <2>2. PICK t \in i..(Len(s) + 1) : t = TokenEnd(s, i)
    BY <2>1, TokenEndStops
  <2>3. PICK at : at = Span(i, t)
    OBVIOUS
  <2>4. at.start = i /\ at.end = t /\ IsSpan(at)
    BY <2>1, <2>2, <2>3 DEF Span, IsSpan
  <2>5. ~inSpans(ex, at)
    BY <2>2, <2>3, Zenon DEF HostStarts
  <2>6. ~Overlaps(a, at)
    <3>1. PICK k \in DOMAIN ex : ex[k] = a
      BY <1>3
    <3>2. inSpans(ex, at) <=> \E q \in DOMAIN ex : Overlaps(ex[q], at)
      BY <1>3, <2>4, FirstSpanDecides
    <3> QED
      BY <2>5, <3>1, <3>2, Zenon
  <2>7. PICK x \in Nat, y \in Nat : x = a.start /\ y = a.end
    BY <1>2 DEF Disjoint, IsSpan
  <2>8. ~(x < t /\ i < y)
    BY <2>4, <2>6, <2>7 DEF Overlaps
  <2>9. PICK e \in Nat : e = u.end /\ e <= t
    BY <2>1, <2>2
  <2>10. e <= x \/ y <= i
    BY <2>1, <2>2, <2>8, <2>9
  <2> QED
    BY <2>1, <2>7, <2>9, <2>10
<1>12. IsFiniteSet(A \cup B)
  BY <1>2, <1>8, FS_Union
<1>13. Disjoint(A \cup B)
  BY <1>2, <1>9, <1>10, <1>11 DEF Disjoint
<1> QED
  BY <1>5, <1>12, <1>13, Zenon

\* findPlainURLs lists them all, in order and apart.
LEMMA PlainSorted ==
    ASSUME NEW s \in Seq(Symbol)
    PROVE  /\ findPlainURLs(s) \in Seq(PlainURLs(s))
           /\ Apart(findPlainURLs(s))
           /\ \A x \in PlainURLs(s) : \E i \in DOMAIN findPlainURLs(s) : findPlainURLs(s)[i] = x
<1>1. findPlainURLs(s) = Ascending(PlainURLs(s))
  BY Zenon DEF findPlainURLs, PlainURLs
<1> QED
  BY <1>1, PlainDisjoint, AscendingSorts

\* The URLs found in the text of any message are not empty, in order and apart,
\* which the binary searches over them take for granted.
THEOREM URLsApart == Spec => []PlainURLsApart
<1>1. ScanTypeOK => PlainURLsApart
  <2> SUFFICES ASSUME ScanTypeOK PROVE PlainURLsApart
    OBVIOUS
  <2>0. PICK T : findPlainURLs(Plain) \in Seq(T)
    BY PlainType, PlainSorted
  <2>1. PICK u \in Seq(T) : u = findPlainURLs(Plain) /\ Apart(u)
    BY <2>0, PlainType, PlainSorted
  <2>2. \A i \in DOMAIN u : u[i].start < u[i].end
    BY <2>1, Zenon DEF Apart
  <2>3. \A i \in 1..(Len(u) - 1) : i \in DOMAIN u /\ i + 1 \in DOMAIN u /\ i < i + 1
    BY <2>1
  <2>4. \A i \in 1..(Len(u) - 1) : u[i].end <= u[i + 1].start
    BY <2>1, <2>3, Zenon DEF Apart
  <2> QED
    BY <2>1, <2>2, <2>4, Zenon DEF PlainURLsApart
<1> QED
  BY <1>1, ScanTypes, PTL

-----------------------------------------------------------------------------
(* Links.                                                                  *)

\* What collectLinks has after n occurrences.
LinksOK(raws, links, n) ==
    /\ \A i \in DOMAIN links : /\ links[i].url # <<>> /\ Naming(raws, n, links[i].url) # {}
                               /\ links[i].kind = KindOf(raws, n, links[i].url)
                               /\ links[i].actionable = actionable(links[i].url)
    /\ \A k \in 1..n : raws[k].url # <<>> => \E i \in DOMAIN links : links[i].url = raws[k].url
    /\ \A i, j \in DOMAIN links : i < j => Min(Naming(raws, n, links[i].url)) < Min(Naming(raws, n, links[j].url))

\* A further occurrence changes what is known of its own URL only: its first
\* place when it has none, and its kind when nothing has told.
LEMMA NamingNext ==
    ASSUME NEW raws, NEW n \in Nat \ {0}, NEW u
    PROVE  /\ Naming(raws, n, u) \in SUBSET (1..n) /\ Telling(raws, n, u) \in SUBSET (1..n)
           /\ raws[n].url # u => /\ Naming(raws, n, u) = Naming(raws, n - 1, u)
                                 /\ KindOf(raws, n, u) = KindOf(raws, n - 1, u)
           /\ raws[n].url = u =>
                 /\ n \in Naming(raws, n, u)
                 /\ Naming(raws, n - 1, u) = {} => Min(Naming(raws, n, u)) = n
                 /\ Naming(raws, n - 1, u) # {} => Min(Naming(raws, n, u)) = Min(Naming(raws, n - 1, u))
                 /\ KindOf(raws, n, u) = IF KindOf(raws, n - 1, u) = "other" THEN classify(u, raws[n].anchor)
                                         ELSE KindOf(raws, n - 1, u)
<1>1. PICK A \in SUBSET (1..n), B \in SUBSET (1..(n - 1)) : A = Naming(raws, n, u) /\ B = Naming(raws, n - 1, u)
  <2>1. Naming(raws, n, u) \in SUBSET (1..n) /\ Naming(raws, n - 1, u) \in SUBSET (1..(n - 1))
    BY DEF Naming
  <2> QED
    BY <2>1, Zenon
<1>2. PICK C \in SUBSET (1..n), D \in SUBSET (1..(n - 1)) : C = Telling(raws, n, u) /\ D = Telling(raws, n - 1, u)
  <2>1. Telling(raws, n, u) \subseteq Naming(raws, n, u) /\ Telling(raws, n - 1, u) \subseteq Naming(raws, n - 1, u)
    BY DEF Telling
  <2> QED
    BY <1>1, <2>1
<1>3. B \in SUBSET Nat /\ D \in SUBSET Nat /\ A \in SUBSET Int /\ C \in SUBSET Int
  OBVIOUS
<1>4. \A i \in 1..(n - 1) : i \in 1..n /\ i < n
  OBVIOUS
<1>5. n \in 1..n /\ n \notin 1..(n - 1) /\ \A i \in 1..n : i = n \/ i \in 1..(n - 1)
  OBVIOUS
<1>6. raws[n].url # u => A = B
  BY <1>1, <1>4, <1>5 DEF Naming
<1>7. raws[n].url = u => A = B \cup {n}
  BY <1>1, <1>4, <1>5 DEF Naming
<1>8. \A i : i \in C <=> i \in A /\ classify(u, raws[i].anchor) # "other"
  BY <1>1, <1>2 DEF Telling
<1>9. \A i : i \in D <=> i \in B /\ classify(u, raws[i].anchor) # "other"
  BY <1>1, <1>2 DEF Telling
<1>10. KindOf(raws, n, u) = IF C = {} THEN "other" ELSE classify(u, raws[Min(C)].anchor)
  BY <1>2, Zenon DEF KindOf
<1>11. KindOf(raws, n - 1, u) = IF D = {} THEN "other" ELSE classify(u, raws[Min(D)].anchor)
  BY <1>2, Zenon DEF KindOf
<1>12. CASE raws[n].url # u
  <2>1. C = D
    BY <1>6, <1>8, <1>9, <1>12
  <2>2. KindOf(raws, n, u) = KindOf(raws, n - 1, u)
    BY <1>10, <1>11, <2>1
  <2>3. Naming(raws, n, u) = Naming(raws, n - 1, u)
    BY <1>1, <1>6, <1>12, Zenon
  <2> QED
    BY <1>1, <1>2, <1>12, <2>2, <2>3, Zenon
<1>13. CASE raws[n].url = u
  <2>1. B = {} => Min(A) = n
    <3> SUFFICES ASSUME B = {} PROVE Min(A) = n
      OBVIOUS
    <3>1. A = {n}
      BY <1>7, <1>13
    <3> QED
      BY <3>1, MinIs
  <2>2. B # {} => Min(A) = Min(B)
    <3> SUFFICES ASSUME B # {} PROVE Min(A) = Min(B)
      OBVIOUS
    <3>1. PICK b \in B : b = Min(B) /\ \A y \in B : b <= y
      BY <1>3, LeastNat
    <3>2. b \in A /\ \A y \in A : b <= y
      BY <1>4, <1>7, <1>13, <3>1
    <3> QED
      BY <1>3, <3>1, <3>2, MinIs
  <2>3. n \in A
    BY <1>7, <1>13
  <2>4. CASE D = {}
    <3>1. \A i \in C : i = n
      BY <1>7, <1>8, <1>9, <1>13, <2>4
    <3>2. CASE classify(u, raws[n].anchor) = "other"
      <4>1. C = {}
        BY <1>8, <3>1, <3>2
      <4> QED
        BY <1>1, <1>2, <1>10, <1>11, <1>13, <2>1, <2>2, <2>3, <2>4, <3>2, <4>1, Zenon
    <3>3. CASE classify(u, raws[n].anchor) # "other"
      <4>1. C = {n}
        BY <1>8, <2>3, <3>1, <3>3
      <4>2. Min(C) = n /\ C # {}
        BY <4>1, MinIs
      <4> QED
        BY <1>1, <1>2, <1>10, <1>11, <1>13, <2>1, <2>2, <2>3, <2>4, <4>2, Zenon
    <3> QED
      BY <3>2, <3>3
  <2>5. CASE D # {}
    <3>1. PICK d \in D : d = Min(D) /\ \A y \in D : d <= y
      BY <1>3, <2>5, LeastNat
    <3>2. d \in C /\ \A y \in C : y \in D \/ y = n
      BY <1>7, <1>8, <1>9, <1>13, <3>1
    <3>3. \A y \in C : d <= y
      BY <1>4, <3>1, <3>2
    <3>4. Min(C) = d
      BY <1>3, <3>2, <3>3, MinIs
    <3>5. classify(u, raws[d].anchor) # "other"
      BY <1>9, <3>1, Zenon
    <3>6. KindOf(raws, n, u) = classify(u, raws[d].anchor) /\ KindOf(raws, n - 1, u) = classify(u, raws[d].anchor)
      BY <1>10, <1>11, <2>5, <3>1, <3>2, <3>4, Zenon
    <3> QED
      BY <1>1, <1>2, <1>13, <2>1, <2>2, <2>3, <3>5, <3>6, Zenon
  <2> QED
    BY <2>4, <2>5
<1> QED
  BY <1>12, <1>13

LinkOf(U, K) == [url : U, kind : K, actionable : BOOLEAN]

\* A list of links stays one.
LEMMA AddLinkType ==
    ASSUME NEW U, NEW K, NEW links \in Seq(LinkOf(U, K)), NEW raw,
           raw.url \in U, classify(raw.url, raw.anchor) \in K
    PROVE  AddLink(links, raw) \in Seq(LinkOf(U, K))
<1>1. PICK u \in U, kind \in K : u = raw.url /\ kind = classify(raw.url, raw.anchor)
  OBVIOUS
<1>2. PICK a \in BOOLEAN : a = actionable(u)
  BY DEF actionable
<1>3. PICK seen : seen = {i \in DOMAIN links : links[i].url = u}
  OBVIOUS
<1>4. CASE u = <<>>
  BY <1>1, <1>4 DEF AddLink
<1>5. CASE u # <<>> /\ seen = {}
  <2>1. AddLink(links, raw) = Append(links, [url |-> u, kind |-> kind, actionable |-> a])
    BY <1>1, <1>2, <1>3, <1>5 DEF AddLink
  <2>2. [url |-> u, kind |-> kind, actionable |-> a] \in LinkOf(U, K)
    BY DEF LinkOf
  <2> QED
    BY <2>1, <2>2
<1>6. CASE u # <<>> /\ seen # {}
  <2>1. AddLink(links, raw) = [i \in DOMAIN links |->
                IF i \in seen /\ links[i].kind = "other" THEN [links[i] EXCEPT !.kind = kind] ELSE links[i]]
    BY <1>1, <1>3, <1>6 DEF AddLink
  <2>2. \A l \in LinkOf(U, K) : [l EXCEPT !.kind = kind] \in LinkOf(U, K)
    BY DEF LinkOf
  <2>3. PICK n \in Nat : n = Len(links) /\ DOMAIN links = 1..n
    OBVIOUS
  <2>4. \A i \in 1..n : links[i] \in LinkOf(U, K)
    BY <2>3
  <2>5. AddLink(links, raw) \in [1..n -> LinkOf(U, K)]
    BY <2>1, <2>2, <2>3, <2>4
  <2> QED
    BY <2>5
<1> QED
  BY <1>4, <1>5, <1>6

\* collectLinks' add, at occurrence n.
LEMMA AddLinkNext ==
    ASSUME NEW U, NEW K, NEW links \in Seq(LinkOf(U, K)), NEW raws, NEW n \in Nat \ {0},
           LinksOK(raws, links, n - 1)
    PROVE  LinksOK(raws, AddLink(links, raws[n]), n)
<1>1. PICK u, kind : u = raws[n].url /\ kind = classify(u, raws[n].anchor)
  OBVIOUS
<1>2. PICK seen : seen = {i \in DOMAIN links : links[i].url = u}
  OBVIOUS
<1>3. PICK new : new = AddLink(links, raws[n])
  OBVIOUS
<1>4. \A k \in 1..n : k = n \/ k \in 1..(n - 1)
  OBVIOUS
<1>5. /\ \A i \in DOMAIN links : /\ links[i].url # <<>> /\ Naming(raws, n - 1, links[i].url) # {}
                                 /\ links[i].kind = KindOf(raws, n - 1, links[i].url)
                                 /\ links[i].actionable = actionable(links[i].url)
      /\ \A k \in 1..(n - 1) : raws[k].url # <<>> => \E i \in DOMAIN links : links[i].url = raws[k].url
      /\ \A i, j \in DOMAIN links : i < j =>
            Min(Naming(raws, n - 1, links[i].url)) < Min(Naming(raws, n - 1, links[j].url))
  BY Zenon DEF LinksOK
<1>6. \A i \in DOMAIN links :
         Naming(raws, n, links[i].url) # {} /\ Min(Naming(raws, n, links[i].url)) = Min(Naming(raws, n - 1, links[i].url))
  <2> SUFFICES ASSUME NEW i \in DOMAIN links
               PROVE  /\ Naming(raws, n, links[i].url) # {}
                      /\ Min(Naming(raws, n, links[i].url)) = Min(Naming(raws, n - 1, links[i].url))
    OBVIOUS
  <2>1. PICK w : w = links[i].url /\ Naming(raws, n - 1, w) # {}
    BY <1>5
  <2>2. CASE raws[n].url = w
    <3>1. n \in Naming(raws, n, w) /\ Min(Naming(raws, n, w)) = Min(Naming(raws, n - 1, w))
      BY <2>1, <2>2, NamingNext
    <3> QED
      BY <2>1, <3>1
  <2>3. CASE raws[n].url # w
    <3>1. Naming(raws, n, w) = Naming(raws, n - 1, w)
      BY <2>3, NamingNext
    <3> QED
      BY <2>1, <3>1
  <2> QED
    BY <2>2, <2>3
<1>7. \A i, j \in DOMAIN links : i < j => Min(Naming(raws, n, links[i].url)) < Min(Naming(raws, n, links[j].url))
  BY <1>5, <1>6, Zenon
<1>8. \A w : raws[n].url # w => KindOf(raws, n, w) = KindOf(raws, n - 1, w)
  BY NamingNext
<1>9. KindOf(raws, n, u) = IF KindOf(raws, n - 1, u) = "other" THEN kind ELSE KindOf(raws, n - 1, u)
  BY <1>1, NamingNext
<1>10. CASE u = <<>>
  <2>1. new = links
    BY <1>1, <1>3, <1>10 DEF AddLink
  <2>2. \A i \in DOMAIN links : links[i].kind = KindOf(raws, n, links[i].url)
    BY <1>1, <1>5, <1>8, <1>10, Zenon
  <2>3. \A k \in 1..n : raws[k].url # <<>> => \E i \in DOMAIN links : links[i].url = raws[k].url
    BY <1>1, <1>4, <1>5, <1>10, Zenon
  <2>4. LinksOK(raws, links, n)
    BY <1>5, <1>6, <1>7, <2>2, <2>3, Zenon DEF LinksOK
  <2> QED
    BY <1>3, <2>1, <2>4, Zenon
<1>11. CASE u # <<>> /\ seen = {}
  <2>1. PICK l : l = [url |-> u, kind |-> kind, actionable |-> actionable(u)]
    OBVIOUS
  <2>2. l.url = u /\ l.kind = kind /\ l.actionable = actionable(u)
    BY <2>1
  <2>3. new = Append(links, l)
    BY <1>1, <1>2, <1>3, <1>11, <2>1 DEF AddLink
  <2>4. PICK q \in Nat : q = Len(links) + 1 /\ DOMAIN links = 1..(q - 1)
    OBVIOUS
  <2>5. DOMAIN new = 1..q /\ new[q] = l /\ \A i \in DOMAIN links : new[i] = links[i]
    BY <2>3, <2>4
  <2>6. q \in DOMAIN new /\ \A i \in DOMAIN new : i = q \/ i \in DOMAIN links
    BY <2>4, <2>5
  <2>7. \A i \in DOMAIN links : links[i].url # u
    BY <1>2, <1>11
  <2>8. Naming(raws, n - 1, u) = {}
    <3>1. \A k \in 1..(n - 1) : raws[k].url # u
      BY <1>5, <1>11, <2>7, Zenon
    <3> QED
      BY <3>1 DEF Naming
  <2>9. n \in Naming(raws, n, u) /\ Min(Naming(raws, n, u)) = n
    BY <1>1, <2>8, NamingNext
  <2>10. KindOf(raws, n, u) = kind
    <3>1. Telling(raws, n - 1, u) = {}
      BY <2>8 DEF Telling
    <3>2. KindOf(raws, n - 1, u) = "other"
      BY <3>1, Zenon DEF KindOf
    <3> QED
      BY <1>9, <3>2, Zenon
  <2>11. ASSUME NEW i \in DOMAIN new
         PROVE  /\ new[i].url # <<>> /\ Naming(raws, n, new[i].url) # {}
                /\ new[i].kind = KindOf(raws, n, new[i].url)
                /\ new[i].actionable = actionable(new[i].url)
    <3>1. CASE i = q
      <4>1. new[i].url = u /\ new[i].kind = kind /\ new[i].actionable = actionable(u)
        BY <2>2, <2>5, <3>1, Zenon
      <4> QED
        BY <1>11, <2>9, <2>10, <4>1, Zenon
    <3>2. CASE i \in DOMAIN links
      <4>1. new[i] = links[i] /\ links[i].url # u
        BY <2>5, <2>7, <3>2, Zenon
      <4>2. links[i].kind = KindOf(raws, n, links[i].url)
        BY <1>1, <1>5, <1>8, <3>2, <4>1, Zenon
      <4> QED
        BY <1>5, <1>6, <3>2, <4>1, <4>2, Zenon
    <3> QED
      BY <2>6, <3>1, <3>2
  <2>12. ASSUME NEW k \in 1..n, raws[k].url # <<>> PROVE \E i \in DOMAIN new : new[i].url = raws[k].url
    <3>1. CASE k = n
      BY <1>1, <2>2, <2>5, <2>6, <3>1, Zenon
    <3>2. CASE k \in 1..(n - 1)
      <4>1. PICK i \in DOMAIN links : links[i].url = raws[k].url
        BY <1>5, <2>12, <3>2, Zenon
      <4>2. i \in DOMAIN new
        BY <2>4, <2>5
      <4> QED
        BY <2>5, <4>1, <4>2, Zenon
    <3> QED
      BY <1>4, <3>1, <3>2
  <2>13. ASSUME NEW i \in DOMAIN new, NEW j \in DOMAIN new, i < j
         PROVE  Min(Naming(raws, n, new[i].url)) < Min(Naming(raws, n, new[j].url))
    <3>1. i \in DOMAIN links /\ new[i] = links[i]
      BY <2>4, <2>5, <2>13
    <3>2. CASE j = q
      <4>1. new[j].url = u
        BY <2>2, <2>5, <3>2, Zenon
      <4>2. PICK B \in SUBSET (1..(n - 1)) : B = Naming(raws, n - 1, links[i].url) /\ B # {}
        <5>1. Naming(raws, n - 1, links[i].url) \in SUBSET (1..(n - 1))
          BY DEF Naming
        <5> QED
          BY <1>5, <3>1, <5>1, Zenon
      <4>3. B \in SUBSET Nat
        OBVIOUS
      <4>4. PICK b \in B : b = Min(B)
        BY <4>2, <4>3, LeastNat
      <4>5. b < n
        BY <4>4
      <4>6. Min(Naming(raws, n, links[i].url)) = b
        BY <1>6, <3>1, <4>2, <4>4, Zenon
      <4> QED
        BY <2>9, <3>1, <4>1, <4>5, <4>6, Zenon
    <3>3. CASE j \in DOMAIN links
      <4>1. new[j] = links[j]
        BY <2>5, <3>3, Zenon
      <4> QED
        BY <1>7, <2>13, <3>1, <3>3, <4>1, Zenon
    <3> QED
      BY <2>6, <3>2, <3>3
  <2>14. LinksOK(raws, new, n)
    BY <2>11, <2>12, <2>13, Zenon DEF LinksOK
  <2> QED
    BY <1>3, <2>14, Zenon
<1>12. CASE u # <<>> /\ seen # {}
  <2>1. new = [i \in DOMAIN links |->
                IF i \in seen /\ links[i].kind = "other" THEN [links[i] EXCEPT !.kind = kind] ELSE links[i]]
    BY <1>1, <1>2, <1>3, <1>12 DEF AddLink
  <2>2. DOMAIN new = DOMAIN links
    BY <2>1
  <2>3. ASSUME NEW i \in DOMAIN links
        PROVE  /\ new[i].url = links[i].url /\ new[i].actionable = links[i].actionable
               /\ new[i].kind = IF links[i].url = u /\ links[i].kind = "other" THEN kind ELSE links[i].kind
    <3>1. PICK l \in LinkOf(U, K) : l = links[i]
      OBVIOUS
    <3>2. PICK m : m = [l EXCEPT !.kind = kind]
      OBVIOUS
    <3>3. m.url = l.url /\ m.actionable = l.actionable /\ m.kind = kind
      BY <3>1, <3>2 DEF LinkOf
    <3>4. new[i] = IF i \in seen /\ l.kind = "other" THEN m ELSE l
      BY <2>1, <3>1, <3>2
    <3>5. i \in seen <=> l.url = u
      BY <1>2, <3>1
    <3> QED
      BY <3>1, <3>3, <3>4, <3>5, Zenon
  <2>4. ASSUME NEW i \in DOMAIN links PROVE new[i].kind = KindOf(raws, n, links[i].url)
    <3>1. links[i].kind = KindOf(raws, n - 1, links[i].url)
      BY <1>5, Zenon
    <3>2. CASE links[i].url = u
      BY <1>9, <2>3, <3>1, <3>2, Zenon
    <3>3. CASE links[i].url # u
      BY <1>1, <1>8, <2>3, <3>1, <3>3, Zenon
    <3> QED
      BY <3>2, <3>3
  <2>5. \A i \in DOMAIN new : /\ new[i].url # <<>> /\ Naming(raws, n, new[i].url) # {}
                              /\ new[i].kind = KindOf(raws, n, new[i].url)
                              /\ new[i].actionable = actionable(new[i].url)
    BY <1>5, <1>6, <2>2, <2>3, <2>4, Zenon
  <2>6. ASSUME NEW k \in 1..n, raws[k].url # <<>> PROVE \E i \in DOMAIN new : new[i].url = raws[k].url
    <3>1. PICK i \in DOMAIN links : links[i].url = raws[k].url
      <4>1. CASE k = n
        BY <1>1, <1>2, <1>12, <4>1
      <4>2. CASE k \in 1..(n - 1)
        BY <1>5, <2>6, <4>2, Zenon
      <4> QED
        BY <1>4, <4>1, <4>2
    <3> QED
      BY <2>2, <2>3, <3>1, Zenon
  <2>7. \A i, j \in DOMAIN new : i < j => Min(Naming(raws, n, new[i].url)) < Min(Naming(raws, n, new[j].url))
    BY <1>7, <2>2, <2>3, Zenon
  <2>8. LinksOK(raws, new, n)
    BY <2>5, <2>6, <2>7, Zenon DEF LinksOK
  <2> QED
    BY <1>3, <2>8, Zenon
<1> QED
  BY <1>10, <1>11, <1>12

\* The occurrences form a list: the hrefs and, behind them, each URL of the text.
LEMMA RawLinksList ==
    ASSUME NEW found \in Seq(Href), NEW s \in Seq(Symbol)
    PROVE  \E T : /\ RawLinks(found, s) \in Seq(T)
                  /\ \A i \in DOMAIN findPlainURLs(s) :
                        \E k \in DOMAIN RawLinks(found, s) :
                           RawLinks(found, s)[k].url = Slice(s, findPlainURLs(s)[i])
<1>1. PICK P : P = PlainURLs(s)
  OBVIOUS
<1>2. PICK urls \in Seq(P) : urls = findPlainURLs(s)
  BY <1>1, PlainSorted, Zenon
<1>3. PICK n \in Nat : n = Len(urls) /\ DOMAIN urls = 1..n
  OBVIOUS
<1>4. PICK t : t = [i \in DOMAIN urls |-> [url |-> Slice(s, urls[i]), anchor |-> around(s, urls[i])]]
  OBVIOUS
<1>5. \A i \in DOMAIN urls : t[i].url = Slice(s, urls[i])
  BY <1>4
<1>6. PICK T : T = Href \cup {t[i] : i \in 1..n}
  OBVIOUS
<1>7. t \in [1..n -> T]
  BY <1>3, <1>4, <1>6
<1>8. t \in Seq(T) /\ Len(t) = n
  BY <1>7
<1>9. found \in Seq(T)
  BY <1>6
<1>10. PICK raws : raws = found \o t
  OBVIOUS
<1>11. RawLinks(found, s) = raws
  BY <1>2, <1>4, <1>10, Zenon DEF RawLinks
<1>12. raws \in Seq(T) /\ \A i \in 1..n : Len(found) + i \in DOMAIN raws /\ raws[Len(found) + i] = t[i]
  BY <1>8, <1>9, <1>10
<1>13. \A i \in DOMAIN urls : \E k \in DOMAIN raws : raws[k].url = Slice(s, urls[i])
  BY <1>3, <1>5, <1>12, Zenon
<1> QED
  BY <1>2, <1>11, <1>12, <1>13, Zenon

\* collectLinks on a list of occurrences.
LEMMA LinksCollected ==
    ASSUME NEW found, NEW plain, NEW T, NEW raws \in Seq(T), raws = RawLinks(found, plain)
    PROVE  \E U, K : /\ collectLinks(found, plain) \in Seq(LinkOf(U, K))
                     /\ LinksOK(raws, collectLinks(found, plain), Len(raws))
<1>1. PICK L \in Nat : L = Len(raws) /\ DOMAIN raws = 1..L
  OBVIOUS
<1>2. PICK U, K : /\ U = {raws[k].url : k \in 1..L}
                  /\ K = {classify(raws[k].url, raws[k].anchor) : k \in 1..L}
  OBVIOUS
<1>3. \A k \in 1..L : raws[k].url \in U /\ classify(raws[k].url, raws[k].anchor) \in K
  BY <1>2
<1>4. PICK S : S = LinkOf(U, K)
  OBVIOUS
<1>5. <<>> \in Seq(S) /\ DOMAIN <<>> = {}
  OBVIOUS
<1> DEFINE Rounds(b) == [k \in 0..L |-> IF k = 0 THEN <<>> ELSE AddLink(b[k - 1], raws[k])]
           step == [k \in 1..L |-> [b \in Seq(S) |-> AddLink(b, raws[k])]]
<1>6. \A k \in 1..L, b \in Seq(S) : AddLink(b, raws[k]) \in Seq(S)
  BY <1>3, <1>4, AddLinkType
<1>7. step \in [1..L -> [Seq(S) -> Seq(S)]]
  BY <1>6
<1>8. \A k \in 1..L, b \in Seq(S) : step[k][b] = AddLink(b, raws[k])
  OBVIOUS
<1> HIDE DEF step
<1>9. PICK g \in [0..L -> Seq(S)] : IsLoop(g, L, <<>>, step)
  BY <1>5, <1>7, LoopRuns
<1>10. g = Rounds(g)
  <2>1. ASSUME NEW k \in 0..L PROVE g[k] = IF k = 0 THEN <<>> ELSE AddLink(g[k - 1], raws[k])
    <3>1. CASE k = 0
      BY <1>9, <3>1 DEF IsLoop
    <3>2. CASE k # 0
      <4>1. k \in 1..L /\ k - 1 \in 0..L
        BY <3>2
      <4>2. g[k] = step[k][g[k - 1]] /\ g[k - 1] \in Seq(S)
        BY <1>9, <4>1 DEF IsLoop
      <4> QED
        BY <1>8, <3>2, <4>1, <4>2
    <3> QED
      BY <3>1, <3>2
  <2> QED
    BY <2>1
<1>11. \E b : b = Rounds(b) /\ collectLinks(found, plain) = b[L]
  BY <1>1, <1>10, Zenon DEF collectLinks
<1>12. PICK b : b = Rounds(b) /\ collectLinks(found, plain) = b[L]
  BY <1>11
<1>13. \A k \in 0..L : b[k] = IF k = 0 THEN <<>> ELSE AddLink(b[k - 1], raws[k])
  BY <1>12, Zenon
<1> HIDE DEF Rounds
<1> DEFINE G == {k \in 0..L : b[k] \in Seq(S) /\ LinksOK(raws, b[k], k)}
<1>14. 0 \in G
  <2>1. 0 \in 0..L /\ 1..0 = {}
    OBVIOUS
  <2>2. b[0] = <<>>
    BY <1>13, <2>1, Zenon
  <2>3. LinksOK(raws, b[0], 0)
    BY <1>5, <2>1, <2>2, Zenon DEF LinksOK
  <2> QED
    BY <1>5, <2>1, <2>2, <2>3, Zenon
<1>15. ASSUME NEW k \in 1..L, k - 1 \in G PROVE k \in G
  <2>1. k \in 0..L /\ k # 0 /\ k \in Nat \ {0}
    OBVIOUS
  <2>2. b[k] = AddLink(b[k - 1], raws[k])
    BY <1>13, <2>1, Zenon
  <2>3. PICK links \in Seq(S) : links = b[k - 1] /\ LinksOK(raws, links, k - 1)
    BY <1>15, Zenon
  <2>4. LinksOK(raws, AddLink(links, raws[k]), k)
    BY <1>4, <2>1, <2>3, AddLinkNext
  <2>5. AddLink(links, raws[k]) \in Seq(S)
    BY <1>6
  <2> QED
    BY <2>1, <2>2, <2>3, <2>4, <2>5, Zenon
<1>16. L \in 0..L
  OBVIOUS
<1> HIDE DEF G
<1>17. L \in G
  BY <1>14, <1>15, <1>16, Induct
<1> QED
  <2>1. b[L] \in Seq(S) /\ LinksOK(raws, b[L], L)
    BY <1>17 DEF G
  <2>2. /\ collectLinks(found, plain) \in Seq(LinkOf(U, K))
        /\ LinksOK(raws, collectLinks(found, plain), Len(raws))
    BY <1>1, <1>4, <1>12, <2>1, Zenon
  <2> QED
    BY <2>2, Zenon

\* The links of the result are those collected.
LEMMA ResultLinks ==
    ASSUME ResultOK, Done
    PROVE  /\ Res.links = collectLinks(hrefs, Plain)
           /\ Res.verifyLinkBest = verifyLinkBest(collectLinks(hrefs, Plain))
<1>1. PICK e : e = Extracted(msg.subject, msg.text, hrefs, visible)
  OBVIOUS
<1>2. result = <<e>>
  BY <1>1, Zenon DEF ResultOK
<1>3. Res = e
  BY <1>2 DEF Res
<1>4. PICK links, v : links = collectLinks(hrefs, Plain) /\ v = verifyLinkBest(links)
  OBVIOUS
<1>5. PICK c : c = otpCandidates(fold(Plain))
  OBVIOUS
<1>6. PICK best, codes : /\ best = IF {i \in DOMAIN c : c[i].score > 0} = {} THEN <<>>
                                   ELSE c[Min({i \in DOMAIN c : c[i].score > 0})].code
                         /\ codes = [i \in DOMAIN c |-> c[i].code]
  OBVIOUS
<1>7. e = [otpBest |-> best, otpCandidates |-> codes, links |-> links, verifyLinkBest |-> v]
  BY <1>1, <1>4, <1>5, <1>6, Zenon DEF Extracted, Plain
<1>8. e.links = links /\ e.verifyLinkBest = v
  BY <1>7
<1> QED
  BY <1>3, <1>4, <1>8, Zenon

\* What LinksOnce says, of one list of occurrences.
LinkedOnce(raws, links, best) ==
    /\ {links[i].url : i \in DOMAIN links} = {raws[i].url : i \in DOMAIN raws} \ {<<>>}
    /\ \A i, j \in DOMAIN links : i < j =>
          Min(Naming(raws, Len(raws), links[i].url)) < Min(Naming(raws, Len(raws), links[j].url))
    /\ \A i \in DOMAIN links : links[i].kind = KindOf(raws, Len(raws), links[i].url)
    /\ best # <<>> => actionable(best) /\ KindOf(raws, Len(raws), best) \in {"verify", "magic"}

\* What the loop invariant says of the finished list.
LEMMA LinkedOnceEach ==
    ASSUME ScanTypeOK, ResultOK, Done
    PROVE  LinkedOnce(RawLinks(hrefs, Plain), Res.links, Res.verifyLinkBest)
<1>1. hrefs \in Seq(Href) /\ Plain \in Seq(Symbol)
  BY PlainType, Zenon DEF ScanTypeOK
<1>2. PICK T : RawLinks(hrefs, Plain) \in Seq(T)
  BY <1>1, RawLinksList, Zenon
<1>3. PICK raws \in Seq(T) : raws = RawLinks(hrefs, Plain)
  BY <1>2
<1>4. PICK L \in Nat : L = Len(raws) /\ DOMAIN raws = 1..L
  OBVIOUS
<1>5. PICK U, K : /\ collectLinks(hrefs, Plain) \in Seq(LinkOf(U, K))
                  /\ LinksOK(raws, collectLinks(hrefs, Plain), Len(raws))
  BY <1>3, LinksCollected, Zenon
<1>6. PICK links \in Seq(LinkOf(U, K)) : links = Res.links /\ LinksOK(raws, links, L)
  BY <1>4, <1>5, ResultLinks, Zenon
<1>7. PICK best : best = verifyLinkBest(links) /\ best = Res.verifyLinkBest
  BY <1>6, ResultLinks, Zenon
<1>8. {links[i].url : i \in DOMAIN links} = {raws[i].url : i \in DOMAIN raws} \ {<<>>}
  <2>1. ASSUME NEW i \in DOMAIN links
        PROVE  links[i].url \in {raws[k].url : k \in DOMAIN raws} \ {<<>>}
    <3>1. links[i].url # <<>> /\ Naming(raws, L, links[i].url) # {}
      BY <1>6, Zenon DEF LinksOK
    <3>2. PICK k \in 1..L : raws[k].url = links[i].url
      BY <3>1 DEF Naming
    <3> QED
      BY <1>4, <3>1, <3>2
  <2>2. ASSUME NEW k \in DOMAIN raws, raws[k].url # <<>>
        PROVE  raws[k].url \in {links[i].url : i \in DOMAIN links}
    <3>1. PICK i \in DOMAIN links : links[i].url = raws[k].url
      BY <1>4, <1>6, <2>2, Zenon DEF LinksOK
    <3> QED
      BY <3>1
  <2>3. \A w \in {links[i].url : i \in DOMAIN links} : w \in {raws[i].url : i \in DOMAIN raws} \ {<<>>}
    BY <2>1
  <2>4. \A w \in {raws[i].url : i \in DOMAIN raws} \ {<<>>} : w \in {links[i].url : i \in DOMAIN links}
    BY <2>2
  <2> QED
    BY <2>3, <2>4, Zenon
<1>9. \A i, j \in DOMAIN links : i < j => Min(Naming(raws, L, links[i].url)) < Min(Naming(raws, L, links[j].url))
  BY <1>6, Zenon DEF LinksOK
<1>10. \A i \in DOMAIN links : links[i].kind = KindOf(raws, L, links[i].url)
                               /\ links[i].actionable = actionable(links[i].url)
  BY <1>6, Zenon DEF LinksOK
<1>11. best # <<>> => actionable(best) /\ KindOf(raws, L, best) \in {"verify", "magic"}
  <2> SUFFICES ASSUME best # <<>> PROVE actionable(best) /\ KindOf(raws, L, best) \in {"verify", "magic"}
    OBVIOUS
  <2> DEFINE Which(kind) == {i \in DOMAIN links : links[i].actionable /\ links[i].kind = kind}
  <2>1. \A kind : Which(kind) \in SUBSET Nat
    OBVIOUS
  <2>2. \A kind : \A i \in Which(kind) : i \in DOMAIN links /\ links[i].actionable /\ links[i].kind = kind
    OBVIOUS
  <2>3. best = IF Which("verify") # {} THEN links[Min(Which("verify"))].url
               ELSE IF Which("magic") # {} THEN links[Min(Which("magic"))].url ELSE <<>>
    BY <1>7, Zenon DEF verifyLinkBest
  <2> HIDE DEF Which
  <2>4. \A kind : Which(kind) # {} => Min(Which(kind)) \in Which(kind)
    BY <2>1, LeastNat
  <2>5. PICK kind \in {"verify", "magic"} : Which(kind) # {} /\ best = links[Min(Which(kind))].url
    BY <2>3
  <2>6. PICK i \in DOMAIN links : links[i].actionable /\ links[i].kind = kind /\ best = links[i].url
    BY <2>2, <2>4, <2>5, Zenon
  <2> QED
    BY <1>10, <2>5, <2>6, Zenon
<1>12. LinkedOnce(raws, links, best)
  BY <1>4, <1>8, <1>9, <1>10, <1>11, Zenon DEF LinkedOnce
<1> QED
  BY <1>3, <1>6, <1>7, <1>12, Zenon

\* Of every message each URL is reported once, where it first appears, as what
\* the first telling occurrence says it is, and the link to open is one of
\* those that may be opened.
THEOREM LinksReported == Spec => []LinksOnce
<1>1. ScanTypeOK /\ ResultOK => LinksOnce
  BY LinkedOnceEach, Zenon DEF LinkedOnce, LinksOnce
<1> QED
  BY <1>1, ScanTypes, ResultKept, PTL

-----------------------------------------------------------------------------
(* Codes outside links.                                                    *)

\* mergeSpans after the first k of the sorted spans: in order and apart, ending
\* with the last of them, and over the same text as all of them.
MergedOK(sorted, out, k) ==
    /\ Apart(out)
    /\ k = 0 <=> out = <<>>
    /\ k # 0 => out[Len(out)].end = sorted[k].end
    /\ \A at : IsSpan(at) /\ at.start < at.end =>
          ((\E i \in DOMAIN out : Overlaps(out[i], at)) <=> (\E j \in 1..k : Overlaps(sorted[j], at)))

\* Two spans that touch cover what one over both covers.
LEMMA TouchingSpans ==
    ASSUME NEW a, NEW b, NEW c, NEW at, IsSpan(a), IsSpan(b), IsSpan(at), at.start < at.end,
           a.end = b.start, b.start < b.end, a.start < a.end, c.start = a.start, c.end = b.end
    PROVE  Overlaps(c, at) <=> Overlaps(a, at) \/ Overlaps(b, at)
<1>1. PICK x \in Nat, y \in Nat, z \in Nat, p \in Nat, q \in Nat :
         /\ x = a.start /\ y = a.end /\ y = b.start /\ z = b.end /\ p = at.start /\ q = at.end
         /\ x < y /\ y < z /\ p < q
  BY DEF IsSpan
<1>2. (x < q /\ p < z) <=> (x < q /\ p < y) \/ (y < q /\ p < z)
  BY <1>1
<1> QED
  BY <1>1, <1>2 DEF Overlaps

SpanRecord == [start : Nat, end : Nat]

\* Merged spans are spans.
LEMMA CoalesceType ==
    ASSUME NEW out \in Seq(SpanRecord), NEW s \in SpanRecord
    PROVE  Coalesce(out, s) \in Seq(SpanRecord)
<1>1. CASE out = <<>> \/ s.start > out[Len(out)].end
  <2>1. Coalesce(out, s) = Append(out, s)
    BY <1>1, Zenon DEF Coalesce, Last
  <2> QED
    BY <2>1
<1>2. CASE ~(out = <<>> \/ s.start > out[Len(out)].end)
  <2>1. PICK n \in Nat : n = Len(out) /\ DOMAIN out = 1..n /\ n \in 1..n
    BY <1>2
  <2>2. PICK a \in SpanRecord : a = out[n]
    BY <2>1
  <2>3. PICK x \in Nat, y \in Nat : x = a.end /\ y = s.end
    BY DEF SpanRecord
  <2>4. PICK e \in Nat : e = Max({x, y})
    <3>0. {x, y} \in SUBSET Int /\ x \in {x, y} /\ y \in {x, y} /\ (x <= y \/ y <= x)
      OBVIOUS
    <3>1. CASE x <= y
      <4>1. \A z \in {x, y} : z <= y
        BY <3>1
      <4> QED
        BY <3>0, <4>1, MaxIs
    <3>2. CASE y <= x
      <4>1. \A z \in {x, y} : z <= x
        BY <3>2
      <4> QED
        BY <3>0, <4>1, MaxIs
    <3> QED
      BY <3>0, <3>1, <3>2
  <2>5. [a EXCEPT !.end = e] \in SpanRecord
    BY DEF SpanRecord
  <2>6. Coalesce(out, s) = [out EXCEPT ![n].end = Max({@, s.end})]
    BY <1>2, <2>1, Zenon DEF Coalesce, Last
  <2>7. [out EXCEPT ![n].end = Max({@, s.end})] = [out EXCEPT ![n] = [out[n] EXCEPT !.end = Max({out[n].end, s.end})]]
    OBVIOUS
  <2>8. Coalesce(out, s) = [out EXCEPT ![n] = [a EXCEPT !.end = e]]
    BY <2>2, <2>3, <2>4, <2>6, <2>7, Zenon
  <2> QED
    BY <2>1, <2>5, <2>8
<1> QED
  BY <1>1, <1>2

\* One more span keeps the invariant of the merging loop.
LEMMA CoalesceNext ==
    ASSUME NEW sorted \in Seq(SpanRecord), Apart(sorted), NEW k \in 1..Len(sorted),
           NEW out \in Seq(SpanRecord), MergedOK(sorted, out, k - 1)
    PROVE  /\ Coalesce(out, sorted[k]) \in Seq(SpanRecord)
           /\ MergedOK(sorted, Coalesce(out, sorted[k]), k)
<1>1. PICK s \in SpanRecord : s = sorted[k] /\ IsSpan(s) /\ s.start < s.end
  BY DEF Apart
<1>2. PICK new : new = Coalesce(out, s)
  OBVIOUS
<1>3. \A j \in 1..k : j = k \/ j \in 1..(k - 1)
  OBVIOUS
<1>4. k \in 1..k /\ k # 0 /\ \A j \in 1..(k - 1) : j \in 1..k
  OBVIOUS
<1>5. PICK n \in Nat : n = Len(out) /\ DOMAIN out = 1..n
  OBVIOUS
<1>6. /\ \A i \in DOMAIN out : IsSpan(out[i]) /\ out[i].start < out[i].end
      /\ \A i, j \in DOMAIN out : i < j => out[i].end <= out[j].start
  BY Zenon DEF MergedOK, Apart
<1>7. /\ k - 1 = 0 <=> out = <<>>
      /\ k - 1 # 0 => out[n].end = sorted[k - 1].end
  BY <1>5, Zenon DEF MergedOK
<1>8. ASSUME NEW at, IsSpan(at), at.start < at.end
      PROVE  (\E i \in DOMAIN out : Overlaps(out[i], at)) <=> (\E j \in 1..(k - 1) : Overlaps(sorted[j], at))
  BY <1>8, Zenon DEF MergedOK
<1>9. \A at : (\E j \in 1..k : Overlaps(sorted[j], at))
                 <=> (\E j \in 1..(k - 1) : Overlaps(sorted[j], at)) \/ Overlaps(s, at)
  BY <1>1, <1>3, <1>4, Zenon
<1>10. out # <<>> => n \in DOMAIN out /\ out[n].end <= s.start
  <2> SUFFICES ASSUME out # <<>> PROVE n \in DOMAIN out /\ out[n].end <= s.start
    OBVIOUS
  <2>1. n \in DOMAIN out
    BY <1>5
  <2>2. k - 1 \in DOMAIN sorted /\ k \in DOMAIN sorted /\ k - 1 < k
    BY <1>7
  <2>3. sorted[k - 1].end <= sorted[k].start
    BY <2>2 DEF Apart
  <2> QED
    BY <1>1, <1>7, <2>1, <2>3
<1>11. CASE out = <<>> \/ s.start > out[n].end
  <2>1. new = Append(out, s)
    BY <1>2, <1>5, <1>11 DEF Coalesce, Last
  <2>2. /\ new \in Seq(SpanRecord) /\ Len(new) = n + 1 /\ DOMAIN new = 1..(n + 1) /\ new[n + 1] = s
        /\ \A i \in DOMAIN out : new[i] = out[i]
    BY <1>5, <2>1
  <2>3. n + 1 \in DOMAIN new /\ \A i \in DOMAIN new : i = n + 1 \/ i \in DOMAIN out
    BY <1>5, <2>2
  <2>4. \A i \in DOMAIN out : i \in DOMAIN new
    BY <1>5, <2>2
  <2>5. ASSUME NEW i \in DOMAIN out PROVE out[i].end <= s.start
    <3>1. out # <<>> /\ n \in DOMAIN out /\ out[n].end <= s.start
      BY <1>5, <1>10
    <3>2. CASE i = n
      BY <3>1, <3>2
    <3>3. CASE i # n
      <4>1. out[i].end <= out[n].start /\ out[n].start < out[n].end
        BY <1>5, <1>6, <3>1, <3>3
      <4>2. PICK x \in Nat, y \in Nat, z \in Nat, w \in Nat :
               x = out[i].end /\ y = out[n].start /\ z = out[n].end /\ w = s.start
        BY <1>1, <1>6, <3>1 DEF IsSpan
      <4>3. x <= y /\ y < z /\ z <= w
        BY <3>1, <4>1, <4>2, Zenon
      <4>4. x <= w
        BY <4>3
      <4> QED
        BY <4>2, <4>4, Zenon
    <3> QED
      BY <3>2, <3>3
  <2>6. \A i \in DOMAIN new : IsSpan(new[i]) /\ new[i].start < new[i].end
    BY <1>1, <1>6, <2>2, <2>3, Zenon
  <2>7. ASSUME NEW i \in DOMAIN new, NEW j \in DOMAIN new, i < j PROVE new[i].end <= new[j].start
    <3>1. i \in DOMAIN out
      BY <1>5, <2>2, <2>7
    <3>2. CASE j = n + 1
      BY <2>2, <2>5, <3>1, <3>2, Zenon
    <3>3. CASE j \in DOMAIN out
      BY <1>6, <2>2, <2>7, <3>1, <3>3, Zenon
    <3> QED
      BY <2>3, <3>2, <3>3
  <2>8. Apart(new)
    BY <2>6, <2>7, Zenon DEF Apart
  <2>9. \A at : (\E i \in DOMAIN new : Overlaps(new[i], at))
                   <=> (\E i \in DOMAIN out : Overlaps(out[i], at)) \/ Overlaps(s, at)
    BY <2>2, <2>3, <2>4, Zenon
  <2>10. new # <<>> /\ new[Len(new)].end = sorted[k].end
    BY <1>1, <2>2
  <2>11. MergedOK(sorted, new, k)
    BY <1>4, <1>8, <1>9, <2>8, <2>9, <2>10, Zenon DEF MergedOK
  <2> QED
    BY <1>1, <1>2, <2>2, <2>11, Zenon
<1>12. CASE ~(out = <<>> \/ s.start > out[n].end)
  <2>1. n \in DOMAIN out /\ out[n].end <= s.start
    BY <1>10, <1>12
  <2>2. PICK a \in SpanRecord : a = out[n] /\ IsSpan(a) /\ a.start < a.end
    BY <1>6, <2>1
  <2>3. PICK p \in Nat, q \in Nat : p = a.end /\ p = s.start /\ q = s.end /\ p < q
    <3>1. PICK x \in Nat, y \in Nat, z \in Nat : x = a.end /\ y = s.end /\ z = s.start
      BY DEF SpanRecord
    <3>2. ~(z > x) /\ x <= z /\ z < y
      BY <1>1, <1>12, <2>1, <2>2, <3>1, Zenon
    <3> QED
      BY <3>1, <3>2
  <2>4. Max({a.end, s.end}) = s.end
    <3>1. {p, q} \in SUBSET Int /\ q \in {p, q} /\ \A z \in {p, q} : z <= q
      BY <2>3
    <3>2. Max({p, q}) = q
      BY <3>1, MaxIs
    <3> QED
      BY <2>3, <3>2, Zenon
  <2>5. PICK c \in SpanRecord : c = [a EXCEPT !.end = s.end] /\ c.start = a.start /\ c.end = s.end
    <3>1. PICK c : c = [a EXCEPT !.end = s.end]
      OBVIOUS
    <3>2. c \in SpanRecord /\ c.start = a.start /\ c.end = s.end
      BY <1>1, <2>2, <3>1 DEF SpanRecord
    <3> QED
      BY <3>1, <3>2
  <2>6. new = [out EXCEPT ![n] = c]
    <3>1. new = [out EXCEPT ![n].end = Max({@, s.end})]
      BY <1>2, <1>5, <1>12, Zenon DEF Coalesce, Last
    <3>2. [out EXCEPT ![n].end = Max({@, s.end})] = [out EXCEPT ![n] = [out[n] EXCEPT !.end = Max({out[n].end, s.end})]]
      OBVIOUS
    <3> QED
      BY <2>2, <2>4, <2>5, <3>1, <3>2, Zenon
  <2>7. /\ new \in Seq(SpanRecord) /\ Len(new) = n /\ DOMAIN new = DOMAIN out /\ new[n] = c
        /\ \A i \in DOMAIN out : i # n => new[i] = out[i]
    BY <1>5, <2>1, <2>6
  <2>8. IsSpan(c) /\ c.start < c.end
    <3>1. PICK x \in Nat, y \in Nat, z \in Nat : x = a.start /\ y = s.start /\ z = s.end /\ x < y /\ y < z
      BY <1>1, <2>2, <2>3 DEF SpanRecord
    <3> QED
      BY <2>5, <3>1 DEF IsSpan
  <2>9. \A i \in DOMAIN new : IsSpan(new[i]) /\ new[i].start < new[i].end
    BY <1>6, <2>7, <2>8, Zenon
  <2>10. ASSUME NEW i \in DOMAIN new, NEW j \in DOMAIN new, i < j PROVE new[i].end <= new[j].start
    <3>1. i # n /\ new[i] = out[i]
      BY <1>5, <2>7, <2>10
    <3>2. new[j].start = out[j].start
      BY <2>2, <2>5, <2>7, Zenon
    <3> QED
      BY <1>6, <2>7, <2>10, <3>1, <3>2, Zenon
  <2>11. Apart(new)
    BY <2>9, <2>10, Zenon DEF Apart
  <2>12. ASSUME NEW at, IsSpan(at), at.start < at.end
         PROVE  (\E i \in DOMAIN new : Overlaps(new[i], at))
                   <=> (\E i \in DOMAIN out : Overlaps(out[i], at)) \/ Overlaps(s, at)
    <3>1. Overlaps(c, at) <=> Overlaps(a, at) \/ Overlaps(s, at)
      <4>1. /\ IsSpan(a) /\ IsSpan(s) /\ a.end = s.start /\ s.start < s.end /\ a.start < a.end
            /\ c.start = a.start /\ c.end = s.end
        BY <1>1, <2>2, <2>3, <2>5, Zenon
      <4> QED
        BY <2>12, <4>1, TouchingSpans, Zenon
    <3> QED
      BY <2>1, <2>2, <2>7, <3>1, Zenon
  <2>13. new # <<>> /\ new[Len(new)].end = sorted[k].end
    BY <1>1, <1>5, <2>1, <2>5, <2>7
  <2>14. MergedOK(sorted, new, k)
    <3>1. \A at : IsSpan(at) /\ at.start < at.end =>
             ((\E i \in DOMAIN new : Overlaps(new[i], at)) <=> (\E j \in 1..k : Overlaps(sorted[j], at)))
      BY <1>8, <1>9, <2>12, Zenon
    <3> QED
      BY <1>4, <2>11, <2>13, <3>1, Zenon DEF MergedOK
  <2> QED
    BY <1>1, <1>2, <2>7, <2>14, Zenon
<1> QED
  BY <1>11, <1>12

\* mergeSpans covers what the spans cover, so that inSpans may be asked of the
\* merged ones.
LEMMA MergedDecides ==
    ASSUME NEW P \in SUBSET SpanRecord, IsFiniteSet(P), Disjoint(P), NEW at, IsSpan(at), at.start < at.end
    PROVE  inSpans(mergeSpans(P), at) <=> \E x \in P : Overlaps(x, at)
<1>1. PICK f \in Seq(P) : /\ f = Ascending(P) /\ Apart(f)
                          /\ \A x \in P : \E i \in DOMAIN f : f[i] = x
  BY AscendingSorts
<1>2. PICK L \in Nat : L = Len(f) /\ DOMAIN f = 1..L
  OBVIOUS
<1>3. f \in Seq(SpanRecord)
  <2>1. \A i \in 1..L : f[i] \in SpanRecord
    BY <1>2
  <2>2. f \in [1..L -> SpanRecord]
    BY <1>2, <2>1
  <2> QED
    BY <2>2
<1>4. PICK S : S = Seq(SpanRecord)
  OBVIOUS
<1>5. <<>> \in S /\ DOMAIN <<>> = {}
  BY <1>4
<1> DEFINE Rounds(b) == [k \in 0..L |-> IF k = 0 THEN <<>> ELSE Coalesce(b[k - 1], f[k])]
           step == [k \in 1..L |-> [b \in S |-> Coalesce(b, f[k])]]
<1>6. \A k \in 1..L, b \in S : Coalesce(b, f[k]) \in S
  <2>1. \A k \in 1..L : f[k] \in SpanRecord
    BY <1>2
  <2> QED
    BY <1>4, <2>1, CoalesceType
<1>7. step \in [1..L -> [S -> S]]
  BY <1>6
<1>8. \A k \in 1..L, b \in S : step[k][b] = Coalesce(b, f[k])
  OBVIOUS
<1> HIDE DEF step
<1>9. PICK g \in [0..L -> S] : IsLoop(g, L, <<>>, step)
  BY <1>5, <1>7, LoopRuns
<1>10. g = Rounds(g)
  <2>1. ASSUME NEW k \in 0..L PROVE g[k] = IF k = 0 THEN <<>> ELSE Coalesce(g[k - 1], f[k])
    <3>1. CASE k = 0
      BY <1>9, <3>1 DEF IsLoop
    <3>2. CASE k # 0
      <4>1. k \in 1..L /\ k - 1 \in 0..L
        BY <3>2
      <4>2. g[k] = step[k][g[k - 1]] /\ g[k - 1] \in S
        BY <1>9, <4>1 DEF IsLoop
      <4> QED
        BY <1>8, <3>2, <4>1, <4>2
    <3> QED
      BY <3>1, <3>2
  <2> QED
    BY <2>1
<1>11. \E b : b = Rounds(b) /\ mergeSpans(P) = b[L]
  <2>1. f = Ascending(P) /\ L = Len(f)
    BY <1>1, <1>2, Zenon
  <2> QED
    BY <1>10, <2>1, Zenon DEF mergeSpans
<1>12. PICK b : b = Rounds(b) /\ mergeSpans(P) = b[L]
  BY <1>11
<1>13. \A k \in 0..L : b[k] = IF k = 0 THEN <<>> ELSE Coalesce(b[k - 1], f[k])
  BY <1>12, Zenon
<1> HIDE DEF Rounds
<1> DEFINE G == {k \in 0..L : b[k] \in Seq(SpanRecord) /\ MergedOK(f, b[k], k)}
<1>14. 0 \in G
  <2>1. 0 \in 0..L /\ 1..0 = {}
    OBVIOUS
  <2>2. b[0] = <<>>
    BY <1>13, <2>1, Zenon
  <2>3. Apart(<<>>)
    BY <1>5, Zenon DEF Apart
  <2>4. MergedOK(f, <<>>, 0)
    BY <1>5, <2>1, <2>3, Zenon DEF MergedOK
  <2> QED
    BY <1>4, <1>5, <2>1, <2>2, <2>4, Zenon
<1>15. ASSUME NEW k \in 1..L, k - 1 \in G PROVE k \in G
  <2>1. k \in 0..L /\ k # 0
    OBVIOUS
  <2>2. b[k] = Coalesce(b[k - 1], f[k])
    BY <1>13, <2>1, Zenon
  <2>3. PICK out \in Seq(SpanRecord) : out = b[k - 1] /\ MergedOK(f, out, k - 1)
    BY <1>15, Zenon
  <2>4. Coalesce(out, f[k]) \in Seq(SpanRecord) /\ MergedOK(f, Coalesce(out, f[k]), k)
    BY <1>1, <1>2, <1>3, <2>3, CoalesceNext
  <2> QED
    BY <2>1, <2>2, <2>3, <2>4, Zenon
<1>16. L \in 0..L
  OBVIOUS
<1> HIDE DEF G
<1>17. L \in G
  BY <1>14, <1>15, <1>16, Induct
<1>18. PICK out \in Seq(SpanRecord) : out = mergeSpans(P) /\ MergedOK(f, out, L)
  BY <1>12, <1>17 DEF G
<1>19. Apart(out) /\ ((\E i \in DOMAIN out : Overlaps(out[i], at)) <=> (\E j \in 1..L : Overlaps(f[j], at)))
  BY <1>18, Zenon DEF MergedOK
<1>20. inSpans(out, at) <=> \E i \in DOMAIN out : Overlaps(out[i], at)
  BY <1>18, <1>19, FirstSpanDecides
<1>21. (\E j \in 1..L : Overlaps(f[j], at)) <=> (\E x \in P : Overlaps(x, at))
  <2>1. \A j \in 1..L : f[j] \in P
    BY <1>2
  <2> QED
    BY <1>1, <1>2, <2>1, Zenon
<1> QED
  BY <1>18, <1>19, <1>20, <1>21, Zenon
(***************************************************************************)
(* Folding a text without accents changes none of what the URL scanners    *)
(* look at.                                                                *)
(***************************************************************************)
SameClass(c, d) ==
    /\ isURLTerminator(c) <=> isURLTerminator(d)
    /\ isSchemeByte(c) <=> isSchemeByte(d)
    /\ isWordRune(c) <=> isWordRune(d)
    /\ c \in {"www", "WWW"} <=> d \in {"www", "WWW"}
    /\ \A x \in {"://", ".", ",", "@", "/", "(", ")", "[", "]"} : c = x <=> d = x

Alike(s, f) ==
    /\ s \in Seq(Symbol) /\ f \in Seq(Symbol) /\ Len(f) = Len(s)
    /\ \A i \in 1..Len(s) : SameClass(s[i], f[i])

\* A symbol without an accent is folded within its class.
LEMMA FoldSame == \A c \in Symbol \ {"accent", "mark"} : SameClass(c, FoldSymbol(c))
<1> SUFFICES ASSUME NEW c \in Symbol \ {"accent", "mark"} PROVE SameClass(c, FoldSymbol(c))
  OBVIOUS
<1>1. CASE c = "WWW"
  <2>1. FoldSymbol(c) = "www"
    BY <1>1 DEF FoldSymbol
  <2> QED
    BY <1>1, <2>1 DEF SameClass, isURLTerminator, isSchemeByte, isWordRune, Letter, Digit
<1>2. CASE c = "Verify"
  <2>1. FoldSymbol(c) = "verify"
    BY <1>2 DEF FoldSymbol
  <2> QED
    BY <1>2, <2>1 DEF SameClass, isURLTerminator, isSchemeByte, isWordRune, Letter, Digit, verifyWords
<1>3. CASE c # "WWW" /\ c # "Verify"
  <2>1. FoldSymbol(c) = c
    BY <1>3 DEF FoldSymbol
  <2> QED
    BY <2>1 DEF SameClass
<1> QED
  BY <1>1, <1>2, <1>3

\* fold keeps every symbol of such a text in its place.
LEMMA FoldAlike ==
    ASSUME NEW s \in Seq(Symbol), ToSet(s) \cap {"accent", "mark"} = {}
    PROVE  Alike(s, fold(s))
<1>1. Len(s) \in Nat /\ \A n \in 1..Len(s) : s[n] \in Symbol \ {"accent", "mark"}
  BY DEF ToSet
<1>2. PICK b : /\ fold(s) = b[Len(s)] /\ b[0] = <<>>
               /\ \A n \in 1..Len(s) : b[n] = FoldRound(b[n - 1], s[n])
  BY FoldRuns
<1> DEFINE Image(t, n) == t \in Seq(Symbol) /\ Len(t) = n /\ \A i \in 1..n : t[i] = FoldSymbol(s[i])
           G == {n \in 0..Len(s) : Image(b[n], n)}
<1>3. 0 \in G
  <2>1. 0 \in 0..Len(s)
    BY <1>1
  <2>2. Image(<<>>, 0)
    BY EmptyText
  <2> QED
    BY <1>2, <2>1, <2>2, Zenon
<1>4. ASSUME NEW k \in 1..Len(s), k - 1 \in G PROVE k \in G
  <2>1. PICK t \in Seq(Symbol) : t = b[k - 1] /\ Len(t) = k - 1 /\ \A i \in 1..(k - 1) : t[i] = FoldSymbol(s[i])
    BY <1>4
  <2>2. b[k] = FoldRound(t, s[k])
    BY <1>2, <2>1, Zenon
  <2>3. PICK c \in Symbol : c = FoldSymbol(s[k])
    BY <1>1, FoldSymbolType
  <2>4. b[k] = Append(t, c)
    BY <1>1, <2>2, <2>3 DEF FoldRound
  <2>5. Image(Append(t, c), k)
    BY <1>1, <2>1, <2>3
  <2>6. k \in 0..Len(s)
    BY <1>1
  <2> QED
    BY <2>4, <2>5, <2>6, Zenon
<1>5. Len(s) \in 0..Len(s)
  BY <1>1
<1> HIDE DEF G
<1>6. Len(s) \in G
  BY <1>1, <1>3, <1>4, <1>5, Induct
<1>7. PICK f \in Seq(Symbol) : f = fold(s) /\ Len(f) = Len(s) /\ \A i \in 1..Len(s) : f[i] = FoldSymbol(s[i])
  BY <1>2, <1>6 DEF G
<1>8. \A i \in 1..Len(s) : SameClass(s[i], f[i])
  BY <1>1, <1>7, FoldSame
<1> QED
  BY <1>7, <1>8 DEF Alike

\* What alike texts share, at a glance.
LEMMA AlikeParts ==
    ASSUME NEW s, NEW f, Alike(s, f)
    PROVE  /\ s \in Seq(Symbol) /\ f \in Seq(Symbol) /\ Len(s) \in Nat /\ Len(f) = Len(s)
           /\ DOMAIN s = 1..Len(s) /\ DOMAIN f = 1..Len(s)
           /\ \A i \in 1..Len(s) : SameClass(s[i], f[i])
  BY DEF Alike

\* Parts of alike texts are alike.
LEMMA AlikePart ==
    ASSUME NEW s, NEW f, Alike(s, f), NEW a \in Nat \ {0}, NEW b \in Int, b <= Len(s)
    PROVE  Alike(SubSeq(s, a, b), SubSeq(f, a, b))
<1>1. /\ s \in Seq(Symbol) /\ f \in Seq(Symbol) /\ Len(s) \in Nat /\ Len(f) = Len(s)
      /\ \A i \in 1..Len(s) : SameClass(s[i], f[i])
  BY AlikeParts
<1>2. CASE a <= b
  <2>1. PICK n \in Nat : n = b - a + 1
    BY <1>2
  <2>2. PICK p \in Seq(Symbol) : p = SubSeq(s, a, b) /\ Len(p) = n /\ \A i \in 1..n : p[i] = s[a + i - 1]
    <3>1. SubSeq(s, a, b) \in Seq(Symbol) /\ Len(SubSeq(s, a, b)) = n
      BY <1>1, <1>2, <2>1
    <3>2. \A i \in 1..n : SubSeq(s, a, b)[i] = s[a + i - 1]
      BY <1>1, <1>2, <2>1
    <3> QED
      BY <3>1, <3>2, Zenon
  <2>3. PICK q \in Seq(Symbol) : q = SubSeq(f, a, b) /\ Len(q) = n /\ \A i \in 1..n : q[i] = f[a + i - 1]
    <3>1. SubSeq(f, a, b) \in Seq(Symbol) /\ Len(SubSeq(f, a, b)) = n
      BY <1>1, <1>2, <2>1
    <3>2. \A i \in 1..n : SubSeq(f, a, b)[i] = f[a + i - 1]
      BY <1>1, <1>2, <2>1
    <3> QED
      BY <3>1, <3>2, Zenon
  <2>4. \A i \in 1..n : a + i - 1 \in 1..Len(s)
    BY <1>1, <1>2, <2>1
  <2>5. \A i \in 1..n : SameClass(p[i], q[i])
    BY <1>1, <2>2, <2>3, <2>4
  <2> QED
    BY <2>2, <2>3, <2>5 DEF Alike
<1>3. CASE ~(a <= b)
  <2>1. SubSeq(s, a, b) = <<>> /\ SubSeq(f, a, b) = <<>>
    BY <1>1, <1>3
  <2>2. Alike(<<>>, <<>>)
    BY EmptyText DEF Alike
  <2> QED
    BY <2>1, <2>2, Zenon
<1> QED
  BY <1>2, <1>3

\* Tokens end at the same places,
LEMMA AlikeTokenEnd ==
    ASSUME NEW s, NEW f, Alike(s, f), NEW i \in 1..Len(s)
    PROVE  TokenEnd(s, i) = TokenEnd(f, i)
<1>1. /\ Len(s) \in Nat /\ Len(f) = Len(s) /\ \A j \in 1..Len(s) : SameClass(s[j], f[j])
  BY AlikeParts
<1>2. \A j \in i..Len(s) : isURLTerminator(s[j]) <=> isURLTerminator(f[j])
  <2>1. \A j \in i..Len(s) : j \in 1..Len(s)
    BY <1>1
  <2> QED
    BY <1>1, <2>1 DEF SameClass
<1>3. {j \in i..Len(s) : isURLTerminator(s[j])} = {j \in i..Len(f) : isURLTerminator(f[j])}
  BY <1>1, <1>2
<1> QED
  BY <1>1, <1>3, Zenon DEF TokenEnd

\* and the same marks come first in them.
LEMMA AlikeFirst ==
    ASSUME NEW s, NEW f, Alike(s, f), NEW At \in SUBSET (1..Len(s))
    PROVE  FirstOfToken(s, At) = FirstOfToken(f, At)
<1>1. \A j \in At : TokenEnd(s, j) = TokenEnd(f, j)
  BY AlikeTokenEnd
<1> QED
  BY <1>1 DEF FirstOfToken

\* trimURLTail leaves as much of either,
LEMMA AlikeTrim ==
    ASSUME NEW p, NEW q, Alike(p, q)
    PROVE  Len(trimURLTail(p)) = Len(trimURLTail(q))
<1>1. /\ p \in Seq(Symbol) /\ q \in Seq(Symbol) /\ Len(p) \in Nat /\ Len(q) = Len(p)
      /\ \A i \in 1..Len(p) : SameClass(p[i], q[i])
  BY AlikeParts
<1>2. ASSUME NEW n \in 1..Len(p), NEW x \in {"(", ")", "[", "]"} PROVE Occurs(p, n, x) = Occurs(q, n, x)
  <2>1. \A i \in 1..n : i \in 1..Len(p)
    BY <1>1
  <2>2. \A i \in 1..n : p[i] = x <=> q[i] = x
    BY <1>1, <2>1 DEF SameClass
  <2>3. {i \in 1..n : p[i] = x} = {i \in 1..n : q[i] = x}
    BY <2>2
  <2> QED
    BY <2>3, Zenon DEF Occurs
<1>3. ASSUME NEW n \in 1..Len(p) PROVE Stays(p, n) <=> Stays(q, n)
  <2>1. \A x \in {".", ",", "(", ")", "[", "]"} : p[n] = x <=> q[n] = x
    BY <1>1 DEF SameClass
  <2>2. p[n] \in SentenceEnd <=> q[n] \in SentenceEnd
    BY <2>1 DEF SentenceEnd
  <2>3. CASE p[n] \in DOMAIN Opener
    <3>1. p[n] \in {")", "]"} /\ Opener[p[n]] \in {"(", "["}
      BY <2>3 DEF Opener
    <3>2. q[n] = p[n]
      BY <2>1, <3>1
    <3>3. p[n] \in {"(", ")", "[", "]"} /\ Opener[p[n]] \in {"(", ")", "[", "]"}
      BY <3>1
    <3>4. Occurs(p, n, p[n]) = Occurs(q, n, p[n]) /\ Occurs(p, n, Opener[p[n]]) = Occurs(q, n, Opener[p[n]])
      BY <1>2, <3>3, Zenon
    <3> QED
      BY <2>2, <3>2, <3>4, Zenon DEF Stays
  <2>4. CASE p[n] \notin DOMAIN Opener
    <3>1. q[n] \notin DOMAIN Opener
      BY <2>1, <2>4 DEF Opener
    <3> QED
      BY <2>2, <2>4, <3>1, Zenon DEF Stays
  <2> QED
    BY <2>3, <2>4
<1> DEFINE T(r) == {n \in 1..Len(r) : Stays(r, n)} \cup {0}
<1>4. T(p) = T(q)
  BY <1>1, <1>3
<1>5. ASSUME NEW r \in Seq(Symbol) PROVE Len(trimURLTail(r)) = Max(T(r))
  <2>1. Len(r) \in Nat
    OBVIOUS
  <2>2. T(r) \in SUBSET Nat /\ T(r) # {} /\ T(r) \subseteq 0..Len(r)
    BY <2>1
  <2>3. \A y \in T(r) : y <= Len(r)
    BY <2>1, <2>2
  <2>4. Recounted(r) = SubSeq(r, 1, Max(T(r)))
    BY Zenon DEF Recounted, Stays
  <2> HIDE DEF T
  <2>5. PICK m \in 0..Len(r) : m = Max(T(r))
    BY <2>1, <2>2, <2>3, LargestNat
  <2>6. Len(SubSeq(r, 1, m)) = m
    BY <2>1
  <2> QED
    BY <2>4, <2>5, <2>6, TallyIsRecount, Zenon
<1> HIDE DEF T
<1> QED
  BY <1>1, <1>4, <1>5, Zenon

\* so that a URL has the same span in both.
LEMMA AlikeURLFrom ==
    ASSUME NEW s, NEW f, Alike(s, f), NEW m \in 1..Len(s), NEW b \in 1..m
    PROVE  URLFrom(s, b, TokenEnd(s, m)) = URLFrom(f, b, TokenEnd(f, m))
<1>1. s \in Seq(Symbol) /\ Len(s) \in Nat
  BY AlikeParts
<1>2. PICK t \in m..(Len(s) + 1) : t = TokenEnd(s, m)
  BY <1>1, TokenEndStops
<1>3. t = TokenEnd(f, m)
  BY <1>2, AlikeTokenEnd
<1>4. b \in Nat \ {0} /\ t - 1 \in Int /\ t - 1 <= Len(s)
  BY <1>1, <1>2
<1>5. Len(trimURLTail(SubSeq(s, b, t - 1))) = Len(trimURLTail(SubSeq(f, b, t - 1)))
  BY <1>4, AlikePart, AlikeTrim
<1> QED
  BY <1>2, <1>3, <1>5, Zenon DEF URLFrom

\* The URLs with a scheme agree,
LEMMA AlikeScheme ==
    ASSUME NEW s, NEW f, Alike(s, f)
    PROVE  findSchemeURLs(s) = findSchemeURLs(f)
<1>1. /\ s \in Seq(Symbol) /\ Len(s) \in Nat /\ DOMAIN s = 1..Len(s) /\ DOMAIN f = 1..Len(s)
      /\ \A i \in 1..Len(s) : SameClass(s[i], f[i])
  BY AlikeParts
<1>2. ASSUME NEW m \in 1..Len(s) PROVE SchemeStart(s, m) = SchemeStart(f, m)
  <2>1. \A j \in 1..(m - 1) : j \in 1..Len(s)
    BY <1>1
  <2>2. \A j \in 1..(m - 1) : isSchemeByte(s[j]) <=> isSchemeByte(f[j])
    BY <1>1, <2>1 DEF SameClass
  <2>3. {j \in 1..(m - 1) : ~isSchemeByte(s[j])} = {j \in 1..(m - 1) : ~isSchemeByte(f[j])}
    BY <2>2
  <2> QED
    BY <2>3, Zenon DEF SchemeStart
<1>3. PICK M \in SUBSET (1..Len(s)) : M = {i \in DOMAIN s : s[i] = "://"}
  BY <1>1
<1>4. M = {i \in DOMAIN f : f[i] = "://"}
  <2>1. \A i \in 1..Len(s) : s[i] = "://" <=> f[i] = "://"
    BY <1>1 DEF SameClass
  <2> QED
    BY <1>1, <1>3, <2>1
<1>5. FirstOfToken(s, M) = FirstOfToken(f, M)
  BY AlikeFirst
<1>6. FirstOfToken(s, M) \subseteq 1..Len(s)
  BY DEF FirstOfToken
<1>7. SchemeMarks(s) = SchemeMarks(f) /\ SchemeMarks(s) \subseteq 1..Len(s)
  <2>1. SchemeMarks(s) = {m \in FirstOfToken(s, M) : SchemeStart(s, m) # m}
    BY <1>3, Zenon DEF SchemeMarks
  <2>2. SchemeMarks(f) = {m \in FirstOfToken(s, M) : SchemeStart(f, m) # m}
    BY <1>4, <1>5, Zenon DEF SchemeMarks
  <2> QED
    BY <1>2, <1>6, <2>1, <2>2
<1>8. \A m \in SchemeMarks(s) : URLFrom(s, SchemeStart(s, m), TokenEnd(s, m))
                                 = URLFrom(f, SchemeStart(f, m), TokenEnd(f, m))
  <2> SUFFICES ASSUME NEW m \in SchemeMarks(s)
               PROVE  URLFrom(s, SchemeStart(s, m), TokenEnd(s, m)) = URLFrom(f, SchemeStart(f, m), TokenEnd(f, m))
    OBVIOUS
  <2>1. m \in 1..Len(s)
    BY <1>7
  <2>2. PICK b \in 1..m : b = SchemeStart(s, m)
    BY <1>1, <2>1, SchemeStarts
  <2>3. b = SchemeStart(f, m)
    BY <1>2, <2>1, <2>2
  <2> QED
    BY <2>1, <2>2, <2>3, AlikeURLFrom
<1>9. \A t : findSchemeURLs(t) = {URLFrom(t, SchemeStart(t, m), TokenEnd(t, m)) : m \in SchemeMarks(t)}
  BY Zenon DEF findSchemeURLs, SchemeMarks, SchemeStart
<1> QED
  BY <1>7, <1>8, <1>9

\* what a bare host is agrees,
LEMMA AlikeBareHost ==
    ASSUME NEW p, NEW q, Alike(p, q)
    PROVE  isBareHost(p) <=> isBareHost(q)
<1>1. /\ p \in Seq(Symbol) /\ Len(p) \in Nat /\ Len(q) = Len(p)
      /\ \A i \in 1..Len(p) : SameClass(p[i], q[i])
  BY AlikeParts
<1> DEFINE T(r) == {i \in 3..Len(r) : r[i] \in {"/", "://"}} \cup {Len(r) + 1}
<1>2. T(p) = T(q)
  <2>1. \A i \in 3..Len(p) : i \in 1..Len(p)
    BY <1>1
  <2>2. \A i \in 3..Len(p) : p[i] \in {"/", "://"} <=> q[i] \in {"/", "://"}
    BY <1>1, <2>1 DEF SameClass
  <2> QED
    BY <1>1, <2>2
<1>3. \A r : LET rest == SubSeq(r, 3, Min(T(r)) - 1)
             IN  isBareHost(r) <=> rest # <<>> /\ rest[1] # "." /\ \E i \in 1..Len(rest) : rest[i] = "."
  BY Zenon DEF isBareHost, Contains
<1>4. T(p) \in SUBSET Nat /\ T(p) # {} /\ T(p) \subseteq 0..(Len(p) + 1)
  BY <1>1
<1> HIDE DEF T
<1>5. PICK h \in 0..(Len(p) + 1) : h = Min(T(p))
  BY <1>4, LeastNat
<1>6. h - 1 \in Int /\ h - 1 <= Len(p)
  BY <1>1, <1>5
<1>7. PICK a, b : a = SubSeq(p, 3, h - 1) /\ b = SubSeq(q, 3, h - 1) /\ Alike(a, b)
  <2>1. 3 \in Nat \ {0}
    OBVIOUS
  <2>2. Alike(SubSeq(p, 3, h - 1), SubSeq(q, 3, h - 1))
    BY <1>6, <2>1, AlikePart
  <2> QED
    BY <2>2
<1>8. /\ isBareHost(p) <=> a # <<>> /\ a[1] # "." /\ \E i \in 1..Len(a) : a[i] = "."
      /\ isBareHost(q) <=> b # <<>> /\ b[1] # "." /\ \E i \in 1..Len(b) : b[i] = "."
  BY <1>2, <1>3, <1>5, <1>7, Zenon
<1>9. /\ a \in Seq(Symbol) /\ b \in Seq(Symbol) /\ Len(a) \in Nat /\ Len(b) = Len(a)
      /\ \A i \in 1..Len(a) : SameClass(a[i], b[i])
  BY <1>7, AlikeParts
<1>10. \A i \in 1..Len(a) : a[i] = "." <=> b[i] = "."
  BY <1>9 DEF SameClass
<1>11. a # <<>> <=> b # <<>>
  BY <1>9
<1>12. a # <<>> => 1 \in 1..Len(a)
  BY <1>9
<1> QED
  BY <1>8, <1>9, <1>10, <1>11, <1>12, Zenon

\* the URLs without a scheme agree,
LEMMA AlikeBare ==
    ASSUME NEW s, NEW f, Alike(s, f), NEW exclude
    PROVE  findBareHostURLs(s, exclude) = findBareHostURLs(f, exclude)
<1>1. /\ s \in Seq(Symbol) /\ f \in Seq(Symbol) /\ Len(s) \in Nat /\ Len(f) = Len(s)
      /\ DOMAIN s = 1..Len(s) /\ DOMAIN f = 1..Len(s)
      /\ \A i \in 1..Len(s) : SameClass(s[i], f[i])
  BY AlikeParts
<1>2. HostPrefixes(s) = HostPrefixes(f) /\ HostPrefixes(s) \in SUBSET (1..Len(s))
  <2>1. \A i \in 1..Len(s) : s[i] \in {"www", "WWW"} <=> f[i] \in {"www", "WWW"}
    BY <1>1 DEF SameClass
  <2>2. \A i \in 1..Len(s) : s[i] = "." <=> f[i] = "."
    BY <1>1 DEF SameClass
  <2>3. \A i \in 1..Len(s) : i < Len(s) => (s[i + 1] = "." <=> f[i + 1] = ".")
    <3>1. \A i \in 1..Len(s) : i < Len(s) => i + 1 \in 1..Len(s)
      BY <1>1
    <3> QED
      BY <2>2, <3>1
  <2> QED
    BY <1>1, <2>1, <2>3 DEF HostPrefixes
<1>3. FirstOfToken(s, HostPrefixes(s)) = FirstOfToken(f, HostPrefixes(f))
  BY <1>2, AlikeFirst
<1>4. FirstOfToken(s, HostPrefixes(s)) \subseteq 1..Len(s)
  BY <1>2 DEF FirstOfToken
<1>5. ASSUME NEW i \in 1..Len(s) PROVE startsToken(s, i) <=> startsToken(f, i)
  <2>1. CASE i = 1
    BY <2>1 DEF startsToken
  <2>2. CASE i # 1
    <3>1. PICK j \in 1..Len(s) : j = i - 1
      BY <1>1, <2>2
    <3>2. /\ isWordRune(s[j]) <=> isWordRune(f[j])
          /\ s[j] \in {".", "@"} <=> f[j] \in {".", "@"}
      BY <1>1 DEF SameClass
    <3> QED
      BY <2>2, <3>1, <3>2, Zenon DEF startsToken
  <2> QED
    BY <2>1, <2>2
<1>6. HostStarts(s, exclude) = HostStarts(f, exclude) /\ HostStarts(s, exclude) \subseteq 1..Len(s)
  <2>1. \A i \in 1..Len(s) : TokenEnd(s, i) = TokenEnd(f, i)
    BY AlikeTokenEnd
  <2>2. ASSUME NEW i \in 1..Len(s)
        PROVE  (startsToken(s, i) /\ ~inSpans(exclude, Span(i, TokenEnd(s, i))))
                 <=> (startsToken(f, i) /\ ~inSpans(exclude, Span(i, TokenEnd(f, i))))
    BY <1>5, <2>1, Zenon
  <2> QED
    BY <1>3, <1>4, <2>2 DEF HostStarts
<1> DEFINE URLs(t) == {URLFrom(t, i, TokenEnd(t, i)) : i \in HostStarts(t, exclude)}
<1>7. \A t : findBareHostURLs(t, exclude) = {at \in URLs(t) : isBareHost(Slice(t, at))}
  BY Zenon DEF findBareHostURLs, HostStarts, HostPrefixes
<1>8. \A i \in HostStarts(s, exclude) : URLFrom(s, i, TokenEnd(s, i)) = URLFrom(f, i, TokenEnd(f, i))
  <2> SUFFICES ASSUME NEW i \in HostStarts(s, exclude)
               PROVE  URLFrom(s, i, TokenEnd(s, i)) = URLFrom(f, i, TokenEnd(f, i))
    OBVIOUS
  <2>1. i \in 1..Len(s) /\ i \in 1..i
    BY <1>6
  <2> QED
    BY <2>1, AlikeURLFrom
<1>9. URLs(s) = URLs(f)
  BY <1>6, <1>8
<1>10. ASSUME NEW u \in URLs(s) PROVE isBareHost(Slice(s, u)) <=> isBareHost(Slice(f, u))
  <2>1. PICK i \in HostStarts(s, exclude) : u = URLFrom(s, i, TokenEnd(s, i))
    OBVIOUS
  <2>2. i \in 1..Len(s) /\ s[i] \in {"www", "WWW"} /\ i \in 1..i
    BY <1>6 DEF HostStarts, HostPrefixes, FirstOfToken
  <2>3. s[i] \notin SentenceEnd /\ s[i] \notin DOMAIN Opener /\ ~isURLTerminator(s[i])
    BY <2>2 DEF SentenceEnd, Opener, isURLTerminator
  <2>4. PICK e \in Nat : u = Span(i, e) /\ e <= TokenEnd(s, i)
    BY <1>1, <2>1, <2>2, <2>3, URLFromSpan
  <2>5. TokenEnd(s, i) \in i..(Len(s) + 1)
    BY <1>1, <2>2, TokenEndStops
  <2>6. u.start = i /\ u.end = e
    BY <2>4 DEF Span
  <2>7. i \in Nat \ {0} /\ e - 1 \in Int /\ e - 1 <= Len(s)
    BY <1>1, <2>2, <2>4, <2>5
  <2>8. isBareHost(SubSeq(s, i, e - 1)) <=> isBareHost(SubSeq(f, i, e - 1))
    BY <2>7, AlikePart, AlikeBareHost
  <2> QED
    BY <2>6, <2>8, Zenon DEF Slice
<1> HIDE DEF URLs
<1> QED
  BY <1>7, <1>9, <1>10

\* and so do all of them together.
LEMMA AlikePlain ==
    ASSUME NEW s, NEW f, Alike(s, f)
    PROVE  PlainURLs(s) = PlainURLs(f) /\ findPlainURLs(s) = findPlainURLs(f)
<1>1. findSchemeURLs(s) = findSchemeURLs(f)
  BY AlikeScheme
<1>2. findBareHostURLs(s, Ascending(findSchemeURLs(s))) = findBareHostURLs(f, Ascending(findSchemeURLs(f)))
  BY <1>1, AlikeBare
<1>3. \A t : findPlainURLs(t) = Ascending(PlainURLs(t))
  BY Zenon DEF findPlainURLs, PlainURLs
<1>4. PlainURLs(s) = PlainURLs(f)
  BY <1>1, <1>2, Zenon DEF PlainURLs
<1> QED
  BY <1>3, <1>4, Zenon

\* Every URL is a span of the text, and not an empty one.
LEMMA PlainPlace ==
    ASSUME NEW s \in Seq(Symbol), NEW u \in PlainURLs(s)
    PROVE  /\ u \in SpanRecord /\ u.start \in 1..Len(s) /\ u.start < u.end /\ u.end <= Len(s) + 1
           /\ Slice(s, u) # <<>>
<1>1. PICK a \in 1..Len(s), e \in Nat : u.start = a /\ u.end = e /\ a < e /\ e <= Len(s) + 1 /\ u = Span(a, e)
  <2>1. CASE u \in findSchemeURLs(s)
    <3>1. PICK m \in SchemeMarks(s) :
              /\ u = URLFrom(s, SchemeStart(s, m), TokenEnd(s, m))
              /\ m \in 1..Len(s) /\ u.start = SchemeStart(s, m) /\ u.start \in 1..m
              /\ u.end \in Nat /\ m < u.end /\ u.end <= TokenEnd(s, m)
      BY <2>1, SchemeURL
    <3>2. TokenEnd(s, m) \in m..(Len(s) + 1)
      BY <3>1, TokenEndStops
    <3>3. u = Span(u.start, u.end)
      BY <3>1 DEF URLFrom, Span
    <3>4. u.start \in 1..Len(s) /\ u.start < u.end /\ u.end <= Len(s) + 1
      BY <3>1, <3>2
    <3> QED
      BY <3>1, <3>3, <3>4
  <2>2. CASE u \in findBareHostURLs(s, Ascending(findSchemeURLs(s)))
    <3>1. PICK i \in HostStarts(s, Ascending(findSchemeURLs(s))) :
              /\ u = URLFrom(s, i, TokenEnd(s, i))
              /\ i \in 1..Len(s) /\ u.start = i
              /\ u.end \in Nat /\ i < u.end /\ u.end <= TokenEnd(s, i)
      BY <2>2, BareURL
    <3>2. TokenEnd(s, i) \in i..(Len(s) + 1)
      BY <3>1, TokenEndStops
    <3>3. u = Span(u.start, u.end)
      BY <3>1 DEF URLFrom, Span
    <3>4. u.end <= Len(s) + 1
      BY <3>1, <3>2
    <3> QED
      BY <3>1, <3>3, <3>4
  <2> QED
    BY <2>1, <2>2 DEF PlainURLs
<1>2. u \in SpanRecord
  BY <1>1 DEF Span, SpanRecord
<1>3. SubSeq(s, a, e - 1) # <<>>
  <2>1. Len(SubSeq(s, a, e - 1)) = e - a
    BY <1>1
  <2> QED
    BY <1>1, <2>1
<1>4. Slice(s, u) # <<>>
  BY <1>1, <1>3, Zenon DEF Slice
<1> QED
  BY <1>1, <1>2, <1>4

\* The runs that may be a code are those outside the URLs of the text as written.
LEMMA EligibleOutside ==
    ASSUME NEW s, NEW f, Alike(s, f)
    PROVE  Eligible(f) =
              {at \in digitRuns(f) :
                 /\ at.end - at.start \in MinOTPLen..MaxOTPLen
                 /\ \A i \in DOMAIN findPlainURLs(s) :
                       at.end <= findPlainURLs(s)[i].start \/ findPlainURLs(s)[i].end <= at.start}
<1>1. s \in Seq(Symbol) /\ f \in Seq(Symbol)
  BY AlikeParts
<1>2. PICK P : P = PlainURLs(s) /\ P = PlainURLs(f) /\ findPlainURLs(s) = findPlainURLs(f)
  BY AlikePlain
<1>3. PICK urls \in Seq(P) : urls = findPlainURLs(s) /\ \A x \in P : \E i \in DOMAIN urls : urls[i] = x
  BY <1>1, <1>2, PlainSorted
<1>4. urlSpans(f) = P
  <2>1. ToSet(urls) = P
    BY <1>3 DEF ToSet
  <2> QED
    BY <1>2, <1>3, <2>1, Zenon DEF urlSpans
<1>5. P \in SUBSET SpanRecord /\ IsFiniteSet(P) /\ Disjoint(P)
  <2>1. \A u \in P : u \in SpanRecord
    BY <1>1, <1>2, PlainPlace
  <2> QED
    BY <1>1, <1>2, <2>1, PlainDisjoint
<1>6. ASSUME NEW at \in digitRuns(f)
      PROVE  ~inSpans(mergeSpans(urlSpans(f)), at)
               <=> \A i \in DOMAIN urls : at.end <= urls[i].start \/ urls[i].end <= at.start
  <2>1. IsSpan(at) /\ at.start \in Nat /\ at.end \in Nat /\ at.start < at.end
    BY <1>1, RunPlace, FoundRun DEF IsSpan
  <2>2. inSpans(mergeSpans(P), at) <=> \E x \in P : Overlaps(x, at)
    BY <1>5, <2>1, MergedDecides
  <2>3. (\E x \in P : Overlaps(x, at)) <=> \E i \in DOMAIN urls : Overlaps(urls[i], at)
    BY <1>3
  <2>4. ASSUME NEW i \in DOMAIN urls
        PROVE  ~Overlaps(urls[i], at) <=> at.end <= urls[i].start \/ urls[i].end <= at.start
    <3>1. urls[i].start \in Nat /\ urls[i].end \in Nat
      BY <1>3, <1>5 DEF SpanRecord
    <3> QED
      BY <2>1, <3>1 DEF Overlaps
  <2> QED
    BY <1>4, <2>2, <2>3, <2>4, Zenon
<1>7. Eligible(f) = {at \in digitRuns(f) :
                       /\ at.end - at.start \in MinOTPLen..MaxOTPLen
                       /\ \A i \in DOMAIN urls : at.end <= urls[i].start \/ urls[i].end <= at.start}
  BY <1>6, Zenon DEF Eligible
<1> QED
  BY <1>3, <1>7, Zenon

\* The agreement of codes and links, in a finished extraction.
LEMMA CodesApart ==
    ASSUME ScanTypeOK, RankedByBest, LinksOnce
    PROVE  CodesOutsideLinks
<1> SUFFICES ASSUME Done, ToSet(Plain) \cap {"accent", "mark"} = {}
             PROVE  LET folded == fold(Plain)
                        urls == findPlainURLs(Plain)
                        Clear(at) == \A i \in DOMAIN urls : at.end <= urls[i].start \/ urls[i].end <= at.start
                        runs == {at \in digitRuns(folded) : at.end - at.start \in MinOTPLen..MaxOTPLen}
                        reported == {Res.links[i].url : i \in DOMAIN Res.links}
                    IN  /\ ToSet(Res.otpCandidates) = {Slice(folded, at) : at \in {x \in runs : Clear(x)}}
                        /\ \A i \in DOMAIN urls : Slice(Plain, urls[i]) \in reported
  BY Zenon DEF CodesOutsideLinks
<1>1. PICK s \in Seq(Symbol), f \in Seq(Symbol) : s = Plain /\ f = fold(Plain) /\ Alike(s, f)
  BY PlainType, FoldType, FoldAlike
<1>2. PICK urls : urls = findPlainURLs(s)
  OBVIOUS
<1> DEFINE Free(at) == \A i \in DOMAIN urls : at.end <= urls[i].start \/ urls[i].end <= at.start
           runs == {at \in digitRuns(f) : at.end - at.start \in MinOTPLen..MaxOTPLen}
<1>3. ToSet(Res.otpCandidates) = {Slice(f, at) : at \in {x \in runs : Free(x)}}
  <2>1. ToSet(Res.otpCandidates) = {o.code : o \in Occurrences(f)}
    BY <1>1, Zenon DEF RankedByBest, RankedCodes
  <2>2. Eligible(f) = {x \in runs : Free(x)}
    <3>1. Eligible(f) = {at \in digitRuns(f) : at.end - at.start \in MinOTPLen..MaxOTPLen /\ Free(at)}
      <4>1. Alike(s, f)
        BY <1>1
      <4>2. Eligible(f) =
              {at \in digitRuns(f) :
                 /\ at.end - at.start \in MinOTPLen..MaxOTPLen
                 /\ \A i \in DOMAIN findPlainURLs(s) :
                       at.end <= findPlainURLs(s)[i].start \/ findPlainURLs(s)[i].end <= at.start}
        BY <4>1, EligibleOutside
      <4> QED
        BY <1>2, <4>2, Zenon
    <3> HIDE DEF Free
    <3> QED
      BY <3>1
  <2> HIDE DEF Free, runs
  <2>3. {o.code : o \in Occurrences(f)} = {Slice(f, at) : at \in Eligible(f)}
    <3>1. PICK words : words = findWords(f, ContextWord)
      OBVIOUS
    <3>2. Occurrences(f) = {[code |-> Slice(f, at), pos |-> at.start,
                             score |-> scoreCandidate(Slice(f, at), at, words)] : at \in Eligible(f)}
      BY <3>1, Zenon DEF Occurrences
    <3> DEFINE occurrence(at) == [code |-> Slice(f, at), pos |-> at.start,
                                  score |-> scoreCandidate(Slice(f, at), at, words)]
    <3>3. \A at : occurrence(at).code = Slice(f, at)
      OBVIOUS
    <3>4. Occurrences(f) = {occurrence(at) : at \in Eligible(f)}
      BY <3>2, Zenon
    <3> HIDE DEF occurrence
    <3> QED
      BY <3>3, <3>4, Zenon
  <2> QED
    BY <2>1, <2>2, <2>3, Zenon
<1>4. ASSUME NEW i \in DOMAIN urls PROVE Slice(s, urls[i]) \in {Res.links[k].url : k \in DOMAIN Res.links}
  <2>1. PICK raws : raws = RawLinks(hrefs, Plain)
    OBVIOUS
  <2>2. PICK k \in DOMAIN raws : raws[k].url = Slice(s, urls[i])
    <3>1. hrefs \in Seq(Href)
      BY DEF ScanTypeOK
    <3>2. \A j \in DOMAIN findPlainURLs(s) :
             \E k \in DOMAIN RawLinks(hrefs, s) : RawLinks(hrefs, s)[k].url = Slice(s, findPlainURLs(s)[j])
      BY <3>1, RawLinksList
    <3> QED
      BY <1>1, <1>2, <2>1, <3>2, ZenonT(40)
  <2>3. urls \in Seq(PlainURLs(s))
    BY <1>2, PlainSorted
  <2>4. urls[i] \in PlainURLs(s)
    BY <2>3
  <2>5. Slice(s, urls[i]) # <<>>
    BY <2>4, PlainPlace
  <2>6. {Res.links[j].url : j \in DOMAIN Res.links} = {raws[j].url : j \in DOMAIN raws} \ {<<>>}
    BY <2>1, Zenon DEF LinksOnce
  <2> QED
    BY <2>2, <2>5, <2>6, Zenon
<1>5. findPlainURLs(Plain) = urls /\ fold(Plain) = f /\ Plain = s
  BY <1>1, <1>2, Zenon
<1>6. \A i \in DOMAIN urls : Slice(s, urls[i]) \in {Res.links[k].url : k \in DOMAIN Res.links}
  BY <1>4, Zenon
<1> QED
  BY <1>3, <1>5, <1>6, ZenonT(60)

\* Codes and links agree on what a URL is, for every message that folding leaves
\* as it is: otpCandidates leaves out exactly the digits inside the links that
\* collectLinks reports.  Accents are excluded by the property, and the symbols
\* that fold to ASCII punctuation by the alphabet.
THEOREM CodesAreNotLinks == Spec => []CodesOutsideLinks
<1>1. ScanTypeOK /\ RankedByBest /\ LinksOnce => CodesOutsideLinks
  BY CodesApart
<1> QED
  BY <1>1, ScanTypes, CandidatesRanked, LinksReported, PTL

=============================================================================

-------------------------- MODULE ScopeWalkProofs --------------------------
(***************************************************************************)
(* Proofs about ScopeWalk: first what the decisions on glob and pattern     *)
(* text have to do with what globs and patterns match, then what the walk   *)
(* keeps, for any log of any length.                                        *)
(***************************************************************************)
EXTENDS ScopeWalk, WellFoundedInduction, TLAPS

-----------------------------------------------------------------------------
(* Literal prefixes *)

\* A non-empty set of numbers has a least one.
LEMMA LeastOf ==
    ASSUME NEW S \in SUBSET Nat, S # {}
    PROVE  \E n \in S : \A k \in S : n <= k
<1> DEFINE R == {ss \in Nat \X Nat : ss[1] < ss[2]}
<1>1. IsWellFoundedOn(R, Nat)
  BY NatLessThanWellFounded DEF OpToRel
<1>2. PICK n \in S : \A k \in S : <<k, n>> \notin R
  BY <1>1, WFMin
<1>3. \A k \in S : ~(k < n)
  BY <1>2
<1> QED
  BY <1>3

\* Every glob has a literal prefix.
LEMMA LiteralLengthIs ==
    ASSUME NEW S, NEW glob \in Seq(S)
    PROVE  /\ LiteralLength(glob) \in 0 .. Len(glob)
           /\ \A i \in 1 .. LiteralLength(glob) : glob[i] \notin Wild
           /\ LiteralLength(glob) < Len(glob) => glob[LiteralLength(glob) + 1] \in Wild
<1> DEFINE P(n) == /\ \A i \in 1 .. n : glob[i] \notin Wild
                   /\ n < Len(glob) => glob[n + 1] \in Wild
<1>1. \E n \in 0 .. Len(glob) : P(n)
  <2> DEFINE T == {i \in 1 .. Len(glob) : glob[i] \in Wild}
  <2>1. CASE T = {}
    <3>1. P(Len(glob)) /\ Len(glob) \in 0 .. Len(glob)
      BY <2>1
    <3> QED
      BY <3>1
  <2>2. CASE T # {}
    <3>0. T \in SUBSET Nat
      OBVIOUS
    <3>1. PICK w \in T : \A k \in T : w <= k
      BY <2>2, <3>0, LeastOf
    <3>2. w - 1 \in 0 .. Len(glob) /\ P(w - 1)
      BY <3>1
    <3> QED
      BY <3>2
  <2> QED
    BY <2>1, <2>2
<1>2. LiteralLength(glob) = CHOOSE n \in 0 .. Len(glob) : P(n)
  BY DEF LiteralLength
<1> HIDE DEF P
<1>3. LiteralLength(glob) \in 0 .. Len(glob) /\ P(LiteralLength(glob))
  BY <1>1, <1>2
<1> QED
  BY <1>3 DEF P

\* The text of a glob, a path or a pattern is a sequence.
LEMMA StringsAreSeqs ==
    ASSUME NEW S, NEW n \in Nat, NEW m \in Nat, NEW s \in Strings(S, n, m)
    PROVE  s \in Seq(S) /\ Len(s) \in n .. m /\ DOMAIN s = 1 .. Len(s)
<1>1. PICK k \in n .. m : s \in [1 .. k -> S]
  BY DEF Strings
<1>2. s \in Seq(S) /\ Len(s) = k
  BY <1>1
<1> QED
  BY <1>1, <1>2

LEMMA GlobIsSeq ==
    ASSUME NEW g \in Globs
    PROVE  g \in Seq(GlobNames \cup Wild) /\ Len(g) \in 0 .. MaxSegments
           /\ DOMAIN g = 1 .. Len(g)
  BY StringsAreSeqs, GlobAssumption DEF Globs, GlobAssumption

LEMMA PathIsSeq ==
    ASSUME NEW p \in Paths
    PROVE  p \in Seq(Names) /\ Len(p) \in 1 .. MaxSegments /\ DOMAIN p = 1 .. Len(p)
  BY StringsAreSeqs, GlobAssumption DEF Paths, GlobAssumption

-----------------------------------------------------------------------------
(* Containment of globs *)

\* Containment is about the literal prefix alone: that of "**" is empty.
LEMMA ContainsIsPrefix ==
    ASSUME NEW x \in Globs, NEW y \in Globs
    PROVE  GlobContains(x, y) <=> StartsWith(y, x)
<1>1. x \in Seq(GlobNames \cup Wild) /\ y \in Seq(GlobNames \cup Wild)
  BY GlobIsSeq
<1>2. ASSUME IsCatchAll(x) PROVE StartsWith(y, x)
  <2>1. Len(x) = 1 /\ x[1] \in Wild
    BY <1>2 DEF IsCatchAll, Wild
  <2>2. LiteralLength(x) = 0
    BY <1>1, <2>1, LiteralLengthIs
  <2> QED
    BY <1>1, <2>2 DEF StartsWith
<1> QED
  BY <1>2 DEF GlobContains

\* A sequence that starts with the inner prefix starts with the outer one.
LEMMA PrefixesCompose ==
    ASSUME NEW x \in Globs, NEW y \in Globs, StartsWith(y, x),
           NEW S, NEW s \in Seq(S), StartsWith(s, y)
    PROVE  StartsWith(s, x)
<1>1. x \in Seq(GlobNames \cup Wild) /\ y \in Seq(GlobNames \cup Wild)
  BY GlobIsSeq
<1>2. \A i \in 1 .. LiteralLength(x) : y[i] \notin Wild /\ y[i] = x[i]
  BY <1>1, LiteralLengthIs DEF StartsWith
<1>3. LiteralLength(x) <= LiteralLength(y)
  <2>1. SUFFICES ASSUME LiteralLength(y) < LiteralLength(x) PROVE FALSE
    BY <1>1, LiteralLengthIs
  <2>2. LiteralLength(x) <= Len(y)
    BY DEF StartsWith
  <2>3. y[LiteralLength(y) + 1] \in Wild
    BY <1>1, <2>1, <2>2, LiteralLengthIs
  <2>4. LiteralLength(y) + 1 \in 1 .. LiteralLength(x)
    BY <1>1, <2>1, LiteralLengthIs
  <2> QED
    BY <1>2, <2>3, <2>4
<1> QED
  BY <1>1, <1>2, <1>3, LiteralLengthIs DEF StartsWith

\* A path that a glob matches lies under the glob's literal prefix.
LEMMA MatchedLiesUnder ==
    ASSUME NEW g \in Globs, NEW p \in Paths, PathMatchesGlob(p, g)
    PROVE  StartsWith(p, g)
<1>1. g \in Seq(GlobNames \cup Wild) /\ p \in Seq(Names) /\ DOMAIN g = 1 .. Len(g)
  BY GlobIsSeq, PathIsSeq
<1>2. \A i \in 1 .. LiteralLength(g) : SegmentMatches(p, i, g[i])
  <2>1. CASE \E k \in DOMAIN g :
                g[k] = Rest /\ \A i \in 1 .. k - 1 : SegmentMatches(p, i, g[i])
    <3>1. PICK k \in DOMAIN g :
                 g[k] = Rest /\ \A i \in 1 .. k - 1 : SegmentMatches(p, i, g[i])
      BY <2>1
    <3>2. k \notin 1 .. LiteralLength(g)
      BY <1>1, <3>1, LiteralLengthIs DEF Wild
    <3> QED
      BY <1>1, <3>1, <3>2, LiteralLengthIs
  <2>2. CASE \A i \in DOMAIN g : SegmentMatches(p, i, g[i])
    BY <1>1, <2>2, LiteralLengthIs
  <2> QED
    BY <2>1, <2>2 DEF PathMatchesGlob
<1>3. \A i \in 1 .. LiteralLength(g) : i <= Len(p) /\ p[i] = g[i]
  BY <1>1, <1>2, LiteralLengthIs DEF SegmentMatches
<1> QED
  BY <1>1, <1>3, LiteralLengthIs DEF StartsWith

\* A narrowing is recognised: if all that a glob matches is matched by some
\* globs, one of these contains it. The witness puts a name that no glob has
\* for every wildcard, and stops at the first "**".
LEMMA CoveredGlobIsContained ==
    ASSUME NEW x \in Globs, x # <<>>, NEW outers \in SUBSET Globs,
           \A p \in Paths : PathMatchesGlob(p, x) => \E o \in outers : PathMatchesGlob(p, o)
    PROVE  \E o \in outers : GlobContains(o, x)
<1> DEFINE filled(n) == [i \in 1 .. n |-> IF x[i] \in Wild THEN Other ELSE x[i]]
<1>1. x \in Seq(GlobNames \cup Wild) /\ DOMAIN x = 1 .. Len(x) /\ Len(x) \in 1 .. MaxSegments
  BY GlobIsSeq
<1>2. ASSUME NEW n \in 1 .. Len(x)
      PROVE  /\ filled(n) \in Paths /\ filled(n) \in Seq(Names) /\ Len(filled(n)) = n
             /\ \A i \in 1 .. n : filled(n)[i] = IF x[i] \in Wild THEN Other ELSE x[i]
  <2>1. filled(n) \in [1 .. n -> Names]
    BY <1>1 DEF Names, Wild
  <2>2. n \in 1 .. MaxSegments /\ MaxSegments \in Nat
    BY <1>1, GlobAssumption DEF GlobAssumption
  <2>3. filled(n) \in Paths
    BY <2>1, <2>2 DEF Paths, Strings
  <2> QED
    BY <2>1, <2>3
<1> HIDE DEF filled
\* What matches a filled part of x starts like x.
<1>3. ASSUME NEW n \in 1 .. Len(x), PathMatchesGlob(filled(n), x)
      PROVE  \E o \in outers : GlobContains(o, x)
  <2>1. PICK o \in outers : PathMatchesGlob(filled(n), o)
    BY <1>2, <1>3
  <2>2. o \in Globs /\ o \in Seq(GlobNames \cup Wild)
    BY GlobIsSeq
  <2>3. StartsWith(filled(n), o)
    BY <1>2, <2>1, <2>2, MatchedLiesUnder
  <2>4. LiteralLength(o) \in 0 .. n
    BY <1>2, <2>2, <2>3, LiteralLengthIs DEF StartsWith
  <2>5. ASSUME NEW i \in 1 .. LiteralLength(o) PROVE x[i] = o[i]
    <3>1. o[i] # Other
      BY <2>2, <2>4, LiteralLengthIs, GlobAssumption DEF GlobAssumption, Wild
    <3>2. filled(n)[i] = o[i] /\ i \in 1 .. n
      BY <2>3, <2>4 DEF StartsWith
    <3> QED
      BY <1>2, <3>1, <3>2
  <2>6. StartsWith(x, o)
    BY <1>1, <2>4, <2>5 DEF StartsWith
  <2> QED
    BY <2>2, <2>6, ContainsIsPrefix
<1> DEFINE rests == {k \in 1 .. Len(x) : x[k] = Rest}
<1>4. CASE rests = {}
  <2>1. \A i \in DOMAIN x : SegmentMatches(filled(Len(x)), i, x[i])
    BY <1>1, <1>2 DEF SegmentMatches
  <2>2. PathMatchesGlob(filled(Len(x)), x)
    BY <1>1, <1>2, <2>1 DEF PathMatchesGlob
  <2> QED
    BY <1>1, <1>3, <2>2
<1>5. CASE rests # {}
  <2>0. rests \in SUBSET Nat
    OBVIOUS
  <2>1. PICK k \in rests : \A j \in rests : k <= j
    BY <1>5, <2>0, LeastOf
  <2>2. CASE k > 1
    <3>1. k - 1 \in 1 .. Len(x)
      BY <2>1, <2>2, <1>1
    <3>2. \A i \in 1 .. k - 1 : SegmentMatches(filled(k - 1), i, x[i])
      BY <1>1, <1>2, <3>1 DEF SegmentMatches
    <3>3. PathMatchesGlob(filled(k - 1), x)
      BY <1>1, <2>1, <3>2 DEF PathMatchesGlob
    <3> QED
      BY <1>3, <3>1, <3>3
  <2>3. CASE k = 1
    <3>1. x[1] = Rest /\ 1 \in DOMAIN x
      BY <1>1, <2>1, <2>3
    <3>2. PathMatchesGlob(filled(1), x)
      BY <3>1 DEF PathMatchesGlob
    <3>3. 1 \in 1 .. Len(x)
      BY <1>1
    <3> QED
      BY <1>3, <3>2, <3>3
  <2> QED
    BY <2>1, <2>2, <2>3
<1> QED
  BY <1>4, <1>5

-----------------------------------------------------------------------------
(* Containment of command patterns *)

LEMMA PatternIsSeq ==
    ASSUME NEW x \in Patterns
    PROVE  /\ x.fixed \in Seq(Words) /\ Len(x.fixed) \in 0 .. MaxWords
           /\ DOMAIN x.fixed = 1 .. Len(x.fixed) /\ x.star \in BOOLEAN
           /\ x = [fixed |-> x.fixed, star |-> x.star]
<1>1. x.fixed \in Strings(Words, 0, MaxWords) /\ x.star \in BOOLEAN
      /\ x = [fixed |-> x.fixed, star |-> x.star]
  BY DEF Patterns
<1> QED
  BY <1>1, StringsAreSeqs, GlobAssumption DEF GlobAssumption

LEMMA PrefixIsPointwise ==
    ASSUME NEW S, NEW s \in Seq(S), NEW t \in Seq(S)
    PROVE  IsPrefix(s, t) <=> Len(s) <= Len(t) /\ \A i \in 1 .. Len(s) : s[i] = t[i]
<1>1. Len(s) <= Len(t) => SubSeq(t, 1, Len(s)) \in Seq(S) /\ Len(SubSeq(t, 1, Len(s))) = Len(s)
                          /\ \A i \in 1 .. Len(s) : SubSeq(t, 1, Len(s))[i] = t[i]
  OBVIOUS
<1>2. SubSeq(s, 1, Len(s)) = s
  OBVIOUS
<1>3. ASSUME Len(s) <= Len(t), \A i \in 1 .. Len(s) : s[i] = t[i]
      PROVE  s = SubSeq(t, 1, Len(s))
  BY <1>1, <1>3
<1> QED
  BY <1>1, <1>2, <1>3 DEF IsPrefix

LEMMA CommandContainsTransitive ==
    ASSUME NEW x \in Patterns, NEW y \in Patterns, NEW z \in Patterns,
           CommandContains(x, y), CommandContains(y, z)
    PROVE  CommandContains(x, z)
  BY PatternIsSeq, PrefixIsPointwise DEF CommandContains

LEMMA TokenizeIs ==
    ASSUME NEW S, NEW c \in Seq(S)
    PROVE  /\ Tokenize(c) \in Seq(S)
           /\ Tokenize(c) # <<>> => Tokenize(c)[1] \notin EnvWords
           /\ c # <<>> /\ c[1] \notin EnvWords => Tokenize(c) = c
<1> DEFINE P(n) == /\ \A i \in 1 .. n : c[i] \in EnvWords
                   /\ n < Len(c) => c[n + 1] \notin EnvWords
<1> DEFINE m == CHOOSE n \in 0 .. Len(c) : P(n)
<1>1. \E n \in 0 .. Len(c) : P(n)
  <2> DEFINE T == {i \in 1 .. Len(c) : c[i] \notin EnvWords}
  <2>1. CASE T = {}
    <3>1. P(Len(c)) /\ Len(c) \in 0 .. Len(c)
      BY <2>1
    <3> QED
      BY <3>1
  <2>2. CASE T # {}
    <3>1. T \in SUBSET Nat
      OBVIOUS
    <3>2. PICK w \in T : \A k \in T : w <= k
      BY <2>2, <3>1, LeastOf
    <3>3. w - 1 \in 0 .. Len(c) /\ P(w - 1)
      BY <3>2
    <3> QED
      BY <3>3
  <2> QED
    BY <2>1, <2>2
<1> HIDE DEF P
<1>2. m \in 0 .. Len(c) /\ P(m)
  BY <1>1
<1>3. Tokenize(c) = SubSeq(c, m + 1, Len(c))
  BY DEF Tokenize, P
<1> HIDE DEF m
<1>4. Tokenize(c) \in Seq(S)
  BY <1>2, <1>3
<1>5. ASSUME c # <<>>, c[1] \notin EnvWords PROVE Tokenize(c) = c
  <2>1. m = 0
    BY <1>2, <1>5 DEF P
  <2> QED
    BY <1>3, <2>1
<1>6. ASSUME Tokenize(c) # <<>> PROVE Tokenize(c)[1] \notin EnvWords
  <2>1. m < Len(c)
    BY <1>2, <1>3, <1>6
  <2>2. Tokenize(c)[1] = c[m + 1]
    BY <1>2, <1>3, <2>1
  <2> QED
    BY <1>2, <2>1, <2>2 DEF P
<1> QED
  BY <1>4, <1>5, <1>6

LEMMA CommandIsSeq ==
    ASSUME NEW c \in Commands
    PROVE  c \in Seq(Words \cup {OtherWord}) /\ Tokenize(c) \in Seq(Words \cup {OtherWord})
<1>1. c \in Seq(Words \cup {OtherWord})
  BY StringsAreSeqs, GlobAssumption DEF Commands, GlobAssumption
<1> QED
  BY <1>1, TokenizeIs

\* What a contained pattern matches, the containing one matches.
LEMMA ContainedCommandMatches ==
    ASSUME NEW x \in Patterns, NEW y \in Patterns, CommandContains(x, y), x.fixed # <<>>,
           NEW c \in Commands, MatchCommandPattern(y, c)
    PROVE  MatchCommandPattern(x, c)
<1>1. Tokenize(c) \in Seq(Words \cup {OtherWord})
  BY CommandIsSeq
<1>2. /\ x.fixed \in Seq(Words) /\ DOMAIN x.fixed = 1 .. Len(x.fixed)
      /\ y.fixed \in Seq(Words) /\ DOMAIN y.fixed = 1 .. Len(y.fixed)
  BY PatternIsSeq
<1>3. CASE x.star
  BY <1>1, <1>2, <1>3, PrefixIsPointwise DEF CommandContains, MatchCommandPattern
<1>4. CASE ~x.star
  BY <1>4 DEF CommandContains
<1> QED
  BY <1>3, <1>4

\* A pattern that matches anything begins with a word that is no assignment,
\* because leading assignments are not part of what it is compared with. It
\* then matches its own words, with one more if it has a star.
LEMMA PatternMatchesItself ==
    ASSUME NEW x \in Patterns, NEW d \in Commands, MatchCommandPattern(x, d)
    PROVE  \E c \in Commands :
               /\ MatchCommandPattern(x, c)
               /\ Tokenize(c) = IF x.star THEN Append(x.fixed, OtherWord) ELSE x.fixed
<1> DEFINE f == x.fixed
<1>1. f \in Seq(Words) /\ Len(f) \in 0 .. MaxWords /\ f # <<>> /\ DOMAIN f = 1 .. Len(f)
      /\ x.star \in BOOLEAN /\ MaxWords \in Nat
  BY PatternIsSeq, GlobAssumption DEF GlobAssumption, MatchCommandPattern
<1>2. Tokenize(d) # <<>> /\ Tokenize(d)[1] = f[1]
  <2>1. Tokenize(d) \in Seq(Words \cup {OtherWord})
    BY CommandIsSeq
  <2>2. 1 \in DOMAIN f
    BY <1>1
  <2>3. Len(Tokenize(d)) >= Len(f)
    BY <1>1, <2>1 DEF MatchCommandPattern
  <2> QED
    BY <1>1, <2>1, <2>2, <2>3 DEF MatchCommandPattern
<1>3. f[1] \notin EnvWords
  BY <1>2, CommandIsSeq, TokenizeIs
<1> HIDE DEF f
<1>4. ASSUME NEW c \in Seq(Words \cup {OtherWord}), Len(c) \in 1 .. MaxWords + 1, c[1] = f[1]
      PROVE  c \in Commands /\ Tokenize(c) = c
  <2>1. c \in [1 .. Len(c) -> Words \cup {OtherWord}] /\ c # <<>>
    BY <1>4
  <2>2. Len(c) \in 0 .. MaxWords + 1
    BY <1>1, <1>4
  <2>3. c \in Commands
    BY <2>1, <2>2 DEF Commands, Strings
  <2> QED
    BY <1>3, <1>4, <2>1, <2>3, TokenizeIs
<1>5. CASE x.star
  <2> DEFINE c == Append(f, OtherWord)
  <2>1. /\ c \in Seq(Words \cup {OtherWord}) /\ Len(c) = Len(f) + 1
        /\ \A k \in 1 .. Len(f) : c[k] = f[k]
    BY <1>1
  <2> HIDE DEF c
  <2>2. c \in Commands /\ Tokenize(c) = c
    BY <1>1, <1>4, <2>1
  <2>3. MatchCommandPattern(x, c)
    BY <1>1, <1>5, <2>1, <2>2 DEF MatchCommandPattern, f
  <2> QED
    BY <1>5, <2>2, <2>3 DEF c, f
<1>6. CASE ~x.star
  <2>1. f \in Seq(Words \cup {OtherWord})
    BY <1>1
  <2>2. f \in Commands /\ Tokenize(f) = f
    BY <1>1, <1>4, <2>1
  <2>3. MatchCommandPattern(x, f)
    BY <1>1, <1>6, <2>2 DEF MatchCommandPattern, f
  <2> QED
    BY <1>6, <2>2, <2>3 DEF f
<1> QED
  BY <1>5, <1>6

\* A narrowing of commands is recognised: if all that a pattern matches is
\* matched by some patterns, one of these contains it.
LEMMA CoveredPatternIsContained ==
    ASSUME NEW x \in Patterns, NEW outers \in SUBSET Patterns,
           \E c \in Commands : MatchCommandPattern(x, c),
           \A c \in Commands :
               MatchCommandPattern(x, c) => \E o \in outers : MatchCommandPattern(o, c)
    PROVE  \E o \in outers : CommandContains(o, x)
<1>1. PICK c \in Commands :
             /\ MatchCommandPattern(x, c)
             /\ Tokenize(c) = IF x.star THEN Append(x.fixed, OtherWord) ELSE x.fixed
  BY PatternMatchesItself
<1>2. PICK o \in outers : MatchCommandPattern(o, c)
  BY <1>1
<1>3. /\ x.fixed \in Seq(Words) /\ x.star \in BOOLEAN
      /\ x = [fixed |-> x.fixed, star |-> x.star]
      /\ o.fixed \in Seq(Words) /\ o.star \in BOOLEAN /\ DOMAIN o.fixed = 1 .. Len(o.fixed)
      /\ o = [fixed |-> o.fixed, star |-> o.star]
  BY PatternIsSeq
<1>4. \A k \in 1 .. Len(o.fixed) : Tokenize(c)[k] = o.fixed[k]
  BY <1>2, <1>3 DEF MatchCommandPattern
<1>5. CASE x.star /\ o.star
  <2>1. Len(Append(x.fixed, OtherWord)) > Len(o.fixed)
    BY <1>1, <1>2, <1>5 DEF MatchCommandPattern
  <2>2. Len(o.fixed) <= Len(x.fixed) /\ \A k \in 1 .. Len(o.fixed) : o.fixed[k] = x.fixed[k]
    BY <1>1, <1>3, <1>4, <1>5, <2>1
  <2> QED
    BY <1>3, <1>5, <2>2, PrefixIsPointwise DEF CommandContains
<1>6. CASE x.star /\ ~o.star
  <2>1. Len(o.fixed) = Len(x.fixed) + 1
    BY <1>1, <1>2, <1>3, <1>6 DEF MatchCommandPattern
  <2>2. o.fixed[Len(x.fixed) + 1] = OtherWord
    BY <1>1, <1>3, <1>4, <1>6, <2>1
  <2>3. o.fixed[Len(x.fixed) + 1] \in Words
    BY <1>3, <2>1
  <2> QED
    BY <2>2, <2>3, GlobAssumption DEF GlobAssumption
<1>7. CASE ~x.star /\ o.star
  <2>1. Len(x.fixed) > Len(o.fixed)
    BY <1>1, <1>2, <1>7 DEF MatchCommandPattern
  <2> QED
    BY <1>1, <1>3, <1>4, <1>7, <2>1, PrefixIsPointwise DEF CommandContains
<1>8. CASE ~x.star /\ ~o.star
  <2>1. Len(x.fixed) = Len(o.fixed)
    BY <1>1, <1>2, <1>8 DEF MatchCommandPattern
  <2>2. x.fixed = o.fixed
    BY <1>1, <1>3, <1>4, <1>8, <2>1
  <2> QED
    BY <1>3, <1>8, <2>2 DEF CommandContains
<1> QED
  BY <1>3, <1>5, <1>6, <1>7, <1>8

\* Of two patterns of which the outer has a fixed word and the inner matches
\* anything, the code finds the outer one to contain the inner one exactly if
\* it matches all that the inner one matches.
LEMMA ContainmentOfTexts ==
    ASSUME NEW o \in Patterns, NEW i \in Patterns, o.fixed # <<>>,
           \E c \in Commands : MatchCommandPattern(i, c)
    PROVE  CommandContains(o, i) <=>
           \A c \in Commands : MatchCommandPattern(i, c) => MatchCommandPattern(o, c)
<1>1. ASSUME CommandContains(o, i), NEW c \in Commands, MatchCommandPattern(i, c)
      PROVE  MatchCommandPattern(o, c)
  BY <1>1, ContainedCommandMatches
<1>2. ASSUME \A c \in Commands : MatchCommandPattern(i, c) => MatchCommandPattern(o, c)
      PROVE  CommandContains(o, i)
  <2>1. {o} \in SUBSET Patterns /\ \A c \in Commands :
            MatchCommandPattern(i, c) => \E x \in {o} : MatchCommandPattern(x, c)
    BY <1>2
  <2>2. \E x \in {o} : CommandContains(x, i)
    BY <2>1, CoveredPatternIsContained
  <2> QED
    BY <2>2
<1> QED
  BY <1>1, <1>2
-----------------------------------------------------------------------------
(* Scopes *)

LEMMA ScopeIs ==
    ASSUME NEW s \in Scopes
    PROVE  s.paths \in SUBSET Globs /\ s.commands \in SUBSET Patterns
  BY ScopeWalkAssumption DEF ScopeWalkAssumption, ScopeType

LEMMA SubsetReflexive ==
    ASSUME NEW s \in Scopes
    PROVE  ScopeSubset(s, s)
<1>1. ASSUME NEW g \in s.paths PROVE GlobContains(g, g)
  <2>1. g \in Globs
    BY ScopeIs
  <2>2. StartsWith(g, g)
    BY <2>1, GlobIsSeq, LiteralLengthIs DEF StartsWith
  <2> QED
    BY <2>2 DEF GlobContains
<1>2. ASSUME NEW c \in s.commands PROVE CommandContains(c, c)
  BY ScopeIs, PatternIsSeq, PrefixIsPointwise DEF CommandContains
<1> QED
  BY <1>1, <1>2 DEF ScopeSubset

LEMMA GlobContainsTransitive ==
    ASSUME NEW x \in Globs, NEW y \in Globs, NEW z \in Globs,
           GlobContains(x, y), GlobContains(y, z)
    PROVE  GlobContains(x, z)
  BY ContainsIsPrefix, PrefixesCompose, GlobIsSeq

\* Narrowings in a row are a narrowing.
LEMMA SubsetTransitive ==
    ASSUME NEW r \in Scopes, NEW s \in Scopes, NEW t \in Scopes,
           ScopeSubset(r, s), ScopeSubset(s, t)
    PROVE  ScopeSubset(r, t)
<1>1. ASSUME NEW z \in r.paths PROVE \E x \in t.paths : GlobContains(x, z)
  <2>1. PICK y \in s.paths : GlobContains(y, z)
    BY DEF ScopeSubset
  <2>2. PICK x \in t.paths : GlobContains(x, y)
    BY DEF ScopeSubset
  <2> QED
    BY <2>1, <2>2, ScopeIs, GlobContainsTransitive
<1>2. ASSUME NEW z \in r.commands PROVE \E x \in t.commands : CommandContains(x, z)
  <2>1. PICK y \in s.commands : CommandContains(y, z)
    BY DEF ScopeSubset
  <2>2. PICK x \in t.commands : CommandContains(x, y)
    BY DEF ScopeSubset
  <2> QED
    BY <2>1, <2>2, ScopeIs, CommandContainsTransitive
<1> QED
  BY <1>1, <1>2 DEF ScopeSubset

\* What a scope may match that the code takes for a part of another one.
LEMMA SubsetReach ==
    ASSUME NEW r \in Scopes, NEW s \in Scopes, ScopeSubset(r, s)
    PROVE  /\ \A p \in Paths :
                 PathMatchesScope(p, r) => \E g \in s.paths : StartsWith(p, g)
           /\ \A c \in Commands :
                 CommandMatchesScope(c, r) =>
                     \/ CommandMatchesScope(c, s)
                     \/ [fixed |-> <<>>, star |-> TRUE] \in s.commands
<1>1. ASSUME NEW p \in Paths, PathMatchesScope(p, r)
      PROVE  \E g \in s.paths : StartsWith(p, g)
  <2>1. PICK y \in r.paths : PathMatchesGlob(p, y)
    BY <1>1 DEF PathMatchesScope
  <2>2. PICK x \in s.paths : GlobContains(x, y)
    BY DEF ScopeSubset
  <2>3. StartsWith(p, y) /\ StartsWith(y, x)
    BY <2>1, <2>2, ScopeIs, MatchedLiesUnder, ContainsIsPrefix
  <2> QED
    BY <2>3, ScopeIs, PathIsSeq, PrefixesCompose
<1>2. ASSUME NEW c \in Commands, CommandMatchesScope(c, r),
             [fixed |-> <<>>, star |-> TRUE] \notin s.commands
      PROVE  CommandMatchesScope(c, s)
  <2>1. PICK y \in r.commands : MatchCommandPattern(y, c)
    BY <1>2 DEF CommandMatchesScope
  <2>2. PICK x \in s.commands : CommandContains(x, y)
    BY DEF ScopeSubset
  <2>3. x \in Patterns /\ y \in Patterns
    BY ScopeIs
  <2>4. x.fixed # <<>>
    <3>1. SUFFICES ASSUME x.fixed = <<>> PROVE FALSE
      OBVIOUS
    <3>2. x.star = FALSE
      BY <1>2, <2>3, <3>1, PatternIsSeq
    <3>3. y = x
      BY <2>2, <3>2 DEF CommandContains
    <3> QED
      BY <2>1, <3>1, <3>3 DEF MatchCommandPattern
  <2> QED
    BY <2>1, <2>2, <2>3, <2>4, ContainedCommandMatches DEF CommandMatchesScope
<1> QED
  BY <1>1, <1>2

\* A narrowing of a scope is recognised.
LEMMA NarrowerIsSubset ==
    ASSUME NEW r \in Scopes, NEW s \in Scopes, IsNarrower(r, s)
    PROVE  ScopeSubset(r, s)
<1>1. ASSUME NEW x \in r.paths PROVE \E o \in s.paths : GlobContains(o, x)
  <2>1. x \in Globs /\ x # <<>> /\ s.paths \in SUBSET Globs
    BY ScopeIs DEF IsNarrower
  <2>2. \A p \in Paths : PathMatchesGlob(p, x) => \E o \in s.paths : PathMatchesGlob(p, o)
    BY DEF IsNarrower, PathMatchesScope
  <2> QED
    BY <2>1, <2>2, CoveredGlobIsContained
<1>2. ASSUME NEW x \in r.commands PROVE \E o \in s.commands : CommandContains(o, x)
  <2>1. x \in Patterns /\ s.commands \in SUBSET Patterns
    BY ScopeIs
  <2>2. \E c \in Commands : MatchCommandPattern(x, c)
    BY DEF IsNarrower
  <2>3. \A c \in Commands :
            MatchCommandPattern(x, c) => \E o \in s.commands : MatchCommandPattern(o, c)
    BY DEF IsNarrower, CommandMatchesScope
  <2> QED
    BY <2>1, <2>2, <2>3, CoveredPatternIsContained
<1> QED
  BY <1>1, <1>2 DEF ScopeSubset
-----------------------------------------------------------------------------
(* The walk *)

LEMMA SuggestedScope ==
    ASSUME NEW o \in Observation, o.kind = "adjust_scope"
    PROVE  o.scope \in Scopes
  BY DEF Observation

\* Filing leaves the records a walk works on alone.
LEMMA FilingAppends ==
    ASSUME TypeOK, NEW o \in Observation, File(o)
    PROVE  /\ log' \in Seq(Observation) /\ loaded' \in 0 .. Len(log')
           /\ loaded' = loaded
           /\ \A i \in 1 .. loaded : log'[i] = log[i]
           /\ Adjustments(loaded)' = Adjustments(loaded)
<1>1. log \in Seq(Observation) /\ loaded \in 0 .. Len(log) /\ log' = Append(log, o)
      /\ loaded' = loaded
  BY DEF TypeOK, File
<1>2. log' \in Seq(Observation) /\ Len(log') = Len(log) + 1
  BY <1>1
<1>3. \A i \in 1 .. loaded : log'[i] = log[i]
  BY <1>1
<1> QED
  BY <1>1, <1>2, <1>3 DEF Adjustments

\* A step of the environment files one well-formed record.
LEMMA FiledIsObservation ==
    ASSUME AdjustScope \/ Approve \/ Confirm
    PROVE  \E o \in Observation : File(o)
<1>1. CASE AdjustScope
  <2>1. PICK t \in 0 .. MaxRecords, s \in Scopes :
               File([kind |-> "adjust_scope", at |-> t, scope |-> s])
    BY <1>1 DEF AdjustScope
  <2>2. [kind |-> "adjust_scope", at |-> t, scope |-> s] \in Observation
    BY DEF Observation
  <2> QED
    BY <2>1, <2>2
<1>2. CASE Approve
  <2>1. PICK t \in 0 .. MaxRecords : File([kind |-> "approve", at |-> t])
    BY <1>2 DEF Approve
  <2>2. [kind |-> "approve", at |-> t] \in Observation
    BY DEF Observation
  <2> QED
    BY <2>1, <2>2
<1>3. CASE Confirm
  <2>1. PICK t \in 0 .. MaxRecords, b \in BOOLEAN, c \in Contexts :
               File([kind |-> "confirm", at |-> t, independent |-> b, context |-> c])
    BY <1>3 DEF Confirm
  <2>2. [kind |-> "confirm", at |-> t, independent |-> b, context |-> c] \in Observation
    BY DEF Observation
  <2> QED
    BY <2>1, <2>2
<1> QED
  BY <1>1, <1>2, <1>3

\* A step of the walk takes the first adjustment left.
LEMMA WalkTakesNext ==
    ASSUME TypeOK, NEW i \in left, Narrow(i) \/ Broaden(i) \/ Defer(i)
    PROVE  /\ IsNext(i) /\ i \in Adjustments(loaded) /\ log[i].scope \in Scopes
           /\ left' = left \ {i}
           /\ UNCHANGED <<envelope, log, loaded>>
           /\ Adjustments(loaded)' = Adjustments(loaded)
           /\ \A k \in Adjustments(loaded) \ left' : k <= i
           /\ \A k \in Adjustments(loaded) \ left', j \in left' : k < j
           /\ \/ pending' = pending /\ cur' = log[i].scope
              \/ pending' = pending \cup {i} /\ cur' = cur
<1>1. /\ IsNext(i) /\ left' = left \ {i} /\ UNCHANGED <<envelope, log, loaded>>
      /\ \/ pending' = pending /\ cur' = log[i].scope
         \/ pending' = pending \cup {i} /\ cur' = cur
  BY DEF Narrow, Broaden, Defer, Apply
<1>2. i \in Adjustments(loaded)
  BY DEF TypeOK
<1>3. log[i].scope \in Scopes
  <2>1. i \in 1 .. Len(log) /\ log[i].kind = "adjust_scope"
    BY <1>2 DEF Adjustments, TypeOK
  <2>2. log[i] \in Observation
    BY <2>1 DEF TypeOK
  <2> QED
    BY <2>1, <2>2, SuggestedScope
<1>4. Adjustments(loaded)' = Adjustments(loaded)
  BY <1>1 DEF Adjustments
<1>5. Adjustments(loaded) \subseteq Nat
  BY DEF Adjustments, TypeOK
<1>6. /\ \A k \in Adjustments(loaded) \ left' : k <= i
      /\ \A k \in Adjustments(loaded) \ left', j \in left' : k < j
  BY <1>1, <1>2, <1>5 DEF TypeOK, IsNext
<1> QED
  BY <1>1, <1>2, <1>3, <1>4, <1>6

\* The walk takes the adjustments in order, each once, and its scope is always
\* one that somebody wrote.
THEOREM TypeCorrect == Spec => []TypeOK
<1>1. Init => TypeOK
  BY DEF Init, TypeOK, Adjustments
<1>2. TypeOK /\ [Next]_vars => TypeOK'
  <2> SUFFICES ASSUME TypeOK, [Next]_vars PROVE TypeOK'
    OBVIOUS
  <2>1. CASE AdjustScope \/ Approve \/ Confirm
    <3>1. PICK o \in Observation : File(o)
      BY <2>1, FiledIsObservation
    <3>2. UNCHANGED <<envelope, left, cur, pending>>
      BY <3>1 DEF File
    <3> QED
      BY <3>1, <3>2, FilingAppends DEF TypeOK
  <2>2. CASE StartWalk
    <3>1. /\ left' = Adjustments(Len(log)) /\ loaded' = Len(log) /\ log' = log
          /\ pending' = {} /\ cur' = envelope /\ envelope' = envelope
      BY <2>2 DEF StartWalk
    <3>2. Adjustments(loaded)' = left'
      BY <3>1 DEF Adjustments
    <3>3. Len(log) \in Nat
      BY DEF TypeOK
    <3> QED
      BY <3>1, <3>2, <3>3 DEF TypeOK
  <2>3. ASSUME NEW i \in left, Narrow(i) \/ Broaden(i) \/ Defer(i) PROVE TypeOK'
    BY <2>3, WalkTakesNext DEF TypeOK
  <2>4. CASE UNCHANGED vars
    BY <2>4 DEF vars, TypeOK, Adjustments
  <2> QED
    BY <2>1, <2>2, <2>3, <2>4 DEF Next
<1> QED
  BY <1>1, <1>2, PTL DEF Spec
-----------------------------------------------------------------------------
(* Where the scope comes from *)

\* The inductive form of EarnedReach: by the code's own comparison the scope is
\* a part of the envelope or of a broadening that was substantiated. What each
\* step compares is the text of two scopes next to each other; that the first
\* and the last one are related too is SubsetTransitive.
Earned == \E base \in Grounds : ScopeSubset(cur, base)

LEMMA GroundsAreScopes ==
    ASSUME TypeOK
    PROVE  Grounds \in SUBSET Scopes
<1>1. ASSUME NEW i \in Adjustments(loaded) PROVE log[i].scope \in Scopes
  <2>1. i \in 1 .. Len(log) /\ log[i].kind = "adjust_scope"
    BY DEF Adjustments, TypeOK
  <2>2. log[i] \in Observation
    BY <2>1 DEF TypeOK
  <2> QED
    BY <2>1, <2>2, SuggestedScope
<1> QED
  BY <1>1 DEF Grounds, TypeOK

\* Evidence for a loaded adjustment depends on the loaded records only.
LEMMA EvidenceStays ==
    ASSUME TypeOK, NEW i \in Adjustments(loaded), loaded' = loaded, envelope' = envelope,
           \A k \in 1 .. loaded : log'[k] = log[k]
    PROVE  Substantiated(i)' <=> Substantiated(i)
<1>1. i \in 1 .. loaded
  BY DEF Adjustments
<1>2. Approved(i)' <=> Approved(i)
  BY <1>1 DEF Approved
<1>3. MetBeyond(i)' <=> MetBeyond(i)
  BY <1>1 DEF MetBeyond, Meets
<1> QED
  BY <1>2, <1>3 DEF Substantiated

\* While the records stay loaded, the walk only adds to what counts.
LEMMA GroundsGrow ==
    ASSUME TypeOK, loaded' = loaded, envelope' = envelope, left' \subseteq left,
           \A k \in 1 .. loaded : log'[k] = log[k],
           Adjustments(loaded)' = Adjustments(loaded)
    PROVE  Grounds \subseteq Grounds'
<1>1. ASSUME NEW i \in Adjustments(loaded) \ left, Substantiated(i)
      PROVE  log[i].scope \in Grounds'
  <2>1. i \in Adjustments(loaded)' \ left' /\ Substantiated(i)'
    BY <1>1, EvidenceStays
  <2>2. log'[i].scope = log[i].scope
    BY DEF Adjustments
  <2> QED
    BY <2>1, <2>2 DEF Grounds
<1>2. envelope \in Grounds'
  BY DEF Grounds
<1> QED
  BY <1>1, <1>2 DEF Grounds

\* Whatever is adjusted how often and in whichever order, the effective scope
\* does not leave the literal prefixes of the envelope or of one broadening
\* that somebody vouched for.
THEOREM ReachIsEarned == Spec => []EarnedReach
<1>1. Init => Earned
  <2> SUFFICES ASSUME Init PROVE Earned
    OBVIOUS
  <2>1. cur \in Scopes /\ cur \in Grounds
    BY DEF Init, Grounds
  <2> QED
    BY <2>1, SubsetReflexive DEF Earned
<1>2. TypeOK /\ TypeOK' /\ Earned /\ [Next]_vars => Earned'
  <2> SUFFICES ASSUME TypeOK, TypeOK', Earned, [Next]_vars PROVE Earned'
    OBVIOUS
  <2>1. PICK base \in Grounds : ScopeSubset(cur, base)
    BY DEF Earned
  <2>2. base \in Scopes /\ cur \in Scopes
    BY GroundsAreScopes DEF TypeOK
  <2>3. CASE AdjustScope \/ Approve \/ Confirm
    <3>1. PICK o \in Observation : File(o)
      BY <2>3, FiledIsObservation
    <3>2. UNCHANGED <<envelope, left, cur>>
      BY <3>1 DEF File
    <3>3. base \in Grounds'
      BY <3>1, <3>2, FilingAppends, GroundsGrow
    <3> QED
      BY <2>1, <3>2, <3>3 DEF Earned, ScopeSubset
  <2>4. CASE StartWalk
    <3>1. cur' = envelope' /\ cur' \in Scopes
      BY <2>4 DEF StartWalk, TypeOK
    <3>2. ScopeSubset(cur', cur')
      BY <3>1, SubsetReflexive
    <3>3. cur' \in Grounds'
      BY <3>1 DEF Grounds
    <3> QED
      BY <3>2, <3>3 DEF Earned, ScopeSubset
  <2>5. ASSUME NEW i \in left, Narrow(i) \/ Broaden(i) \/ Defer(i) PROVE Earned'
    <3>1. /\ i \in Adjustments(loaded) /\ log[i].scope \in Scopes
          /\ left' = left \ {i} /\ UNCHANGED <<envelope, log, loaded>>
          /\ Adjustments(loaded)' = Adjustments(loaded)
      BY <2>5, WalkTakesNext
    <3>2. Grounds \subseteq Grounds'
      BY <3>1, GroundsGrow
    <3>3. CASE Narrow(i)
      <4>1. cur' = log[i].scope /\ ScopeSubset(cur', cur)
        BY <3>3 DEF Narrow, Apply
      <4>2. ScopeSubset(cur', base)
        BY <2>1, <2>2, <3>1, <4>1, SubsetTransitive
      <4> QED
        BY <2>1, <3>2, <4>2 DEF Earned, ScopeSubset
    <3>4. CASE Broaden(i)
      <4>1. cur' = log[i].scope /\ Substantiated(i)
        BY <3>4 DEF Broaden, Apply
      <4>2. i \in Adjustments(loaded)' \ left' /\ Substantiated(i)'
        BY <3>1, <4>1, EvidenceStays
      <4>3. cur' \in Grounds' /\ cur' \in Scopes
        BY <3>1, <4>1, <4>2 DEF Grounds
      <4>4. ScopeSubset(cur', cur')
        BY <4>3, SubsetReflexive
      <4> QED
        BY <4>3, <4>4 DEF Earned, ScopeSubset
    <3>5. CASE Defer(i)
      <4>1. cur' = cur
        BY <3>5 DEF Defer
      <4> QED
        BY <2>1, <3>2, <4>1 DEF Earned, ScopeSubset
    <3> QED
      BY <2>5, <3>3, <3>4, <3>5
  <2>6. CASE UNCHANGED vars
    BY <2>6 DEF vars, Earned, Grounds, Adjustments, Substantiated, Approved, MetBeyond, Meets
  <2> QED
    BY <2>3, <2>4, <2>5, <2>6 DEF Next
<1>3. TypeOK /\ Earned => EarnedReach
  BY GroundsAreScopes, SubsetReach DEF Earned, EarnedReach, TypeOK
<1> QED
  BY <1>1, <1>2, <1>3, TypeCorrect, PTL DEF Spec

-----------------------------------------------------------------------------
(* What an approve settles, and what is not held up *)

\* An approve newer than every adjustment is among the loaded records.
AllApproved ==
    \E j \in 1 .. loaded :
        log[j].kind = "approve" /\ \A i \in Adjustments(loaded) : log[j].at > log[i].at

\* The inductive form of ApproveSettles: the same, said of the adjustments the
\* walk has come to.
Settling ==
    AllApproved =>
        /\ pending = {}
        /\ \/ Adjustments(loaded) \ left = {}
           \/ \E i \in Adjustments(loaded) \ left :
                 cur = log[i].scope /\ \A k \in Adjustments(loaded) \ left : k <= i

\* After an approve that is newer than every adjustment the effective scope is
\* that of the newest adjustment and nothing is pending.
THEOREM ApprovesSettle == Spec => []ApproveSettles
<1>1. Init => Settling
  BY DEF Init, Settling, Adjustments
<1>2. TypeOK /\ Settling /\ [Next]_vars => Settling'
  <2> SUFFICES ASSUME TypeOK, Settling, [Next]_vars PROVE Settling'
    OBVIOUS
  <2>1. CASE AdjustScope \/ Approve \/ Confirm
    <3>1. PICK o \in Observation : File(o)
      BY <2>1, FiledIsObservation
    <3>2. UNCHANGED <<left, cur, pending>>
      BY <3>1 DEF File
    <3>3. /\ loaded' = loaded /\ \A i \in 1 .. loaded : log'[i] = log[i]
          /\ Adjustments(loaded)' = Adjustments(loaded)
          /\ Adjustments(loaded) \subseteq 1 .. loaded
      BY <3>1, FilingAppends DEF Adjustments
    <3>4. AllApproved' => AllApproved
      BY <3>3 DEF AllApproved
    <3> QED
      BY <3>2, <3>3, <3>4 DEF Settling
  <2>2. CASE StartWalk
    <3>1. pending' = {} /\ Adjustments(loaded)' \ left' = {}
      BY <2>2 DEF StartWalk, Adjustments
    <3> QED
      BY <3>1 DEF Settling
  <2>3. ASSUME NEW i \in left, Narrow(i) \/ Broaden(i) \/ Defer(i), AllApproved'
        PROVE  /\ pending' = {}
               /\ \E x \in Adjustments(loaded)' \ left' :
                     cur' = log'[x].scope /\ \A k \in Adjustments(loaded)' \ left' : k <= x
    <3>1. /\ i \in Adjustments(loaded)
          /\ left' = left \ {i} /\ UNCHANGED <<envelope, log, loaded>>
          /\ Adjustments(loaded)' = Adjustments(loaded)
          /\ \A k \in Adjustments(loaded) \ left' : k <= i
      BY <2>3, WalkTakesNext
    <3>2. AllApproved
      BY <2>3, <3>1 DEF AllApproved
    <3>3. Approved(i)
      BY <3>1, <3>2 DEF AllApproved, Approved
    <3>4. ~Defer(i)
      BY <3>3 DEF Defer, Substantiated
    <3>5. cur' = log[i].scope /\ pending' = pending
      BY <2>3, <3>4 DEF Narrow, Broaden, Apply
    <3>6. pending = {}
      BY <3>2 DEF Settling
    <3> QED
      BY <3>1, <3>5, <3>6
  <2>4. CASE UNCHANGED vars
    BY <2>4 DEF vars, Settling, AllApproved, Adjustments
  <2> QED
    BY <2>1, <2>2, <2>3, <2>4 DEF Next, Settling
<1>3. Settling => ApproveSettles
  BY DEF Settling, ApproveSettles, AllApproved
<1> QED
  BY <1>1, <1>2, <1>3, TypeCorrect, PTL DEF Spec

\* An adjustment that only takes something away is applied by the step that
\* comes to it, whatever the texts of the two scopes are.
THEOREM NarrowingsApply == Spec => NarrowingAppliesAtOnce
<1>1. TypeOK /\ [Next]_vars =>
          [\A i \in left \ left' :
              IsNarrower(log[i].scope, cur) => cur' = log[i].scope /\ pending' = pending]_vars
  <2> SUFFICES ASSUME TypeOK, Next, NEW i \in left, i \notin left',
                      IsNarrower(log[i].scope, cur)
               PROVE  cur' = log[i].scope /\ pending' = pending
    OBVIOUS
  <2>1. CASE AdjustScope \/ Approve \/ Confirm
    BY <2>1, FiledIsObservation DEF File
  <2>2. CASE StartWalk
    BY <2>2 DEF StartWalk
  <2>3. ASSUME NEW k \in left, Narrow(k) \/ Broaden(k) \/ Defer(k)
        PROVE  cur' = log[i].scope /\ pending' = pending
    <3>1. left' = left \ {k} /\ log[k].scope \in Scopes
      BY <2>3, WalkTakesNext
    <3>2. k = i
      BY <3>1
    <3>3. ScopeSubset(log[i].scope, cur)
      BY <3>1, <3>2, NarrowerIsSubset DEF TypeOK
    <3> QED
      BY <2>3, <3>2, <3>3 DEF Narrow, Broaden, Defer, Apply
  <2> QED
    BY <2>1, <2>2, <2>3 DEF Next
<1> QED
  BY <1>1, TypeCorrect, PTL DEF Spec, NarrowingAppliesAtOnce

-----------------------------------------------------------------------------
(* Matching, and breadth *)

\* As long as no segment is "**", every segment takes one name.
LEMMA CutsAreExact ==
    ASSUME NEW g \in Globs, NEW p \in Paths,
           NEW cut \in [0 .. Len(g) -> 0 .. Len(p)], cut[0] = 0,
           \A i \in DOMAIN g : g[i] # Rest => cut[i] = cut[i - 1] + 1,
           NEW k \in 0 .. Len(g), \A i \in 1 .. k : g[i] # Rest
    PROVE  \A i \in 0 .. k : cut[i] = i
<1> DEFINE off == {i \in 0 .. k : cut[i] # i}
<1>1. Len(g) \in Nat /\ Len(p) \in Nat /\ DOMAIN g = 1 .. Len(g)
  BY GlobIsSeq, PathIsSeq, GlobAssumption DEF GlobAssumption
<1>2. SUFFICES ASSUME off # {} PROVE FALSE
  OBVIOUS
<1>3. PICK n \in off : \A i \in off : n <= i
  <2>1. off \in SUBSET Nat
    BY <1>1
  <2> QED
    BY <1>2, <2>1, LeastOf
<1>4. n \in 1 .. k /\ n - 1 \in 0 .. k /\ n - 1 \notin off
  BY <1>1, <1>3
<1>5. cut[n] = cut[n - 1] + 1
  BY <1>1, <1>4
<1> QED
  BY <1>1, <1>3, <1>4, <1>5

\* A path that the segments of a glob can share out among themselves matches it,
\* although the matcher never looks beyond the first "**": a memory is found
\* wherever its globs apply.
LEMMA MatchedIsFound ==
    ASSUME NEW g \in Globs, NEW p \in Paths, Matches(p, g)
    PROVE  PathMatchesGlob(p, g)
<1>1. PICK cut \in [0 .. Len(g) -> 0 .. Len(p)] :
          /\ cut[0] = 0
          /\ cut[Len(g)] = Len(p)
          /\ \A i \in DOMAIN g :
                IF g[i] = Rest THEN cut[i - 1] <= cut[i]
                ELSE /\ cut[i] = cut[i - 1] + 1
                     /\ g[i] = One \/ p[cut[i]] = g[i]
  BY DEF Matches
<1>2. Len(g) \in Nat /\ Len(p) \in Nat /\ DOMAIN g = 1 .. Len(g)
  BY GlobIsSeq, PathIsSeq, GlobAssumption DEF GlobAssumption
\* The segments before one that the cuts are exact for fit their names.
<1>3. ASSUME NEW k \in 0 .. Len(g), \A i \in 1 .. k : g[i] # Rest
      PROVE  cut[k] = k /\ \A i \in 1 .. k : SegmentMatches(p, i, g[i])
  <2>1. \A i \in 0 .. k : cut[i] = i
    <3>1. cut[0] = 0 /\ \A i \in DOMAIN g : g[i] # Rest => cut[i] = cut[i - 1] + 1
      BY <1>1
    <3> HIDE DEF Matches
    <3> QED
      BY <3>1, <1>3, CutsAreExact, ZenonT(30)
  <2>2. ASSUME NEW i \in 1 .. k PROVE SegmentMatches(p, i, g[i])
    <3>1. cut[i] = i /\ i \in 0 .. Len(p) /\ i \in DOMAIN g
      BY <1>1, <1>2, <2>1
    <3>2. g[i] = One \/ p[i] = g[i]
      BY <1>1, <1>3, <3>1
    <3> QED
      BY <1>2, <3>1, <3>2 DEF SegmentMatches, Wild
  <2> QED
    BY <1>2, <2>1, <2>2
<1>4. CASE \A i \in DOMAIN g : g[i] # Rest
  <2>1. cut[Len(g)] = Len(g) /\ \A i \in 1 .. Len(g) : SegmentMatches(p, i, g[i])
    BY <1>2, <1>3, <1>4
  <2> QED
    BY <1>1, <1>2, <2>1 DEF PathMatchesGlob
<1>5. CASE \E i \in DOMAIN g : g[i] = Rest
  <2> DEFINE rests == {i \in DOMAIN g : g[i] = Rest}
  <2>1. PICK k \in rests : \A i \in rests : k <= i
    <3>1. rests \in SUBSET Nat /\ rests # {}
      BY <1>2, <1>5
    <3> QED
      BY <3>1, LeastOf
  <2>2. k - 1 \in 0 .. Len(g) /\ \A i \in 1 .. k - 1 : g[i] # Rest
    BY <1>2, <2>1
  <2>3. \A i \in 1 .. k - 1 : SegmentMatches(p, i, g[i])
    BY <1>3, <2>2
  <2> QED
    BY <2>1, <2>3 DEF PathMatchesGlob
<1> QED
  BY <1>4, <1>5

\* Where "**" comes last, if at all, the matcher is exact: it is only after a
\* "**" in the middle, whose rest it does not read, that it finds too much.
THEOREM MatcherIsExact ==
    ASSUME NEW g \in Globs, NEW p \in Paths, \A i \in 1 .. Len(g) - 1 : g[i] # Rest
    PROVE  PathMatchesGlob(p, g) <=> Matches(p, g)
<1>1. Len(g) \in Nat /\ Len(p) \in Nat /\ DOMAIN g = 1 .. Len(g)
  BY GlobIsSeq, PathIsSeq, GlobAssumption DEF GlobAssumption
<1>2. ASSUME NEW k \in 1 .. Len(g), g[k] = Rest, \A i \in 1 .. k - 1 : SegmentMatches(p, i, g[i])
      PROVE  Matches(p, g)
  <2> DEFINE N == Len(g)
             M == Len(p)
             cut == [i \in 0 .. N |-> IF i = N THEN M ELSE i]
  <2>0. N \in Nat /\ M \in Nat /\ k \in 1 .. N /\ \A i \in 1 .. N - 1 : g[i] # Rest
    BY <1>1
  <2>1. \A i \in 1 .. k - 1 : i <= M /\ (g[i] \in Wild \/ p[i] = g[i])
    BY <1>2 DEF SegmentMatches
  <2>2. N \in 0 .. N
    BY <1>1
  <2> HIDE DEF N, M
  <2>3. k = N
    BY <1>2, <2>0
  <2>4. N - 1 <= M
    <3>1. CASE k = 1
      BY <2>0, <2>3, <3>1
    <3>2. CASE k # 1
      <4>1. k - 1 \in 1 .. k - 1
        BY <2>0, <3>2
      <4> QED
        BY <2>0, <2>1, <2>3, <4>1
    <3> QED
      BY <3>1, <3>2
  <2>5. cut \in [0 .. N -> 0 .. M] /\ cut[0] = 0 /\ cut[N] = M
    BY <2>0, <2>2, <2>3, <2>4
  <2>6. ASSUME NEW i \in 1 .. N
        PROVE  IF g[i] = Rest THEN cut[i - 1] <= cut[i]
               ELSE /\ cut[i] = cut[i - 1] + 1
                    /\ g[i] = One \/ p[cut[i]] = g[i]
    <3>1. cut[i - 1] = i - 1
      BY <2>0
    <3>2. CASE i = N
      <4>1. g[i] = Rest /\ cut[i] = M
        BY <1>2, <2>2, <2>3, <3>2
      <4> QED
        BY <2>0, <2>4, <3>1, <3>2, <4>1
    <3>3. CASE i # N
      <4>1. i \in 1 .. k - 1 /\ i \in 1 .. N - 1 /\ cut[i] = i /\ i = (i - 1) + 1
        BY <2>0, <2>3, <3>3
      <4>2. g[i] # Rest /\ (g[i] \in Wild \/ p[i] = g[i])
        BY <2>0, <2>1, <4>1
      <4> HIDE DEF cut
      <4> QED
        BY <3>1, <4>1, <4>2 DEF Wild
    <3> QED
      BY <3>2, <3>3
  <2> HIDE DEF cut
  <2> QED
    BY <1>1, <2>5, <2>6 DEF Matches, N, M
<1>3. ASSUME Len(p) = Len(g), \A i \in 1 .. Len(g) : SegmentMatches(p, i, g[i])
      PROVE  Matches(p, g)
  <2> DEFINE cut == [i \in 0 .. Len(g) |-> i]
  <2>1. /\ cut \in [0 .. Len(g) -> 0 .. Len(p)]
        /\ cut[0] = 0 /\ cut[Len(g)] = Len(p)
    BY <1>1, <1>3
  <2>2. ASSUME NEW i \in 1 .. Len(g)
        PROVE  IF g[i] = Rest THEN cut[i - 1] <= cut[i]
               ELSE /\ cut[i] = cut[i - 1] + 1
                    /\ g[i] = One \/ p[cut[i]] = g[i]
    <3>1. cut[i] = i /\ cut[i - 1] = i - 1
      BY <1>1
    <3> QED
      BY <1>1, <1>3, <3>1 DEF SegmentMatches, Wild
  <2> HIDE DEF cut
  <2> QED
    BY <1>1, <2>1, <2>2 DEF Matches
<1>4. PathMatchesGlob(p, g) => Matches(p, g)
  BY <1>1, <1>2, <1>3 DEF PathMatchesGlob
<1> QED
  BY <1>4, MatchedIsFound

\* All paths that match a glob which is not broad begin with the same name.
LEMMA NarrowGlobHasOneRoot ==
    ASSUME NEW g \in Globs, ~IsBroadGlob(g), NEW p \in Paths, PathMatchesGlob(p, g)
    PROVE  p[1] = g[1]
<1>1. /\ g \in Seq(GlobNames \cup Wild) /\ DOMAIN g = 1 .. Len(g) /\ Len(g) \in Nat
      /\ Len(p) \in Nat /\ g # <<>> /\ g[1] \notin Wild
  BY GlobIsSeq, PathIsSeq, GlobAssumption DEF GlobAssumption, IsBroadGlob
<1>2. 1 \in DOMAIN g
  BY <1>1
<1>3. \A k \in DOMAIN g : g[k] = Rest => 1 \in 1 .. k - 1
  BY <1>1 DEF Wild
<1>4. SegmentMatches(p, 1, g[1])
  BY <1>2, <1>3 DEF PathMatchesGlob
<1> QED
  BY <1>1, <1>4 DEF SegmentMatches

\* A pattern that is not broad says more than the name of a program.
LEMMA NarrowPatternMissesSome ==
    ASSUME NEW c \in Patterns, ~IsBroadPattern(c), NEW w \in Words \ EnvWords
    PROVE  \E x \in Commands : Len(x) = 2 /\ x[1] = w /\ ~MatchCommandPattern(c, x)
<1> DEFINE x == <<w, OtherWord>>
<1>1. /\ c.fixed \in Seq(Words) /\ Len(c.fixed) \in 2 .. MaxWords /\ MaxWords \in Nat
      /\ DOMAIN c.fixed = 1 .. Len(c.fixed)
  BY PatternIsSeq, GlobAssumption DEF GlobAssumption, IsBroadPattern
<1>2. x \in Commands
  <2>1. x \in [1 .. 2 -> Words \cup {OtherWord}] /\ 2 \in 0 .. MaxWords + 1
    BY <1>1
  <2> QED
    BY <2>1 DEF Commands, Strings
<1>3. Tokenize(x) = x
  <2>1. x \in Seq(Words \cup {OtherWord}) /\ x # <<>> /\ x[1] \notin EnvWords
    OBVIOUS
  <2> QED
    BY <2>1, TokenizeIs
<1>4. c.fixed[2] \in Words /\ 2 \in DOMAIN c.fixed
  BY <1>1
<1>5. ~MatchCommandPattern(c, x)
  BY <1>3, <1>4, GlobAssumption DEF MatchCommandPattern, GlobAssumption
<1> QED
  BY <1>2, <1>5

\* A scope that is not broad stays in one top-level directory, entry by entry, and
\* leaves out some call of every program.
LEMMA NarrowScopes ==
    ASSUME NEW s \in Scopes, ~ScopeIsBroad(s)
    PROVE  /\ \A g \in s.paths : \A p, q \in Paths :
                 PathMatchesGlob(p, g) /\ PathMatchesGlob(q, g) => p[1] = q[1]
           /\ \A c \in s.commands, w \in Words \ EnvWords :
                 \E x \in Commands : Len(x) = 2 /\ x[1] = w /\ ~MatchCommandPattern(c, x)
<1>1. s.paths \in SUBSET Globs /\ s.commands \in SUBSET Patterns
  BY ScopeIs
<1>2. (\A g \in s.paths : ~IsBroadGlob(g)) /\ \A c \in s.commands : ~IsBroadPattern(c)
  BY DEF ScopeIsBroad
<1>3. ASSUME NEW g \in s.paths, NEW p \in Paths, NEW q \in Paths,
             PathMatchesGlob(p, g), PathMatchesGlob(q, g)
      PROVE  p[1] = q[1]
  <2>1. p[1] = g[1] /\ q[1] = g[1]
    BY <1>1, <1>2, <1>3, NarrowGlobHasOneRoot
  <2> QED
    BY <2>1
<1> QED
  BY <1>1, <1>2, <1>3, NarrowPatternMissesSome

-----------------------------------------------------------------------------
(* What the texts of entries decide, of every memory *)

\* The code finds one command pattern to contain another exactly if it matches
\* all that the other one matches, as long as both match something.
THEOREM ContainmentIsExact == Spec => []CommandContainmentExact
<1>1. CommandContainmentExact
  BY ContainmentOfTexts DEF CommandContainmentExact
<1> QED
  BY <1>1, PTL

\* A memory is found wherever its globs apply.
THEOREM NothingIsMissed == Spec => []MatcherMissesNothing
<1>1. MatcherMissesNothing
  BY MatchedIsFound DEF MatcherMissesNothing
<1> QED
  BY <1>1, PTL

\* Breadth, decided on the text of a scope, is not overlooked: a memory that
\* reaches two top-level directories or every call of a program counts as broad.
THEOREM BreadthSeen == Spec => []BreadthIsSeen
<1>1. TypeOK => BreadthIsSeen
  <2>1. SUFFICES ASSUME envelope \in Scopes, ~ScopeIsBroad(envelope)
                 PROVE  /\ \A g \in envelope.paths : \A p, q \in Paths :
                              PathMatchesGlob(p, g) /\ PathMatchesGlob(q, g) => p[1] = q[1]
                        /\ \A c \in envelope.commands, w \in Words \ EnvWords :
                              \E x \in Commands :
                                  Len(x) = 2 /\ x[1] = w /\ ~MatchCommandPattern(c, x)
    BY DEF TypeOK, BreadthIsSeen
  <2> QED
    BY <2>1, NarrowScopes
<1> QED
  BY <1>1, TypeCorrect, PTL
-----------------------------------------------------------------------------
(* Sensitive areas *)

\* What holds at m, and at every number up to n if it holds at the one before,
\* holds at all of them.
LEMMA Upwards ==
    ASSUME NEW n \in Nat, NEW m \in 0 .. n, NEW G, m \in G,
           \A i \in m + 1 .. n : i - 1 \in G => i \in G
    PROVE  m .. n \subseteq G
<1> DEFINE bad == (m .. n) \ G
<1> SUFFICES ASSUME bad # {} PROVE FALSE
  OBVIOUS
<1>1. bad \in SUBSET Nat
  OBVIOUS
<1> HIDE DEF bad
<1>2. PICK k \in bad : \A j \in bad : k <= j
  BY <1>1, LeastOf
<1>3. k \in m + 1 .. n /\ k \notin G
  BY <1>2 DEF bad
<1>4. k - 1 \in m .. n /\ k - 1 \notin bad
  BY <1>1, <1>2, <1>3
<1> QED
  BY <1>3, <1>4 DEF bad

\* The runs of a loop over n items that starts in s0: item i takes it from one
\* state of S to the next by step[i].
Runs(S, s0, n, step) ==
    {f \in [0 .. n -> S] : f[0] = s0 /\ \A i \in 1 .. n : f[i] = step[i][f[i - 1]]}

\* Every such loop has a run.
LEMMA LoopRuns ==
    ASSUME NEW S, NEW s0 \in S, NEW n \in Nat, NEW step \in [1 .. n -> [S -> S]]
    PROVE  Runs(S, s0, n, step) # {}
<1> DEFINE Good(k) == \E f \in [0 .. k -> S] :
                         f[0] = s0 /\ \A i \in 1 .. k : f[i] = step[i][f[i - 1]]
           goods == {k \in 0 .. n : Good(k)}
<1>1. Good(0)
  <2> DEFINE f == [i \in 0 .. 0 |-> s0]
  <2>1. f \in [0 .. 0 -> S] /\ f[0] = s0 /\ \A i \in 1 .. 0 : f[i] = step[i][f[i - 1]]
    OBVIOUS
  <2> QED
    BY <2>1
<1>2. ASSUME NEW k \in 1 .. n, Good(k - 1) PROVE Good(k)
  <2>1. PICK f \in [0 .. k - 1 -> S] :
             f[0] = s0 /\ \A i \in 1 .. k - 1 : f[i] = step[i][f[i - 1]]
    BY <1>2
  <2> DEFINE g == [i \in 0 .. k |-> IF i = k THEN step[k][f[k - 1]] ELSE f[i]]
  <2>2. step[k] \in [S -> S] /\ f[k - 1] \in S
    OBVIOUS
  <2>3. g \in [0 .. k -> S]
    BY <2>2
  <2>4. g[0] = s0
    BY <2>1
  <2>5. ASSUME NEW i \in 1 .. k PROVE g[i] = step[i][g[i - 1]]
    <3>1. i - 1 \in 0 .. k - 1 /\ g[i - 1] = f[i - 1]
      OBVIOUS
    <3>2. CASE i = k
      BY <3>1, <3>2
    <3>3. CASE i # k
      <4>1. i \in 1 .. k - 1 /\ i \in 0 .. k
        BY <3>3
      <4>2. g[i] = f[i]
        BY <3>3, <4>1
      <4> QED
        BY <2>1, <3>1, <4>1, <4>2
    <3> QED
      BY <3>2, <3>3
  <2> HIDE DEF g
  <2> QED
    BY <2>3, <2>4, <2>5
<1> HIDE DEF Good
<1>3. 0 .. n \subseteq goods
  <2>1. 0 \in goods /\ 0 \in 0 .. n
    BY <1>1
  <2>2. \A i \in 0 + 1 .. n : i - 1 \in goods => i \in goods
    BY <1>2
  <2> HIDE DEF goods
  <2> QED
    BY <2>1, <2>2, Upwards
<1>4. Good(n)
  BY <1>3
<1> QED
  BY <1>4 DEF Good, Runs

\* K[n] is what is left of the first n items of s without those in D.
IsKept(s, D, K) ==
    /\ K[0] = <<>>
    /\ \A n \in 1 .. Len(s) : K[n] = IF s[n] \in D THEN K[n - 1] ELSE Append(K[n - 1], s[n])

LEMMA KeptExists ==
    ASSUME NEW S, NEW s \in Seq(S), NEW D
    PROVE  \E K \in [0 .. Len(s) -> Seq(S \ D)] : IsKept(s, D, K)
<1> DEFINE step == [n \in 1 .. Len(s) |->
                       [k \in Seq(S \ D) |-> IF s[n] \in D THEN k ELSE Append(k, s[n])]]
<1>1. step \in [1 .. Len(s) -> [Seq(S \ D) -> Seq(S \ D)]]
  OBVIOUS
<1>2. Len(s) \in Nat /\ <<>> \in Seq(S \ D)
  OBVIOUS
<1>3. PICK K \in [0 .. Len(s) -> Seq(S \ D)] :
           K[0] = <<>> /\ \A n \in 1 .. Len(s) : K[n] = step[n][K[n - 1]]
  <2> DEFINE N == Len(s)
             Q == Seq(S \ D)
  <2>1. N \in Nat /\ <<>> \in Q /\ step \in [1 .. N -> [Q -> Q]]
    BY <1>1, <1>2
  <2> HIDE DEF N, Q, step
  <2>2. Runs(Q, <<>>, N, step) # {}
    BY <2>1, LoopRuns
  <2>3. PICK K \in Runs(Q, <<>>, N, step) : TRUE
    BY <2>2
  <2>4. /\ K \in [0 .. N -> Q]
        /\ K[0] = <<>> /\ \A n \in 1 .. N : K[n] = step[n][K[n - 1]]
    BY <2>3 DEF Runs
  <2> QED
    BY <2>4 DEF N, Q
<1>4. ASSUME NEW n \in 1 .. Len(s)
      PROVE  K[n] = IF s[n] \in D THEN K[n - 1] ELSE Append(K[n - 1], s[n])
  <2>1. K[n - 1] \in Seq(S \ D)
    BY <1>2
  <2> QED
    BY <1>3, <2>1 DEF step
<1> QED
  BY <1>3, <1>4 DEF IsKept

\* The longer n, the longer K[n], by one item at most for each, and K[n] stays
\* where it was.
Grows(K, n) ==
    \A k \in 0 .. n, m \in 0 .. n : m <= k =>
        /\ Len(K[m]) <= Len(K[k]) /\ Len(K[k]) - Len(K[m]) <= k - m
        /\ \A i \in 1 .. Len(K[m]) : K[k][i] = K[m][i]

\* What is left of more items begins with what is left of fewer.
LEMMA KeptGrows ==
    ASSUME NEW S, NEW s \in Seq(S), NEW D,
           NEW K \in [0 .. Len(s) -> Seq(S)], IsKept(s, D, K)
    PROVE  Grows(K, Len(s))
<1> DEFINE n == Len(s)
<1>0. SUFFICES ASSUME NEW q \in 0 .. n, NEW m \in 0 .. n, m <= q
               PROVE  /\ Len(K[m]) <= Len(K[q]) /\ Len(K[q]) - Len(K[m]) <= q - m
                      /\ \A i \in 1 .. Len(K[m]) : K[q][i] = K[m][i]
  BY DEF Grows
<1> DEFINE P(k) == /\ Len(K[m]) <= Len(K[k]) /\ Len(K[k]) - Len(K[m]) <= k - m
                   /\ \A i \in 1 .. Len(K[m]) : K[k][i] = K[m][i]
           G == {k \in m .. n : P(k)}
<1>1. m \in G
  OBVIOUS
<1>2. ASSUME NEW k \in m + 1 .. n, k - 1 \in G
      PROVE  k \in G
  <2>1. K[k] = IF s[k] \in D THEN K[k - 1] ELSE Append(K[k - 1], s[k])
    BY DEF IsKept
  <2>2. K[k - 1] \in Seq(S) /\ K[m] \in Seq(S) /\ s[k] \in S
    <3>1. n \in Nat /\ k - 1 \in 0 .. n /\ k \in 1 .. n
      OBVIOUS
    <3> QED
      BY <3>1
  <2>3. CASE s[k] \in D
    BY <1>2, <2>1, <2>3
  <2>4. CASE s[k] \notin D
    <3>1. /\ Len(K[k]) = Len(K[k - 1]) + 1
          /\ \A i \in 1 .. Len(K[k - 1]) : K[k][i] = K[k - 1][i]
      BY <2>1, <2>2, <2>4
    <3>2. /\ Len(K[m]) <= Len(K[k - 1]) /\ Len(K[k - 1]) - Len(K[m]) <= k - 1 - m
          /\ \A i \in 1 .. Len(K[m]) : K[k - 1][i] = K[m][i]
      BY <1>2
    <3>3. Len(K[k - 1]) \in Nat /\ Len(K[m]) \in Nat
      BY <2>2
    <3>4. \A i \in 1 .. Len(K[m]) : K[k][i] = K[m][i]
      BY <3>1, <3>2, <3>3
    <3>5. Len(K[m]) <= Len(K[k]) /\ Len(K[k]) - Len(K[m]) <= k - m
      BY <3>1, <3>2, <3>3
    <3> QED
      BY <3>4, <3>5
  <2> QED
    BY <2>3, <2>4
<1> HIDE DEF P
<1>3. m .. n \subseteq G
  <2>1. n \in Nat /\ m \in 0 .. n /\ \A k \in m + 1 .. n : k - 1 \in G => k \in G
    BY <1>2
  <2> HIDE DEF G
  <2> QED
    BY <1>1, <2>1, Upwards
<1>4. q \in m .. n
  BY <1>0
<1>5. P(q)
  BY <1>3, <1>4
<1> QED
  BY <1>5 DEF P

\* The literal segments of a glob are what is left of it.
LEMMA LiteralsAre ==
    ASSUME NEW S, NEW g \in Seq(S)
    PROVE  \E K \in [0 .. Len(g) -> Seq(S)] :
              IsKept(g, Wild, K) /\ LiteralSegments(g) = K[Len(g)]
<1> DEFINE IsRun(f) == f = [n \in 0 .. Len(g) |->
                              IF n = 0 THEN <<>>
                              ELSE IF g[n] \in Wild THEN f[n - 1] ELSE Append(f[n - 1], g[n])]
           W == CHOOSE f : IsRun(f)
<1>1. LiteralSegments(g) = W[Len(g)]
  BY DEF LiteralSegments
<1>2. PICK K \in [0 .. Len(g) -> Seq(S \ Wild)] : IsKept(g, Wild, K)
  BY KeptExists
<1>3. IsRun(K)
  <2>1. ASSUME NEW n \in 0 .. Len(g)
        PROVE  K[n] = IF n = 0 THEN <<>>
                      ELSE IF g[n] \in Wild THEN K[n - 1] ELSE Append(K[n - 1], g[n])
    <3>1. CASE n = 0
      BY <1>2, <3>1 DEF IsKept
    <3>2. CASE n # 0
      <4>1. n \in 1 .. Len(g)
        BY <3>2
      <4> QED
        BY <1>2, <3>2, <4>1 DEF IsKept
    <3> QED
      BY <3>1, <3>2
  <2> QED
    BY <2>1
<1> HIDE DEF IsRun
<1>4. IsRun(W)
  BY <1>3
<1> HIDE DEF W
<1>5. IsKept(g, Wild, W) /\ W = [n \in 0 .. Len(g) |-> W[n]]
  <2>1. W = [n \in 0 .. Len(g) |->
                IF n = 0 THEN <<>>
                ELSE IF g[n] \in Wild THEN W[n - 1] ELSE Append(W[n - 1], g[n])]
    BY <1>4 DEF IsRun
  <2>2. \A n \in 0 .. Len(g) :
            W[n] = IF n = 0 THEN <<>>
                   ELSE IF g[n] \in Wild THEN W[n - 1] ELSE Append(W[n - 1], g[n])
    BY <2>1
  <2>3. Len(g) \in Nat
    OBVIOUS
  <2>4. W[0] = <<>>
    BY <2>2, <2>3
  <2>5. \A n \in 1 .. Len(g) :
            W[n] = IF g[n] \in Wild THEN W[n - 1] ELSE Append(W[n - 1], g[n])
    BY <2>2, <2>3
  <2> QED
    BY <2>1, <2>4, <2>5 DEF IsKept
<1> DEFINE G == {n \in 0 .. Len(g) : W[n] \in Seq(S)}
<1>6. 0 .. Len(g) \subseteq G
  <2>1. 0 \in G /\ Len(g) \in Nat /\ 0 \in 0 .. Len(g)
    <3>1. W[0] = <<>>
      BY <1>5 DEF IsKept
    <3>2. W[0] \in Seq(S) /\ Len(g) \in Nat
      BY <3>1
    <3> QED
      BY <3>2
  <2>2. ASSUME NEW n \in 0 + 1 .. Len(g), n - 1 \in G PROVE n \in G
    <3>0. n \in 1 .. Len(g)
      OBVIOUS
    <3>1. W[n] = IF g[n] \in Wild THEN W[n - 1] ELSE Append(W[n - 1], g[n])
      BY <1>5, <3>0 DEF IsKept
    <3>2. W[n - 1] \in Seq(S) /\ g[n] \in S
      BY <2>2
    <3>3. W[n] \in Seq(S)
      BY <3>1, <3>2
    <3> QED
      BY <3>3
  <2> HIDE DEF G
  <2> QED
    BY <2>1, <2>2, Upwards
<1>7. W \in [0 .. Len(g) -> Seq(S)]
  <2>1. \A n \in 0 .. Len(g) : W[n] \in Seq(S)
    BY <1>6
  <2> QED
    BY <1>5, <2>1
<1> QED
  BY <1>1, <1>5, <1>7

\* F[n] is how much of sub a greedy search has found in the first n of seq.
IsFound(sub, seq, F) ==
    /\ F[0] = 0
    /\ \A n \in 1 .. Len(seq) :
          F[n] = IF F[n - 1] < Len(sub) /\ seq[n] = sub[F[n - 1] + 1]
                 THEN F[n - 1] + 1 ELSE F[n - 1]

LEMMA FoundIs ==
    ASSUME NEW S, NEW sub \in Seq(S), NEW seq \in Seq(S)
    PROVE  \E F \in [0 .. Len(seq) -> 0 .. Len(sub)] :
              /\ IsFound(sub, seq, F)
              /\ OrderedSubsequence(sub, seq) <=> F[Len(seq)] = Len(sub)
<1> DEFINE T == 0 .. Len(sub)
           N == Len(seq)
           step == [n \in 1 .. N |->
                       [k \in T |-> IF k < Len(sub) /\ seq[n] = sub[k + 1] THEN k + 1 ELSE k]]
           IsRun(f) == f = [n \in 0 .. Len(seq) |->
                              IF n = 0 THEN 0
                              ELSE IF f[n - 1] < Len(sub) /\ seq[n] = sub[f[n - 1] + 1]
                              THEN f[n - 1] + 1 ELSE f[n - 1]]
           W == CHOOSE f : IsRun(f)
<1>1. OrderedSubsequence(sub, seq) <=> W[Len(seq)] = Len(sub)
  BY DEF OrderedSubsequence
<1>2. PICK F \in [0 .. N -> T] : F[0] = 0 /\ \A n \in 1 .. N : F[n] = step[n][F[n - 1]]
  <2>1. 0 \in T /\ N \in Nat /\ step \in [1 .. N -> [T -> T]]
    OBVIOUS
  <2> HIDE DEF T, N, step
  <2>2. PICK F \in Runs(T, 0, N, step) : TRUE
    BY <2>1, LoopRuns
  <2> QED
    BY <2>2 DEF Runs
<1>3. \A n \in 1 .. N : F[n - 1] \in T
  BY <1>2
<1>4. IsRun(F)
  <2>1. ASSUME NEW n \in 1 .. N
        PROVE  F[n] = IF F[n - 1] < Len(sub) /\ seq[n] = sub[F[n - 1] + 1]
                      THEN F[n - 1] + 1 ELSE F[n - 1]
    <3> DEFINE k == F[n - 1]
    <3>1. k \in T /\ F[n] = step[n][k]
      BY <1>2, <1>3
    <3>2. step[n][k] = IF k < Len(sub) /\ seq[n] = sub[k + 1] THEN k + 1 ELSE k
      BY <3>1
    <3> QED
      BY <3>1, <3>2
  <2> QED
    BY <1>2, <2>1
<1> HIDE DEF IsRun
<1>5. IsRun(W)
  BY <1>4
<1> HIDE DEF W
<1>6. IsFound(sub, seq, W) /\ W = [n \in 0 .. Len(seq) |-> W[n]]
  <2>1. W = [n \in 0 .. Len(seq) |->
                IF n = 0 THEN 0
                ELSE IF W[n - 1] < Len(sub) /\ seq[n] = sub[W[n - 1] + 1]
                THEN W[n - 1] + 1 ELSE W[n - 1]]
    BY <1>5 DEF IsRun
  <2>2. \A n \in 0 .. Len(seq) :
            W[n] = IF n = 0 THEN 0
                   ELSE IF W[n - 1] < Len(sub) /\ seq[n] = sub[W[n - 1] + 1]
                   THEN W[n - 1] + 1 ELSE W[n - 1]
    BY <2>1
  <2>3. Len(seq) \in Nat
    OBVIOUS
  <2>4. W[0] = 0
    BY <2>2, <2>3
  <2>5. \A n \in 1 .. Len(seq) :
            W[n] = IF W[n - 1] < Len(sub) /\ seq[n] = sub[W[n - 1] + 1]
                   THEN W[n - 1] + 1 ELSE W[n - 1]
    BY <2>2, <2>3
  <2> QED
    BY <2>1, <2>4, <2>5 DEF IsFound
<1> DEFINE G == {n \in 0 .. Len(seq) : W[n] \in T}
<1>7. 0 .. Len(seq) \subseteq G
  <2>1. 0 \in G /\ Len(seq) \in Nat /\ 0 \in 0 .. Len(seq)
    BY <1>6 DEF IsFound
  <2>2. ASSUME NEW n \in 0 + 1 .. Len(seq), n - 1 \in G PROVE n \in G
    <3>0. n \in 1 .. Len(seq)
      OBVIOUS
    <3>1. W[n] = IF W[n - 1] < Len(sub) /\ seq[n] = sub[W[n - 1] + 1]
                 THEN W[n - 1] + 1 ELSE W[n - 1]
      BY <1>6, <3>0 DEF IsFound
    <3>2. W[n - 1] \in 0 .. Len(sub)
      BY <2>2
    <3>3. W[n] \in 0 .. Len(sub)
      BY <3>1, <3>2
    <3> QED
      BY <3>3
  <2> HIDE DEF G
  <2> QED
    BY <2>1, <2>2, Upwards
<1>8. W \in [0 .. Len(seq) -> 0 .. Len(sub)]
  <2>1. \A n \in 0 .. Len(seq) : W[n] \in 0 .. Len(sub)
    BY <1>7
  <2> QED
    BY <1>6, <2>1
<1> QED
  BY <1>1, <1>6, <1>8

\* K[n] is a path that the first n segments of g match: a name no glob has for
\* every wildcard, and nothing for "**".
IsFilled(g, K) ==
    /\ K[0] = <<>>
    /\ \A n \in 1 .. Len(g) :
          K[n] = IF g[n] = Rest THEN K[n - 1]
                 ELSE Append(K[n - 1], IF g[n] = One THEN Other ELSE g[n])

LEMMA FilledExists ==
    ASSUME NEW g \in Globs
    PROVE  \E K \in [0 .. Len(g) -> Seq(Names)] :
              IsFilled(g, K) /\ Grows(K, Len(g))
<1> DEFINE S == Names \cup {Rest}
           s == [n \in 1 .. Len(g) |-> IF g[n] = One THEN Other ELSE g[n]]
<1>1. g \in Seq(GlobNames \cup Wild)
  BY GlobIsSeq
<1>2. One # Rest /\ Rest \notin Names /\ Other # Rest
  BY GlobAssumption DEF GlobAssumption, Names
<1>3. s \in Seq(S) /\ Len(s) = Len(g)
  <2>1. s \in [1 .. Len(g) -> S]
    BY <1>1 DEF Names, Wild
  <2>2. Len(g) \in Nat
    BY <1>1
  <2> QED
    BY <2>1, <2>2
<1>4. \A n \in 1 .. Len(g) : s[n] = IF g[n] = One THEN Other ELSE g[n]
  OBVIOUS
<1> HIDE DEF s
<1>5. PICK K \in [0 .. Len(s) -> Seq(S \ {Rest})] : IsKept(s, {Rest}, K)
  <2> HIDE DEF S
  <2> QED
    BY <1>3, KeptExists
<1>6. S \ {Rest} = Names
  BY <1>2
<1>7. K \in [0 .. Len(g) -> Seq(Names)] /\ IsFilled(g, K)
  <2>1. \A n \in 1 .. Len(g) : s[n] \in {Rest} <=> g[n] = Rest
    BY <1>2, <1>4
  <2> QED
    BY <1>2, <1>3, <1>4, <1>5, <1>6, <2>1 DEF IsKept, IsFilled
<1>8. K \in [0 .. Len(s) -> Seq(S)]
  <2>1. Seq(Names) \subseteq Seq(S)
    OBVIOUS
  <2> QED
    BY <1>3, <1>7, <2>1
<1>9. Grows(K, Len(s))
  <2> HIDE DEF S
  <2> QED
    BY <1>3, <1>5, <1>8, KeptGrows
<1> QED
  BY <1>3, <1>7, <1>9

\* A glob with a literal segment matches the path it is filled to.
LEMMA FilledMatches ==
    ASSUME NEW g \in Globs, NEW K \in [0 .. Len(g) -> Seq(Names)], IsFilled(g, K),
           Grows(K, Len(g)),
           NEW j \in 1 .. Len(g), g[j] \notin Wild
    PROVE  K[Len(g)] \in Paths /\ Matches(K[Len(g)], g)
<1> DEFINE p == K[Len(g)]
           cut == [n \in 0 .. Len(g) |-> Len(K[n])]
<1>1. /\ g \in Seq(GlobNames \cup Wild) /\ DOMAIN g = 1 .. Len(g)
      /\ Len(g) \in Nat /\ Len(g) \in 0 .. MaxSegments /\ MaxSegments \in Nat
  BY GlobIsSeq, GlobAssumption DEF GlobAssumption
<1>2. p \in Seq(Names) /\ Len(p) \in Nat
  BY <1>1
<1>10. ASSUME NEW n \in 0 .. Len(g)
      PROVE  /\ Len(K[n]) <= Len(K[Len(g)]) /\ Len(K[Len(g)]) - Len(K[n]) <= Len(g) - n
             /\ \A i \in 1 .. Len(K[n]) : K[Len(g)][i] = K[n][i]
  <2>1. Len(g) \in 0 .. Len(g) /\ n <= Len(g)
    BY <1>1
  <2> QED
    BY <2>1 DEF Grows
<1>3. \A n \in 0 .. Len(g) : Len(K[n]) \in Nat /\ Len(K[n]) <= Len(p)
  <2>1. ASSUME NEW n \in 0 .. Len(g) PROVE Len(K[n]) \in Nat
    <3>1. K[n] \in Seq(Names)
      OBVIOUS
    <3> QED
      BY <3>1
  <2> QED
    BY <1>10, <2>1
<1>4. Len(p) \in 1 .. MaxSegments
  <2>1. K[j] = Append(K[j - 1], g[j])
    BY DEF IsFilled, Wild
  <2>2. Len(K[j]) = Len(K[j - 1]) + 1
    BY <1>1, <2>1
  <2>3. Len(K[j - 1]) \in Nat /\ Len(K[j]) <= Len(p)
    BY <1>1, <1>3
  <2>4. Len(K[0]) = 0 /\ 0 \in 0 .. Len(g) /\ Len(g) \in 0 .. Len(g)
    BY <1>1 DEF IsFilled
  <2>5. Len(p) - Len(K[0]) <= Len(g) - 0
    BY <1>10, <2>4
  <2> HIDE DEF p
  <2> QED
    BY <1>1, <1>2, <2>2, <2>3, <2>4, <2>5
<1>5. p \in Paths
  <2>1. p \in [1 .. Len(p) -> Names]
    BY <1>2
  <2> HIDE DEF p
  <2> QED
    BY <1>4, <2>1 DEF Paths, Strings
<1>6. cut \in [0 .. Len(g) -> 0 .. Len(p)]
  BY <1>3
<1>7. cut[0] = 0 /\ cut[Len(g)] = Len(p)
  BY <1>1 DEF IsFilled
<1>8. ASSUME NEW i \in 1 .. Len(g)
      PROVE  IF g[i] = Rest THEN cut[i - 1] <= cut[i]
             ELSE /\ cut[i] = cut[i - 1] + 1
                  /\ g[i] = One \/ p[cut[i]] = g[i]
  <2>1. i - 1 \in 0 .. Len(g) /\ i \in 0 .. Len(g) /\ cut[i] = Len(K[i]) /\ cut[i - 1] = Len(K[i - 1])
    BY <1>1
  <2>2. K[i] = IF g[i] = Rest THEN K[i - 1]
               ELSE Append(K[i - 1], IF g[i] = One THEN Other ELSE g[i])
    BY DEF IsFilled
  <2>3. K[i - 1] \in Seq(Names) /\ K[i] \in Seq(Names)
    BY <2>1
  <2>4. CASE g[i] = Rest
    BY <2>1, <2>2, <2>3, <2>4
  <2>5. CASE g[i] # Rest
    <3>1. /\ Len(K[i]) = Len(K[i - 1]) + 1
          /\ K[i][Len(K[i])] = IF g[i] = One THEN Other ELSE g[i]
      BY <2>2, <2>3, <2>5
    <3>2. p[Len(K[i])] = K[i][Len(K[i])]
      <4>1. Len(K[i]) \in 1 .. Len(K[i])
        BY <2>3, <3>1
      <4> QED
        BY <1>10, <2>1, <4>1
    <3> QED
      BY <2>1, <2>5, <3>1, <3>2
  <2> QED
    BY <2>4, <2>5
<1> HIDE DEF p, cut
<1>9. Matches(p, g)
  BY <1>1, <1>6, <1>7, <1>8 DEF Matches
<1> QED
  BY <1>5, <1>9 DEF p

\* A glob of wildcards has no literal segments.
LEMMA WildIsNotLiteral ==
    ASSUME NEW g \in Globs, \A i \in 1 .. Len(g) : g[i] \in Wild
    PROVE  LiteralSegments(g) = <<>>
<1>1. g \in Seq(GlobNames \cup Wild) /\ Len(g) \in Nat
  BY GlobIsSeq
<1>2. PICK U \in [0 .. Len(g) -> Seq(GlobNames \cup Wild)] :
           IsKept(g, Wild, U) /\ LiteralSegments(g) = U[Len(g)]
  BY <1>1, LiteralsAre
<1> DEFINE G == {n \in 0 .. Len(g) : U[n] = <<>>}
<1>3. 0 .. Len(g) \subseteq G
  <2>1. 0 \in G /\ 0 \in 0 .. Len(g)
    BY <1>1, <1>2 DEF IsKept
  <2>2. ASSUME NEW n \in 0 + 1 .. Len(g), n - 1 \in G PROVE n \in G
    <3>1. n \in 1 .. Len(g) /\ U[n - 1] = <<>>
      BY <2>2
    <3> QED
      BY <1>2, <3>1 DEF IsKept
  <2> HIDE DEF G
  <2> QED
    BY <1>1, <2>1, <2>2, Upwards
<1> QED
  BY <1>1, <1>2, <1>3

\* Nothing is found in everything.
LEMMA NothingIsFound ==
    ASSUME NEW S, NEW seq \in Seq(S)
    PROVE  OrderedSubsequence(<<>>, seq)
<1>1. <<>> \in Seq(S) /\ Len(<<>>) = 0 /\ Len(seq) \in Nat
  OBVIOUS
<1>2. PICK F \in [0 .. Len(seq) -> 0 .. Len(<<>>)] :
           OrderedSubsequence(<<>>, seq) <=> F[Len(seq)] = Len(<<>>)
  BY <1>1, FoundIs
<1> QED
  BY <1>1, <1>2

\* How the segments of glob share out path: what Matches asks of the cuts.
IsCut(path, glob, cut) ==
    /\ cut[0] = 0
    /\ cut[Len(glob)] = Len(path)
    /\ \A i \in 1 .. Len(glob) :
          IF glob[i] = Rest THEN cut[i - 1] <= cut[i]
          ELSE /\ cut[i] = cut[i - 1] + 1
               /\ glob[i] = One \/ path[cut[i]] = glob[i]

\* What grows by n is as long there as before, and goes on with it.
LEMMA GrowsOn ==
    ASSUME NEW n \in Nat, NEW K, Grows(K, n), NEW m \in 0 .. n
    PROVE  Len(K[m]) <= Len(K[n]) /\ \A i \in 1 .. Len(K[m]) : K[n][i] = K[m][i]
<1>1. n \in 0 .. n /\ m <= n
  OBVIOUS
<1> QED
  BY <1>1 DEF Grows

\* The literals of b come in order in a filled path of a, and only where a has
\* them too: by the time the cuts of b have come as far as the first j segments
\* of a fill, the search has found as many literals of b among those of a.
LEMMA SearchKeepsUp ==
    ASSUME NEW a \in Globs, NEW b \in Globs,
           NEW K \in [0 .. Len(a) -> Seq(Names)], IsFilled(a, K), Grows(K, Len(a)),
           NEW U \in [0 .. Len(a) -> Seq(GlobNames \cup Wild)],
           IsKept(a, Wild, U), Grows(U, Len(a)),
           NEW V \in [0 .. Len(b) -> Seq(GlobNames \cup Wild)],
           IsKept(b, Wild, V), Grows(V, Len(b)),
           NEW cut \in [0 .. Len(b) -> Nat], IsCut(K[Len(a)], b, cut),
           NEW F \in [0 .. Len(U[Len(a)]) -> 0 .. Len(V[Len(b)])],
           IsFound(V[Len(b)], U[Len(a)], F)
    PROVE  F[Len(U[Len(a)])] = Len(V[Len(b)])
<1> DEFINE seq == U[Len(a)]
           sub == V[Len(b)]
           Keeps(i, j) == cut[i] <= Len(K[j]) => Len(V[i]) <= F[Len(U[j])]
           H == {j \in 0 .. Len(a) : \A i \in 0 .. Len(b) : Keeps(i, j)}
<1>1. /\ a \in Seq(GlobNames \cup Wild) /\ Len(a) \in Nat
      /\ b \in Seq(GlobNames \cup Wild) /\ Len(b) \in Nat
  BY GlobIsSeq
<1>2. Other \notin GlobNames \cup Wild
  BY GlobAssumption DEF GlobAssumption, Wild
<1>3. ASSUME NEW j \in 0 .. Len(a)
      PROVE  /\ U[j] \in Seq(GlobNames \cup Wild) /\ Len(U[j]) \in Nat
             /\ K[j] \in Seq(Names) /\ Len(K[j]) \in Nat
             /\ Len(U[j]) \in 0 .. Len(seq)
             /\ F[Len(U[j])] \in 0 .. Len(sub)
             /\ \A n \in 1 .. Len(U[j]) : seq[n] = U[j][n]
             /\ \A n \in 1 .. Len(K[j]) : K[Len(a)][n] = K[j][n]
  <2>1. U[j] \in Seq(GlobNames \cup Wild) /\ K[j] \in Seq(Names)
        /\ seq \in Seq(GlobNames \cup Wild)
    <3>1. Len(a) \in 0 .. Len(a)
      BY <1>1
    <3> QED
      BY <3>1
  <2>2. Len(U[j]) \in Nat /\ Len(K[j]) \in Nat /\ Len(seq) \in Nat
    BY <2>1
  <2>3. Len(U[j]) <= Len(seq) /\ \A n \in 1 .. Len(U[j]) : seq[n] = U[j][n]
    <3>1. Len(a) \in Nat /\ Grows(U, Len(a)) /\ j \in 0 .. Len(a)
      BY <1>1
    <3> QED
      BY ONLY <3>1, GrowsOn DEF seq
  <2>4. Len(K[j]) <= Len(K[Len(a)]) /\ \A n \in 1 .. Len(K[j]) : K[Len(a)][n] = K[j][n]
    <3>1. Len(a) \in Nat /\ Grows(K, Len(a)) /\ j \in 0 .. Len(a)
      BY <1>1
    <3> QED
      BY ONLY <3>1, GrowsOn
  <2>5. Len(U[j]) \in 0 .. Len(seq)
    BY <2>2, <2>3
  <2> QED
    BY <2>1, <2>2, <2>3, <2>4, <2>5
<1>4. ASSUME NEW i \in 0 .. Len(b)
      PROVE  /\ V[i] \in Seq(GlobNames \cup Wild) /\ Len(V[i]) \in Nat
             /\ Len(V[i]) <= Len(sub) /\ cut[i] \in Nat
             /\ \A n \in 1 .. Len(V[i]) : sub[n] = V[i][n]
  <2>1. Len(V[i]) <= Len(sub) /\ \A n \in 1 .. Len(V[i]) : sub[n] = V[i][n]
    <3>1. Len(b) \in Nat /\ Grows(V, Len(b)) /\ i \in 0 .. Len(b)
      BY <1>1
    <3> QED
      BY ONLY <3>1, GrowsOn DEF sub
  <2>2. V[i] \in Seq(GlobNames \cup Wild) /\ cut[i] \in Nat
    OBVIOUS
  <2> QED
    BY <2>1, <2>2
<1>5. ASSUME NEW j \in 1 .. Len(a), j - 1 \in H, NEW i \in 1 .. Len(b),
             b[i] \notin Wild, cut[i] <= Len(K[j])
      PROVE  Len(V[i]) <= F[Len(U[j])]
  <2>1. i - 1 \in 0 .. Len(b) /\ i \in 0 .. Len(b) /\ j - 1 \in 0 .. Len(a) /\ j \in 0 .. Len(a)
    BY <1>1
  <2>2. cut[i] = cut[i - 1] + 1 /\ K[Len(a)][cut[i]] = b[i]
    BY <1>5 DEF IsCut, Wild
  <2>3. V[i] = Append(V[i - 1], b[i])
    BY <1>5 DEF IsKept
  <2>4. Keeps(i, j - 1) /\ Keeps(i - 1, j - 1)
    BY <1>5, <2>1
  <2>5. U[j] = IF a[j] \in Wild THEN U[j - 1] ELSE Append(U[j - 1], a[j])
    BY DEF IsKept
  <2>6. K[j] = IF a[j] = Rest THEN K[j - 1]
               ELSE Append(K[j - 1], IF a[j] = One THEN Other ELSE a[j])
    BY DEF IsFilled
  <2> DEFINE f == F[Len(U[j - 1])]
             n == Len(U[j])
             u == Len(V[i - 1])
  <2>7. a[j] \notin Wild => /\ n \in 1 .. Len(seq) /\ n - 1 = Len(U[j - 1])
                            /\ seq[n] = a[j]
    <3> SUFFICES ASSUME a[j] \notin Wild
                 PROVE  n \in 1 .. Len(seq) /\ n - 1 = Len(U[j - 1]) /\ seq[n] = a[j]
      OBVIOUS
    <3>1. U[j - 1] \in Seq(GlobNames \cup Wild)
      BY <1>3, <2>1
    <3>5. a[j] \in GlobNames \cup Wild
      BY <1>1
    <3>2. n = Len(U[j - 1]) + 1 /\ U[j][n] = a[j]
      BY <2>5, <3>1, <3>5
    <3>3. Len(U[j - 1]) \in Nat /\ n \in 0 .. Len(seq) /\ \A k \in 1 .. n : seq[k] = U[j][k]
      BY <1>3, <2>1
    <3>4. n \in 1 .. Len(seq) /\ n \in 1 .. n /\ n - 1 = Len(U[j - 1])
      <4>1. Len(seq) \in Nat
        BY <1>1
      <4> HIDE DEF n, seq
      <4> QED
        BY <3>2, <3>3, <4>1
    <3> QED
      BY <3>2, <3>3, <3>4
  <2>8. a[j] \notin Wild => F[n] = IF f < Len(sub) /\ a[j] = sub[f + 1] THEN f + 1 ELSE f
    BY <2>7 DEF IsFound
  <2>9. a[j] \in Wild => F[n] = f
    BY <2>5
  <2>10. f \in Nat /\ F[n] \in Nat /\ u \in Nat /\ Len(sub) \in Nat
    <3>1. Len(sub) \in Nat
      BY <1>1
    <3>2. f \in 0 .. Len(sub) /\ F[n] \in 0 .. Len(sub) /\ u \in Nat
      BY <1>3, <1>4, <2>1
    <3> HIDE DEF f, n, u, sub
    <3> QED
      BY <3>1, <3>2
  <2>11. Len(V[i]) = u + 1 /\ sub[u + 1] = b[i] /\ u + 1 <= Len(sub)
    <3>1. V[i - 1] \in Seq(GlobNames \cup Wild)
      BY <1>4, <2>1
    <3>4. b[i] \in GlobNames \cup Wild
      BY <1>1
    <3>2. Len(V[i]) = u + 1 /\ V[i][u + 1] = b[i]
      BY <2>3, <3>1, <3>4
    <3>3. u + 1 \in 1 .. Len(V[i])
      BY <2>10, <3>2
    <3> QED
      BY <1>4, <2>1, <3>2, <3>3
  <2>12. CASE cut[i] <= Len(K[j - 1])
    <3>1. Len(V[i]) <= f
      BY <2>4, <2>12
    <3>2. f <= F[n]
      <4> HIDE DEF f, n, sub
      <4> QED
        BY <2>8, <2>9, <2>10
    <3>3. Len(V[i]) \in Nat
      BY <2>10, <2>11
    <3> HIDE DEF f
    <3> QED
      BY <2>10, <3>1, <3>2, <3>3
  <2>13. CASE ~(cut[i] <= Len(K[j - 1]))
    <3>1. /\ Len(K[j - 1]) \in Nat /\ Len(K[j]) \in Nat /\ cut[i] \in Nat /\ cut[i - 1] \in Nat
          /\ K[j - 1] \in Seq(Names)
      BY <1>3, <1>4, <2>1
    <3>2. a[j] # Rest
      BY <1>5, <2>6, <2>13
    <3>3. /\ Len(K[j]) = Len(K[j - 1]) + 1
          /\ K[j][Len(K[j])] = IF a[j] = One THEN Other ELSE a[j]
      <4> DEFINE name == IF a[j] = One THEN Other ELSE a[j]
      <4>1. K[j] = Append(K[j - 1], name)
        BY <2>6, <3>2
      <4> HIDE DEF name
      <4>2. Len(K[j]) = Len(K[j - 1]) + 1 /\ K[j][Len(K[j])] = name
        BY <3>1, <4>1
      <4> QED
        BY <4>2 DEF name
    <3>4. cut[i] = Len(K[j]) /\ cut[i - 1] = Len(K[j - 1]) /\ cut[i] \in 1 .. Len(K[j])
      BY <1>5, <2>2, <2>13, <3>1, <3>3
    <3>5. K[Len(a)][cut[i]] = K[j][cut[i]]
      BY <1>3, <2>1, <3>4
    <3>6. b[i] = IF a[j] = One THEN Other ELSE a[j]
      BY <2>2, <3>3, <3>4, <3>5
    <3>7. b[i] # Other
      BY <1>1, <1>2
    <3>8. a[j] = b[i] /\ a[j] \notin Wild
      BY <1>5, <3>6, <3>7
    <3>9. u <= f
      <4>1. cut[i - 1] <= Len(K[j - 1])
        BY <3>1, <3>4
      <4> QED
        BY <2>4, <4>1
    <3>10. F[n] = IF f < Len(sub) /\ b[i] = sub[f + 1] THEN f + 1 ELSE f
      BY <2>8, <3>8
    <3>11. u + 1 <= F[n]
      <4> HIDE DEF f, n, u, sub
      <4>1. CASE u < f
        BY <2>10, <3>10, <4>1
      <4>2. CASE u = f
        BY <2>10, <2>11, <3>10, <4>2
      <4> QED
        BY <2>10, <3>9, <4>1, <4>2
    <3> QED
      BY <2>11, <3>11
  <2> QED
    BY <2>12, <2>13
<1>6. ASSUME NEW j \in 0 .. Len(a), j # 0 => j - 1 \in H
      PROVE  j \in H
  <2> DEFINE I == {i \in 0 .. Len(b) : Keeps(i, j)}
  <2>1. 0 \in I
    <3>1. V[0] = <<>> /\ Len(V[0]) = 0 /\ 0 \in 0 .. Len(b)
      BY <1>1 DEF IsKept
    <3>2. F[Len(U[j])] \in 0 .. Len(sub)
      BY <1>3
    <3> QED
      BY <3>1, <3>2
  <2>2. ASSUME NEW i \in 0 + 1 .. Len(b), i - 1 \in I PROVE i \in I
    <3>1. i \in 1 .. Len(b) /\ i \in 0 .. Len(b) /\ i - 1 \in 0 .. Len(b)
      BY <1>1
    <3>2. cut[i - 1] \in Nat /\ cut[i] \in Nat /\ Len(K[j]) \in Nat
      BY <1>3, <1>4, <3>1
    <3>3. ASSUME cut[i] <= Len(K[j]) PROVE Len(V[i]) <= F[Len(U[j])]
      <4>1. CASE b[i] \in Wild
        <5>1. cut[i - 1] <= cut[i]
          <6>1. IF b[i] = Rest THEN cut[i - 1] <= cut[i] ELSE cut[i] = cut[i - 1] + 1
            BY <3>1 DEF IsCut
          <6> QED
            BY <3>2, <6>1
        <5>2. V[i] = V[i - 1]
          BY <3>1, <4>1 DEF IsKept
        <5>3. cut[i - 1] <= Len(K[j])
          BY <3>2, <3>3, <5>1
        <5> QED
          BY <2>2, <5>2, <5>3
      <4>2. CASE b[i] \notin Wild
        <5>1. j # 0
          <6>1. cut[i] = cut[i - 1] + 1
            BY <3>1, <4>2 DEF IsCut, Wild
          <6>2. Len(K[0]) = 0
            BY DEF IsFilled
          <6> QED
            BY <3>2, <3>3, <6>1, <6>2
        <5>2. j \in 1 .. Len(a) /\ j - 1 \in H
          BY <1>6, <5>1
        <5> HIDE DEF H
        <5> QED
          BY <1>5, <3>1, <3>3, <4>2, <5>2
      <4> QED
        BY <4>1, <4>2
    <3> QED
      BY <3>1, <3>3
  <2>3. 0 .. Len(b) \subseteq I
    <3>1. 0 \in 0 .. Len(b)
      BY <1>1
    <3> HIDE DEF I
    <3> QED
      BY <1>1, <2>1, <2>2, <3>1, Upwards
  <2> QED
    BY <2>3
<1>7. 0 .. Len(a) \subseteq H
  <2>1. 0 \in 0 .. Len(a) /\ 0 \in H
    BY <1>1, <1>6
  <2>2. ASSUME NEW j \in 0 + 1 .. Len(a), j - 1 \in H PROVE j \in H
    <3>1. j \in 0 .. Len(a)
      BY <1>1
    <3> QED
      BY <1>6, <2>2, <3>1
  <2> HIDE DEF H
  <2> QED
    BY <1>1, <2>1, <2>2, Upwards
<1>8. Keeps(Len(b), Len(a)) /\ cut[Len(b)] = Len(K[Len(a)])
  <2>1. Len(a) \in 0 .. Len(a) /\ Len(b) \in 0 .. Len(b)
    BY <1>1
  <2>2. Keeps(Len(b), Len(a))
    BY <1>7, <2>1
  <2> QED
    BY <2>2 DEF IsCut
<1>9. Len(K[Len(a)]) \in Nat /\ Len(sub) \in Nat /\ F[Len(seq)] \in 0 .. Len(sub)
  <2>1. Len(a) \in 0 .. Len(a) /\ Len(b) \in 0 .. Len(b)
    BY <1>1
  <2> QED
    BY <1>3, <1>4, <2>1
<1> HIDE DEF seq, sub
<1>10. Len(sub) <= F[Len(seq)]
  BY <1>8, <1>9 DEF seq, sub
<1>11. F[Len(seq)] = Len(sub)
  BY <1>9, <1>10
<1> QED
  BY <1>11 DEF seq, sub

\* Of two globs, if one matches no path but those of the other, the search finds
\* the literals of one among those of the other.
LEMMA CoveredIsFound ==
    ASSUME NEW a \in Globs, NEW b \in Globs,
           \A p \in Paths : Matches(p, a) => Matches(p, b)
    PROVE  \/ OrderedSubsequence(LiteralSegments(a), LiteralSegments(b))
           \/ OrderedSubsequence(LiteralSegments(b), LiteralSegments(a))
<1> DEFINE S == GlobNames \cup Wild
<1>1. a \in Seq(S) /\ b \in Seq(S) /\ Len(a) \in Nat /\ Len(b) \in Nat
  BY GlobIsSeq
<1>2. PICK U \in [0 .. Len(a) -> Seq(S)] : IsKept(a, Wild, U) /\ LiteralSegments(a) = U[Len(a)]
  BY <1>1, LiteralsAre
<1>3. PICK V \in [0 .. Len(b) -> Seq(S)] : IsKept(b, Wild, V) /\ LiteralSegments(b) = V[Len(b)]
  BY <1>1, LiteralsAre
<1>4. U[Len(a)] \in Seq(S) /\ V[Len(b)] \in Seq(S)
  BY <1>1
<1>5. CASE \A i \in 1 .. Len(a) : a[i] \in Wild
  BY <1>3, <1>4, <1>5, WildIsNotLiteral, NothingIsFound
<1>6. CASE \E i \in 1 .. Len(a) : a[i] \notin Wild
  <2>1. PICK j \in 1 .. Len(a) : a[j] \notin Wild
    BY <1>6
  <2>2. PICK K \in [0 .. Len(a) -> Seq(Names)] : IsFilled(a, K) /\ Grows(K, Len(a))
    BY FilledExists
  <2>3. K[Len(a)] \in Paths /\ Matches(K[Len(a)], a)
    BY <2>1, <2>2, FilledMatches
  <2>4. Matches(K[Len(a)], b)
    BY <2>3
  <2>5. PICK cut \in [0 .. Len(b) -> 0 .. Len(K[Len(a)])] : IsCut(K[Len(a)], b, cut)
    <3>1. DOMAIN b = 1 .. Len(b)
      BY <1>1
    <3> QED
      BY <2>4, <3>1 DEF Matches, IsCut
  <2>6. cut \in [0 .. Len(b) -> Nat]
    BY <2>5
  <2>7. Grows(U, Len(a)) /\ Grows(V, Len(b))
    <3> HIDE DEF S
    <3> QED
      BY <1>1, <1>2, <1>3, KeptGrows
  <2>8. PICK F \in [0 .. Len(U[Len(a)]) -> 0 .. Len(V[Len(b)])] :
             /\ IsFound(V[Len(b)], U[Len(a)], F)
             /\ OrderedSubsequence(V[Len(b)], U[Len(a)]) <=> F[Len(U[Len(a)])] = Len(V[Len(b)])
    BY <1>4, FoundIs
  <2>9. F[Len(U[Len(a)])] = Len(V[Len(b)])
    BY <1>2, <1>3, <2>2, <2>5, <2>6, <2>7, <2>8, SearchKeepsUp
  <2> QED
    BY <1>2, <1>3, <2>8, <2>9
<1> QED
  BY <1>5, <1>6

\* SensitiveIsSeen, for every set of names, every bound on the segments and every
\* policy: a glob that lies in a sensitive area, or around one, never misses the
\* floor.
THEOREM SensitiveSeen == Spec => []SensitiveIsSeen
<1>1. ASSUME NEW g \in Globs, NEW s \in Sensitive, Covers(g, s) \/ Covers(s, g)
      PROVE  ScopeIntersectsGlob([paths |-> {g}, commands |-> {}], s)
  <2>1. s \in Globs
    BY ScopeWalkAssumption DEF ScopeWalkAssumption
  <2>2. GlobIntersects(g, s)
    BY <1>1, <2>1, CoveredIsFound DEF Covers, GlobIntersects
  <2> QED
    BY <2>2 DEF ScopeIntersectsGlob
<1>2. SensitiveIsSeen
  BY <1>1 DEF SensitiveIsSeen
<1> QED
  BY <1>2, PTL
=============================================================================

------------------------------- MODULE Globs -------------------------------
(***************************************************************************)
(* Path globs and command patterns: what they match, and the decisions the  *)
(* code takes on their text instead of on what they match                   *)
(* (src/internal/derive/scope.go and command.go).                           *)
(*                                                                          *)
(* A glob is a sequence of segments. A segment is a literal name, One (any  *)
(* segment with a wildcard, such as "*" or "*.go", which the matcher takes  *)
(* for any single name) or Rest ("**"). A path is a sequence of names. A    *)
(* command is a sequence of words, of which EnvWords are assignments        *)
(* (NAME=value); a pattern has fixed words and may end in a star.           *)
(***************************************************************************)
EXTENDS Naturals, Sequences, FiniteSets, SequencesExt

CONSTANTS GlobNames,  \* names that occur in globs
          Other,      \* a name that occurs in paths only
          One,        \* a wildcard for one segment
          Rest,       \* the segment "**"
          Words,      \* words that occur in patterns
          OtherWord,  \* a word that occurs in commands only
          EnvWords,   \* words of the form NAME=value
          MaxSegments, MaxWords  \* longest glob, longest pattern

GlobAssumption ==
    /\ One # Rest
    /\ {One, Rest} \cap (GlobNames \cup {Other}) = {}
    /\ Other \notin GlobNames
    /\ OtherWord \notin Words \cup EnvWords
    /\ EnvWords \subseteq Words
    /\ MaxSegments \in Nat \ {0}
    /\ MaxWords \in Nat
ASSUME GlobAssumption

Wild  == {One, Rest}
Names == GlobNames \cup {Other}

Strings(S, n, m) == UNION {[1 .. k -> S] : k \in n .. m}

Globs    == Strings(GlobNames \cup Wild, 0, MaxSegments)
Paths    == Strings(Names, 1, MaxSegments)
Patterns == [fixed : Strings(Words, 0, MaxWords), star : BOOLEAN]
Commands == Strings(Words \cup {OtherWord}, 0, MaxWords + 1)

\* A scope: path globs and command patterns.
ScopeType == [paths : SUBSET Globs, commands : SUBSET Patterns]

-----------------------------------------------------------------------------
(* Path globs *)

IsCatchAll(glob) == glob = <<Rest>>

\* Broken variant: only "**" is taken for broad.
IsBroadGlob_RestOnly(glob) == glob = <<>> \/ glob[1] = Rest

\* The first segment is a wildcard: paths of several top-level directories.
IsBroadGlob(glob) == glob = <<>> \/ glob[1] \in Wild

\* The leading segments that are literal, counted.
LiteralLength(glob) ==
    CHOOSE n \in 0 .. Len(glob) :
        /\ \A i \in 1 .. n : glob[i] \notin Wild
        /\ n < Len(glob) => glob[n + 1] \in Wild

\* s begins with the literal prefix of glob.
StartsWith(s, glob) ==
    /\ LiteralLength(glob) <= Len(s)
    /\ \A i \in 1 .. LiteralLength(glob) : s[i] = glob[i]

\* Broken variant: the inner glob has to be longer than the prefix.
GlobContains_Longer(outer, inner) ==
    \/ IsCatchAll(outer)
    \/ StartsWith(inner, outer) /\ LiteralLength(outer) < Len(inner)

\* outer is "**", or its literal prefix is one of inner.
GlobContains(outer, inner) == IsCatchAll(outer) \/ StartsWith(inner, outer)

\* The name at i fits the segment.
SegmentMatches(path, i, segment) ==
    i <= Len(path) /\ (segment \in Wild \/ path[i] = segment)

\* Broken variant: "**" stands for at least one segment.
PathMatchesGlob_RestIsSome(path, glob) ==
    \/ \E k \in DOMAIN glob :
          glob[k] = Rest /\ \A i \in 1 .. k : SegmentMatches(path, i, glob[i])
    \/ Len(path) = Len(glob) /\ \A i \in DOMAIN glob : SegmentMatches(path, i, glob[i])

\* The first "**" matches the rest, whatever follows it in the glob.
PathMatchesGlob(path, glob) ==
    \/ \E k \in DOMAIN glob :
          glob[k] = Rest /\ \A i \in 1 .. k - 1 : SegmentMatches(path, i, glob[i])
    \/ Len(path) = Len(glob) /\ \A i \in DOMAIN glob : SegmentMatches(path, i, glob[i])

\* The literal segments among the first n, for all of them.
LiteralSegments(glob) ==
    LET Kept[n \in 0 .. Len(glob)] ==
            IF n = 0 THEN <<>>
            ELSE IF glob[n] \in Wild THEN Kept[n - 1] ELSE Append(Kept[n - 1], glob[n])
    IN  Kept[Len(glob)]

\* Broken variant: the match restarts wherever it fails.
OrderedSubsequence_Contiguous(sub, seq) ==
    LET Advance(i, s) == IF i < Len(sub) /\ s = sub[i + 1] THEN i + 1
                         ELSE IF i = Len(sub) THEN i ELSE 0
    IN  FoldLeft(Advance, 0, seq) = Len(sub)

\* Greedy: Found[n] is how much of sub the first n of seq hold.
OrderedSubsequence(sub, seq) ==
    LET Found[n \in 0 .. Len(seq)] ==
            IF n = 0 THEN 0
            ELSE IF Found[n - 1] < Len(sub) /\ seq[n] = sub[Found[n - 1] + 1]
            THEN Found[n - 1] + 1 ELSE Found[n - 1]
    IN  Found[Len(seq)] = Len(sub)

GlobIntersects(a, b) ==
    \/ IsCatchAll(a) \/ IsCatchAll(b)
    \/ OrderedSubsequence(LiteralSegments(a), LiteralSegments(b))
    \/ OrderedSubsequence(LiteralSegments(b), LiteralSegments(a))

-----------------------------------------------------------------------------
(* Command patterns *)

\* Leading assignments are not part of the command.
Tokenize(command) ==
    LET n == CHOOSE n \in 0 .. Len(command) :
                 /\ \A i \in 1 .. n : command[i] \in EnvWords
                 /\ n < Len(command) => command[n + 1] \notin EnvWords
    IN  SubSeq(command, n + 1, Len(command))

\* A star stands for one or more words; a pattern of nothing else matches nothing.
MatchCommandPattern(pattern, command) ==
    LET tokens == Tokenize(command)
        fixed  == pattern.fixed
    IN  /\ fixed # <<>>
        /\ IF pattern.star THEN Len(tokens) > Len(fixed) ELSE Len(tokens) = Len(fixed)
        /\ \A i \in DOMAIN fixed : tokens[i] = fixed[i]

\* A bare program.
IsBroadPattern(pattern) == Len(pattern.fixed) <= 1

\* Broken variant: a star covers its own fixed words.
CommandContains_StarIsOptional(outer, inner) ==
    IF outer.star THEN IsPrefix(outer.fixed, inner.fixed) ELSE inner = outer

\* Without a star only itself; with one, every longer pattern that begins alike.
CommandContains(outer, inner) ==
    IF outer.star
    THEN /\ IsPrefix(outer.fixed, inner.fixed)
         /\ Len(inner.fixed) > Len(outer.fixed) \/ inner.star
    ELSE inner = outer

-----------------------------------------------------------------------------
(* Scopes *)

PathMatchesScope(path, scope) == \E g \in scope.paths : PathMatchesGlob(path, g)

CommandMatchesScope(command, scope) ==
    \E c \in scope.commands : MatchCommandPattern(c, command)

\* Every entry of inner is contained in one of outer.
ScopeSubset(inner, outer) ==
    /\ \A i \in inner.paths    : \E o \in outer.paths    : GlobContains(o, i)
    /\ \A i \in inner.commands : \E o \in outer.commands : CommandContains(o, i)

ScopeIsBroad(scope) ==
    \/ \E g \in scope.paths    : IsBroadGlob(g)
    \/ \E c \in scope.commands : IsBroadPattern(c)

ScopeIntersectsGlob(scope, glob) == \E g \in scope.paths : GlobIntersects(g, glob)

-----------------------------------------------------------------------------
(* What the globs mean, for comparison *)

\* The segments of glob share path out among themselves: glob[i] gets what lies
\* between cut[i - 1] and cut[i], any number of names if it is "**".
Matches(path, glob) ==
    \E cut \in [0 .. Len(glob) -> 0 .. Len(path)] :
        /\ cut[0] = 0
        /\ cut[Len(glob)] = Len(path)
        /\ \A i \in DOMAIN glob :
              IF glob[i] = Rest THEN cut[i - 1] <= cut[i]
              ELSE /\ cut[i] = cut[i - 1] + 1
                   /\ glob[i] = One \/ path[cut[i]] = glob[i]
=============================================================================

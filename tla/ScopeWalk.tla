----------------------------- MODULE ScopeWalk -----------------------------
(***************************************************************************)
(* How the scope of a memory follows from the records about it, on glob     *)
(* text (src/internal/derive/scope.go). Records are filed one by one;       *)
(* effectiveScope and pendingBroadenings, which are one loop written twice, *)
(* go through the adjustments among the records that have been loaded, one  *)
(* step for each.                                                           *)
(*                                                                          *)
(* Derive has the same rule with sets of places for scopes, as a part of    *)
(* the whole derivation. Here containment, matching and intersection are    *)
(* decided as the code decides them, by Globs.                              *)
(***************************************************************************)
EXTENDS Globs

CONSTANTS Scopes,     \* scopes a memory may have or an adjustment suggest
          Contexts,   \* code contexts of a confirm: [paths, commands]
          Sensitive,  \* globs of the policy's sensitive paths
          MaxRecords

ScopeWalkAssumption ==
    /\ Scopes \subseteq ScopeType
    /\ Contexts \subseteq [paths : SUBSET Paths, commands : SUBSET Commands]
    /\ Sensitive \subseteq Globs
    /\ MaxRecords \in Nat
ASSUME ScopeWalkAssumption

VARIABLES envelope,  \* the scope in the memory record
          log,       \* the records about the memory, in ULID order
          loaded,    \* how many of them the walk works on
          left,      \* adjustments the walk has not come to
          cur,       \* the effective scope so far
          pending    \* broadenings found not to be substantiated

vars == <<envelope, log, loaded, left, cur, pending>>

Observation ==
    [kind : {"adjust_scope"}, at : Nat, scope : Scopes]
        \cup [kind : {"approve"}, at : Nat]
        \cup [kind : {"confirm"}, at : Nat, independent : BOOLEAN, context : Contexts]

Adjustments(n) == {i \in 1 .. n : log[i].kind = "adjust_scope"}

-----------------------------------------------------------------------------
(* Evidence *)

Meets(context, scope) ==
    \/ \E p \in context.paths    : PathMatchesScope(p, scope)
    \/ \E c \in context.commands : CommandMatchesScope(c, scope)

\* Broken variant: an approve has to come first.
Approved_Before(i) == \E j \in 1 .. loaded : log[j].kind = "approve" /\ log[j].at < log[i].at

\* An approve strictly after record i. Only humans approve: `tm approve` has no
\* other actor to give.
Approved(i) == \E j \in 1 .. loaded : log[j].kind = "approve" /\ log[j].at > log[i].at

\* Somebody else met the lesson inside the suggested scope and outside the
\* envelope.
MetBeyond(i) ==
    \E j \in 1 .. loaded :
        /\ log[j].kind = "confirm" /\ log[j].independent /\ log[j].at > log[i].at
        /\ Meets(log[j].context, log[i].scope)
        /\ ~Meets(log[j].context, envelope)

Substantiated(i) == Approved(i) \/ MetBeyond(i)

-----------------------------------------------------------------------------
Init ==
    /\ envelope \in Scopes
    /\ log = <<>> /\ loaded = 0
    /\ left = {} /\ cur = envelope /\ pending = {}

\* A record is appended, at the instant of the last one or later.
File(o) ==
    /\ Len(log) < MaxRecords
    /\ IF log = <<>> THEN o.at = 0 ELSE o.at \in {log[Len(log)].at, log[Len(log)].at + 1}
    /\ log' = Append(log, o)
    /\ UNCHANGED <<envelope, loaded, left, cur, pending>>

AdjustScope == \E t \in 0 .. MaxRecords, s \in Scopes :
    File([kind |-> "adjust_scope", at |-> t, scope |-> s])

Approve == \E t \in 0 .. MaxRecords : File([kind |-> "approve", at |-> t])

Confirm == \E t \in 0 .. MaxRecords, b \in BOOLEAN, c \in Contexts :
    File([kind |-> "confirm", at |-> t, independent |-> b, context |-> c])

\* Broken variant: what the last walk found pending stays.
StartWalk_KeepsPending ==
    /\ left = {}
    /\ loaded' = Len(log)
    /\ left' = Adjustments(Len(log))
    /\ cur' = envelope
    /\ UNCHANGED <<envelope, log, pending>>

\* The records are loaded and the walk starts from the envelope.
StartWalk ==
    /\ left = {}
    /\ loaded' = Len(log)
    /\ left' = Adjustments(Len(log))
    /\ cur' = envelope
    /\ pending' = {}
    /\ UNCHANGED <<envelope, log>>

\* The earliest adjustment left.
IsNext(i) == i \in left /\ \A j \in left : i <= j

Apply(i) ==
    /\ cur' = log[i].scope
    /\ left' = left \ {i}
    /\ UNCHANGED <<envelope, log, loaded, pending>>

Narrow(i) == IsNext(i) /\ ScopeSubset(log[i].scope, cur) /\ Apply(i)

\* Broken variant: a broadening applies whether or not it is substantiated.
Broaden_AtOnce(i) == IsNext(i) /\ ~ScopeSubset(log[i].scope, cur) /\ Apply(i)

Broaden(i) == IsNext(i) /\ ~ScopeSubset(log[i].scope, cur) /\ Substantiated(i) /\ Apply(i)

Defer(i) ==
    /\ IsNext(i) /\ ~ScopeSubset(log[i].scope, cur) /\ ~Substantiated(i)
    /\ pending' = pending \cup {i}
    /\ left' = left \ {i}
    /\ UNCHANGED <<envelope, log, loaded, cur>>

Next ==
    \/ AdjustScope \/ Approve \/ Confirm
    \/ StartWalk
    \/ \E i \in left : Narrow(i) \/ Broaden(i) \/ Defer(i)

Spec == Init /\ [][Next]_vars

-----------------------------------------------------------------------------
(* Properties *)

\* What is left and what is pending are adjustments that were loaded, the walk
\* takes them in order, and the scope is one somebody wrote.
TypeOK ==
    /\ envelope \in Scopes /\ cur \in Scopes
    /\ log \in Seq(Observation)
    /\ loaded \in 0 .. Len(log)
    /\ left \subseteq Adjustments(loaded)
    /\ pending \subseteq Adjustments(loaded) \ left
    /\ \A i \in Adjustments(loaded) \ left, j \in left : i < j

\* The scopes whose reach is beyond doubt: the envelope, and the broadenings
\* walked so far that somebody vouched for.
Grounds ==
    {envelope} \cup {log[i].scope : i \in {j \in Adjustments(loaded) \ left : Substantiated(j)}}

\* Adjustments can never add up to more than one of them can do: whatever they
\* were, a path the effective scope matches lies under the literal prefix of a
\* glob, and a command matches a pattern, of the envelope or of one broadening
\* that was substantiated. A scope "*" of commands contains every pattern and
\* is left out.
EarnedReach ==
    \E base \in Grounds :
        /\ \A p \in Paths :
              PathMatchesScope(p, cur) => \E g \in base.paths : StartsWith(p, g)
        /\ \A c \in Commands :
              CommandMatchesScope(c, cur) =>
                  \/ CommandMatchesScope(c, base)
                  \/ [fixed |-> <<>>, star |-> TRUE] \in base.commands

\* One approve settles everything before it: if it is newer than every
\* adjustment, the walk ends in the newest one and nothing is pending.
ApproveSettles ==
    /\ left = {} /\ Adjustments(loaded) # {}
    /\ \E j \in 1 .. loaded :
          log[j].kind = "approve" /\ \A i \in Adjustments(loaded) : log[j].at > log[i].at
    => /\ pending = {}
       /\ \E i \in Adjustments(loaded) :
             cur = log[i].scope /\ \A k \in Adjustments(loaded) : k <= i

\* All that inner matches, outer matches too, and every command pattern of
\* inner matches something.
IsNarrower(inner, outer) ==
    /\ \A p \in Paths : PathMatchesScope(p, inner) => PathMatchesScope(p, outer)
    /\ \A c \in Commands : CommandMatchesScope(c, inner) => CommandMatchesScope(c, outer)
    /\ <<>> \notin inner.paths
    /\ \A i \in inner.commands : \E c \in Commands : MatchCommandPattern(i, c)

\* The comparison of texts never takes a narrowing for a broadening: an
\* adjustment that takes something away and adds nothing is not held up.
NarrowingAppliesAtOnce ==
    [][\A i \in left \ left' :
           IsNarrower(log[i].scope, cur) => cur' = log[i].scope /\ pending' = pending]_vars

\* Nothing has been said about the memory yet. What the text of an entry decides
\* does not depend on the records, and is stated once, of such a memory.
Fresh == log = <<>>

\* A memory is found wherever its globs apply: the matcher, which stops at the
\* first "**", misses no path.
MatcherMissesNothing ==
    Fresh => \A g \in Globs, p \in Paths : Matches(p, g) => PathMatchesGlob(p, g)

\* The containment of command patterns is exact, "*" and patterns that match
\* nothing left out.
CommandContainmentExact ==
    Fresh => \A o, i \in Patterns :
        o.fixed # <<>> /\ (\E c \in Commands : MatchCommandPattern(i, c)) =>
            (CommandContains(o, i) <=>
             \A c \in Commands : MatchCommandPattern(i, c) => MatchCommandPattern(o, c))

\* Covers(a, b): a matches something, and nothing but what b matches.
Covers(a, b) ==
    /\ \E p \in Paths : Matches(p, a)
    /\ \A p \in Paths : Matches(p, a) => Matches(p, b)

\* No glob of a scope that lies inside a sensitive area, or around one, misses
\* the floor this area puts under the risk.
SensitiveIsSeen ==
    Fresh => \A g \in Globs, s \in Sensitive : Covers(g, s) \/ Covers(s, g) =>
        ScopeIntersectsGlob([paths |-> {g}, commands |-> {}], s)

\* A memory with a glob that matches paths of two top-level directories, or with
\* a pattern that matches whatever a program is called with, counts as broad and
\* its risk is raised.
BreadthIsSeen ==
    Fresh /\ (\/ \E g \in envelope.paths : \E p, q \in Paths :
                    p[1] # q[1] /\ PathMatchesGlob(p, g) /\ PathMatchesGlob(q, g)
              \/ \E c \in envelope.commands, w \in Words \ EnvWords :
                    \A x \in Commands : Len(x) = 2 /\ x[1] = w => MatchCommandPattern(c, x))
        => ScopeIsBroad(envelope)
=============================================================================

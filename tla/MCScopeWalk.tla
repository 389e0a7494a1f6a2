---------------------------- MODULE MCScopeWalk ----------------------------
(***************************************************************************)
(* Instances of ScopeWalk for TLC.                                          *)
(***************************************************************************)
EXTENDS ScopeWalk

CONSTANTS a, b              \* directory names
CONSTANTS run, fix, env     \* a program, a subcommand, an assignment

OfPaths(gs)    == [paths |-> gs, commands |-> {}]
OfCommands(cs) == [paths |-> {}, commands |-> cs]
Pattern(words) == [fixed |-> words, star |-> FALSE]
Star(words)    == [fixed |-> words, star |-> TRUE]

\* One directory, a part of it, files of it by extension, another one.
SomeScopes ==
    {OfPaths({<<a, Rest>>}), OfPaths({<<a, b>>}), OfPaths({<<a, One>>}),
     OfPaths({<<a, b, Rest>>, <<b, Rest>>}), OfPaths({<<One, b>>}),
     OfCommands({Star(<<run>>)}), OfCommands({Star(<<run, fix>>), Pattern(<<run>>)}),
     OfCommands({Star(<<>>)})}

SomeContexts ==
    {[paths |-> {<<a, b>>}, commands |-> {<<run, OtherWord>>}],
     [paths |-> {<<b, Other>>}, commands |-> {<<env, run, fix>>}]}

\* "**/b/**" and "a/**/b".
SensitivePaths == {<<Rest, b, Rest>>, <<a, Rest, b>>}
=============================================================================

----------------------------- MODULE PushFailure -----------------------------
(***************************************************************************)
(* The record of failed pushes, .git/tm/push_failure.json                   *)
(* (src/internal/git/push_failure.go, push_classify.go), and who writes it: *)
(* tm sync waits for its push (ledger/sync.go doPush), tm propose and tm    *)
(* observe leave theirs to a goroutine of a command that returns at once    *)
(* (cli/push.go). tm init, having created a ledger, seeds the remote with a *)
(* git push of its own, whose success clears nothing (cli/init.go). tm      *)
(* status and tm doctor read the record and remove it when it has grown     *)
(* old.                                                                     *)
(*                                                                          *)
(* Nobody locks the file. It is written in place, truncated first, and      *)
(* cleared by removing it, so whoever has it open then writes to a file     *)
(* that is no longer there.                                                 *)
(***************************************************************************)
EXTENDS Naturals, FiniteSets

CONSTANTS Processes,  \* commands of one clone
          Remotes,    \* remotes the ledger is, or was, pushed to
          Messages,   \* what git may say on stderr: sets of Markers
          Kills,      \* whether commands are killed
          MaxAge,     \* age at which a record is pruned, 7 days
          MaxTime, MaxPushes,
          Absent, Empty, Garbled  \* no file, a truncated one, one nobody can parse

Markers == {"remote rejected", "protected", "authentication", "network"}
Kinds   == {"protected_branch", "auth", "network", "unknown"}
Keys    == Remotes \X Kinds
Record  == [at : Nat, key : Keys, count : Nat \ {0}]

PushFailureAssumption ==
    /\ Messages \subseteq SUBSET Markers
    /\ Kills \in BOOLEAN
    /\ {MaxAge, MaxTime, MaxPushes} \subseteq Nat
    /\ {Absent, Empty, Garbled} \cap Record = {}
    /\ Absent \notin Keys
    /\ Empty \notin {Absent, Garbled} /\ Absent # Garbled
ASSUME PushFailureAssumption

VARIABLES file,        \* what is at the path
          opened,      \* processes that have the file at the path open
          pc,          \* process -> what it does next
          background,  \* processes whose push is left to a goroutine
          record,      \* process -> the record it is about to write
          clock, pushes,
          recorded,    \* history: key -> how many records of it were written
          streak,      \* history: key -> how many since the last other one or clear
          quiet,       \* history: nobody was disturbed since the last clear
          last         \* history: the key of the last push to end, if it failed

vars == <<file, opened, pc, background, record, clock, pushes, recorded, streak, quiet, last>>
history == <<recorded, streak, quiet, last>>

-----------------------------------------------------------------------------
\* Broken variant: what is not recognized has no kind.
Classify_NoDefault(text) ==
    IF {"remote rejected", "protected"} \subseteq text THEN "protected_branch"
    ELSE IF "authentication" \in text THEN "auth"
    ELSE IF "network" \in text THEN "network" ELSE ""

\* The first group of markers that occurs decides.
Classify(text) ==
    IF {"remote rejected", "protected"} \subseteq text THEN "protected_branch"
    ELSE IF "authentication" \in text THEN "auth"
    ELSE IF "network" \in text THEN "network" ELSE "unknown"

\* A reader takes a file it cannot parse for no file.
IsReadable(f) == f \notin {Absent, Empty, Garbled}

CountOf(f, key) == IF IsReadable(f) /\ f.key = key THEN f.count ELSE 0

\* Broken variants: counts across kinds; counts from zero.
NextCount_AnyKey(f, key)   == IF IsReadable(f) THEN f.count + 1 ELSE 1
NextCount_FromZero(f, key) == IF CountOf(f, key) = 0 THEN 1 ELSE CountOf(f, key)

NextCount(f, key) == CountOf(f, key) + 1

\* Text written from the start of a file over other text may keep a rest of it.
Written(old, new) == IF old = Empty THEN {new} ELSE {new, Garbled}

IsStale(f) == IsReadable(f) /\ clock > f.at + MaxAge

-----------------------------------------------------------------------------
\* Processes between the end of a push, or a look at the record, and the end of
\* what they do about the file.
AtWork == {p \in Processes : pc[p] \in {"clear", "prune", "read", "open", "write"}}

Goto(p, label) == pc' = [pc EXCEPT ![p] = label]
Alone(p)       == AtWork \subseteq {p}

Init ==
    /\ file = Absent /\ opened = {}
    /\ pc = [p \in Processes |-> "idle"] /\ background = {}
    /\ record = [p \in Processes |-> Absent]
    /\ clock = 0 /\ pushes = 0
    /\ recorded = [k \in Keys |-> 0] /\ streak = [k \in Keys |-> 0]
    /\ quiet = TRUE /\ last = Absent

StartPush(p) ==
    /\ pc[p] = "idle" /\ pushes < MaxPushes
    /\ pushes' = pushes + 1
    /\ background' \in {background \cup {p}, background \ {p}}
    /\ Goto(p, "push")
    /\ UNCHANGED <<file, opened, record, clock, history>>

\* tm init has created the ledger branch, in a new clone or where it was removed.
StartSeed(p) ==
    /\ pc[p] = "idle" /\ pushes < MaxPushes
    /\ pushes' = pushes + 1
    /\ background' = background \ {p}
    /\ Goto(p, "seed")
    /\ UNCHANGED <<file, opened, record, clock, history>>

\* Nothing is cleared: a record of earlier failures stays.
SeedSucceeds(p) ==
    /\ pc[p] = "seed"
    /\ Goto(p, "idle")
    /\ last' = Absent
    /\ UNCHANGED <<file, opened, background, record, clock, pushes, recorded, streak, quiet>>

PushSucceeds(p) ==
    /\ pc[p] = "push"
    /\ Goto(p, "clear")
    /\ quiet' = (quiet /\ Alone(p)) /\ last' = Absent
    /\ UNCHANGED <<file, opened, background, record, clock, pushes, recorded, streak>>

PushFails(p, key) ==
    /\ pc[p] \in {"push", "seed"}
    /\ Goto(p, "read")
    /\ record' = [record EXCEPT ![p] = [at |-> clock, key |-> key, count |-> 1]]
    /\ quiet' = (quiet /\ Alone(p)) /\ last' = key
    /\ UNCHANGED <<file, opened, background, clock, pushes, recorded, streak>>

ReadRecord(p) ==
    /\ pc[p] = "read"
    /\ record' = [record EXCEPT ![p].count = NextCount(file, record[p].key)]
    /\ Goto(p, "open")
    /\ UNCHANGED <<file, opened, background, clock, pushes, history>>

OpenFile(p) ==
    /\ pc[p] = "open"
    /\ file' = Empty
    /\ opened' = opened \cup {p}
    /\ Goto(p, "write")
    /\ UNCHANGED <<background, record, clock, pushes, history>>

WriteFile(p) ==
    /\ pc[p] = "write"
    /\ IF p \in opened THEN file' \in Written(file, record[p]) ELSE file' = file
    /\ opened' = opened \ {p}
    /\ LET k == record[p].key IN
           /\ recorded' = [recorded EXCEPT ![k] = @ + 1]
           /\ streak' = [x \in Keys |-> IF x = k THEN streak[x] + 1 ELSE 0]
    /\ Goto(p, "idle")
    /\ UNCHANGED <<background, record, clock, pushes, quiet, last>>

\* After a successful push, or because the record is old.
Clear(p) ==
    /\ pc[p] \in {"clear", "prune"}
    /\ file' = Absent /\ opened' = {}
    /\ streak' = [k \in Keys |-> 0]
    /\ quiet' = (quiet \/ Alone(p))
    /\ Goto(p, "idle")
    /\ UNCHANGED <<background, record, clock, pushes, recorded, last>>

\* tm status and tm doctor. A record that is not old is only printed.
ReadFresh(p) ==
    /\ pc[p] = "idle" /\ IsStale(file)
    /\ background' = background \ {p}
    /\ quiet' = (quiet /\ Alone(p))
    /\ Goto(p, "prune")
    /\ UNCHANGED <<file, opened, record, clock, pushes, recorded, streak, last>>

\* The command returns while its push goes on, and takes the goroutine with it.
Return(p) ==
    /\ p \in background /\ pc[p] = "push"
    /\ Goto(p, "unwatched")
    /\ UNCHANGED <<file, opened, background, record, clock, pushes, history>>

UnwatchedEnds(p, outcome) ==
    /\ pc[p] = "unwatched"
    /\ Goto(p, "idle")
    /\ last' = outcome
    /\ UNCHANGED <<file, opened, background, record, clock, pushes, recorded, streak, quiet>>

\* The command is killed, or returns while its goroutine is at work.
End(p) ==
    /\ p \in AtWork /\ (Kills \/ p \in background)
    /\ Goto(p, "idle")
    /\ opened' = opened \ {p}
    /\ quiet' = FALSE
    /\ UNCHANGED <<file, background, record, clock, pushes, recorded, streak, last>>

Tick ==
    /\ clock < MaxTime /\ clock' = clock + 1
    /\ UNCHANGED <<file, opened, pc, background, record, pushes, history>>

Next ==
    \/ \E p \in Processes :
          \/ StartPush(p) \/ PushSucceeds(p) \/ StartSeed(p) \/ SeedSucceeds(p)
          \/ ReadRecord(p) \/ OpenFile(p) \/ WriteFile(p)
          \/ Clear(p) \/ ReadFresh(p) \/ Return(p) \/ End(p)
          \/ \E r \in Remotes, text \in Messages :
                PushFails(p, <<r, Classify(text)>>) \/ UnwatchedEnds(p, <<r, Classify(text)>>)
          \/ UnwatchedEnds(p, Absent)
    \/ Tick

Spec == Init /\ [][Next]_vars

-----------------------------------------------------------------------------
(* Properties *)

\* What is in the file is no file, a torn one or a record of one of the four
\* kinds; only a writer has it open, and then it is there.
TypeOK ==
    /\ file \in Record \cup {Absent, Empty, Garbled}
    /\ opened \subseteq {p \in Processes : pc[p] = "write"}
    /\ file = Absent => opened = {}
    /\ pc \in [Processes ->
                  {"idle", "push", "seed", "unwatched", "clear", "prune", "read", "open", "write"}]
    /\ background \subseteq Processes
    /\ record \in [Processes -> Record \cup {Absent}]
    /\ \A p \in Processes : pc[p] \in {"read", "open", "write"} => record[p] # Absent
    /\ clock \in Nat /\ pushes \in Nat
    /\ recorded \in [Keys -> Nat] /\ streak \in [Keys -> Nat]
    /\ quiet \in BOOLEAN /\ last \in Keys \cup {Absent}

\* "Last n pushes rejected" is never too many: however records, clears and kills
\* overlap, so many pushes to this remote did fail for this reason. A single
\* failure stays below what tm status reports.
CountEarned == IsReadable(file) => file.count <= recorded[file.key]

\* What races spoil does not last: from a clear that nobody disturbs, counts are
\* exact until two operations overlap or one is cut off.
StreakExact == quiet /\ AtWork = {} => \A k \in Keys : CountOf(file, k) = streak[k]

\* Every push attempt leaves its outcome: when nobody is at work and the last
\* push failed, the record is of its kind, unless it was pruned.
OutcomeRecorded ==
    (\A p \in Processes : pc[p] = "idle") /\ last # Absent /\ clock <= MaxAge
        => IsReadable(file) /\ file.key = last
=============================================================================

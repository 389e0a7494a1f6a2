-------------------------- MODULE PushFailureProofs --------------------------
(***************************************************************************)
(* Theorems about PushFailure, for any number of processes, remotes,        *)
(* messages and pushes.                                                     *)
(***************************************************************************)
EXTENDS PushFailure, TLAPS

USE PushFailureAssumption DEF PushFailureAssumption

-----------------------------------------------------------------------------
\* Every message has one of the four kinds.
LEMMA ClassifyType == \A text \in Messages : Classify(text) \in Kinds
BY DEF Classify, Kinds

\* A readable file holds a record.
LEMMA ReadableIsRecord ==
    ASSUME NEW f \in Record \cup {Absent, Empty, Garbled}
    PROVE  IsReadable(f) <=> f \in Record
BY DEF IsReadable

LEMMA CountOfType ==
    ASSUME NEW f \in Record \cup {Absent, Empty, Garbled}, NEW key \in Keys
    PROVE  CountOf(f, key) \in Nat
BY ReadableIsRecord DEF CountOf, Record

\* The file holds what a reader can meet, and nobody has a removed file open.
\* The code never looks at what it writes over: this is all a writer can rely on.
THEOREM TypeCorrect == Spec => []TypeOK
<1>1. Init => TypeOK
  BY DEF Init, TypeOK, Keys
<1>2. TypeOK /\ [Next]_vars => TypeOK'
  <2> SUFFICES ASSUME TypeOK, [Next]_vars PROVE TypeOK'
    OBVIOUS
  <2> USE DEF TypeOK, Goto, history
  <2>1. ASSUME NEW p \in Processes, StartPush(p) PROVE TypeOK'
    BY <2>1 DEF StartPush
  <2>2. ASSUME NEW p \in Processes, PushSucceeds(p) PROVE TypeOK'
    BY <2>2 DEF PushSucceeds
  <2>s. ASSUME NEW p \in Processes, StartSeed(p) \/ SeedSucceeds(p) PROVE TypeOK'
    BY <2>s DEF StartSeed, SeedSucceeds
  <2>3. ASSUME NEW p \in Processes, NEW key \in Keys, PushFails(p, key) PROVE TypeOK'
    <3>1. [at |-> clock, key |-> key, count |-> 1] \in Record
      BY DEF Record
    <3> QED
      BY <2>3, <3>1 DEF PushFails
  <2>4. ASSUME NEW p \in Processes, ReadRecord(p) PROVE TypeOK'
    <3>1. record[p] \in Record
      BY <2>4 DEF ReadRecord
    <3>2. NextCount(file, record[p].key) \in Nat \ {0}
      <4>1. record[p].key \in Keys
        BY <3>1 DEF Record
      <4>2. CountOf(file, record[p].key) \in Nat
        BY <4>1, CountOfType
      <4> HIDE DEF TypeOK
      <4> QED
        BY <4>2 DEF NextCount
    <3>3. [record[p] EXCEPT !.count = NextCount(file, record[p].key)] \in Record
      BY <3>1, <3>2 DEF Record
    <3> QED
      BY <2>4, <3>3 DEF ReadRecord
  <2>5. ASSUME NEW p \in Processes, OpenFile(p) PROVE TypeOK'
    BY <2>5 DEF OpenFile
  <2>6. ASSUME NEW p \in Processes, WriteFile(p) PROVE TypeOK'
    <3>1. record[p] \in Record /\ record[p].key \in Keys
      BY <2>6 DEF WriteFile, Record
    <3>2. file' \in Record \cup {Absent, Empty, Garbled}
      BY <2>6, <3>1 DEF WriteFile, Written
    <3>3. file' = Absent => opened' = {}
      BY <2>6, <3>1 DEF WriteFile, Written
    <3>4. recorded' \in [Keys -> Nat] /\ streak' \in [Keys -> Nat]
      BY <2>6, <3>1 DEF WriteFile
    <3> QED
      BY <2>6, <3>1, <3>2, <3>3, <3>4 DEF WriteFile
  <2>7. ASSUME NEW p \in Processes, Clear(p) PROVE TypeOK'
    BY <2>7 DEF Clear
  <2>8. ASSUME NEW p \in Processes, ReadFresh(p) PROVE TypeOK'
    BY <2>8 DEF ReadFresh
  <2>9. ASSUME NEW p \in Processes, Return(p) PROVE TypeOK'
    BY <2>9 DEF Return
  <2>10. ASSUME NEW p \in Processes, NEW o \in Keys \cup {Absent}, UnwatchedEnds(p, o)
         PROVE  TypeOK'
    BY <2>10 DEF UnwatchedEnds
  <2>11. ASSUME NEW p \in Processes, End(p) PROVE TypeOK'
    BY <2>11 DEF End
  <2>12. CASE Tick
    BY <2>12 DEF Tick
  <2>13. CASE UNCHANGED vars
    BY <2>13 DEF vars
  <2>14. \A r \in Remotes, text \in Messages : <<r, Classify(text)>> \in Keys
    BY ClassifyType DEF Keys
  <2> QED
    BY <2>1, <2>2, <2>s, <2>3, <2>4, <2>5, <2>6, <2>7, <2>8, <2>9, <2>10, <2>11, <2>12,
       <2>13, <2>14 DEF Next
<1> QED
  BY <1>1, <1>2, PTL DEF Spec

-----------------------------------------------------------------------------
(* Counts *)

\* The record a process is about to write counts the failures that are on file
\* and its own.
CountInv ==
    /\ CountEarned
    /\ \A p \in Processes : pc[p] \in {"open", "write"} =>
           record[p].count <= recorded[record[p].key] + 1

\* One step never makes a count larger than what was recorded.
LEMMA CountStep == TypeOK /\ TypeOK' /\ CountInv /\ [Next]_vars => CountInv'
<1> SUFFICES ASSUME TypeOK, TypeOK', CountInv, [Next]_vars PROVE CountInv'
  OBVIOUS
<1> USE DEF CountInv, CountEarned, Goto, history
<1>t. /\ file \in Record \cup {Absent, Empty, Garbled}
      /\ record \in [Processes -> Record \cup {Absent}]
      /\ \A p \in Processes : pc[p] \in {"read", "open", "write"} => record[p] \in Record
      /\ pc \in [Processes ->
                  {"idle", "push", "seed", "unwatched", "clear", "prune", "read", "open",
                   "write"}]
      /\ recorded \in [Keys -> Nat]
  BY DEF TypeOK
<1>r. \A x \in Record : x.key \in Keys /\ x.count \in Nat
  BY DEF Record
\* Steps that write nothing and read nothing.
<1>1. ASSUME NEW p \in Processes, NEW label \in {"idle", "push", "seed", "clear", "prune", "unwatched"},
             Goto(p, label), UNCHANGED <<record, recorded>>, file' = file \/ file' = Absent
      PROVE  CountInv'
  BY <1>1, <1>t, <1>r DEF IsReadable
<1>2. ASSUME NEW p \in Processes, NEW key \in Keys, PushFails(p, key) PROVE CountInv'
  BY <1>2, <1>t, <1>r DEF PushFails, IsReadable
<1>3. ASSUME NEW p \in Processes, ReadRecord(p) PROVE CountInv'
  <2> DEFINE k == record[p].key
  <2>1. record[p] \in Record /\ k \in Keys
    BY <1>3, <1>t, <1>r DEF ReadRecord
  <2>2. CountOf(file, k) <= recorded[k]
    BY <2>1, <1>t, ReadableIsRecord, <1>r DEF CountOf
  <2>3. record'[p].key = k /\ record'[p].count = CountOf(file, k) + 1
    BY <1>3, <1>t, <2>1 DEF ReadRecord, NextCount, Record
  <2>4. record'[p].count <= recorded[k] + 1
    BY <2>1, <2>2, <2>3, <1>t, CountOfType
  <2>5. \A q \in Processes \ {p} : record'[q] = record[q] /\ pc'[q] = pc[q]
    BY <1>3, <1>t DEF ReadRecord
  <2> QED
    BY <1>3, <2>3, <2>4, <2>5 DEF ReadRecord
<1>4. ASSUME NEW p \in Processes, OpenFile(p) PROVE CountInv'
  BY <1>4, <1>t DEF OpenFile, IsReadable
<1>5. ASSUME NEW p \in Processes, WriteFile(p) PROVE CountInv'
  <2> DEFINE k == record[p].key
  <2>1. record[p] \in Record /\ k \in Keys /\ record[p].count <= recorded[k] + 1
    BY <1>5, <1>t, <1>r DEF WriteFile
  <2>2. \A x \in Keys : recorded'[x] >= recorded[x]
    BY <1>5, <2>1, <1>t DEF WriteFile
  <2>3. recorded'[k] = recorded[k] + 1
    BY <1>5, <2>1, <1>t DEF WriteFile
  <2>4. file' = record[p] => CountEarned'
    BY <2>1, <2>3, <1>t
  <2>5. file' = Garbled => CountEarned'
    BY DEF IsReadable
  <2>6. file' = file => CountEarned'
    <3> SUFFICES ASSUME file' = file, IsReadable(file)
                 PROVE  file.count <= recorded'[file.key]
      BY DEF IsReadable
    <3>1. file \in Record
      BY <1>t, ReadableIsRecord
    <3> QED
      BY <3>1, <2>2, <1>t, <1>r, TypeOK' DEF TypeOK
  <2>7. CountEarned'
    BY <1>5, <2>4, <2>5, <2>6 DEF WriteFile, Written
  <2>8. ASSUME NEW q \in Processes, pc'[q] \in {"open", "write"}
        PROVE  record'[q].count <= recorded'[record'[q].key] + 1
    <3>1. pc[q] \in {"open", "write"} /\ record'[q] = record[q]
      BY <1>5, <2>8, <1>t DEF WriteFile
    <3> QED
      BY <3>1, <2>2, <1>t, <1>r, TypeOK' DEF TypeOK
  <2> QED
    BY <2>7, <2>8
<1>6. CASE Tick \/ UNCHANGED vars
  BY <1>6 DEF Tick, vars, IsReadable
<1>7. \A r \in Remotes, text \in Messages : <<r, Classify(text)>> \in Keys
  BY ClassifyType DEF Keys
<1>8. ASSUME NEW p \in Processes,
             \/ StartPush(p) \/ PushSucceeds(p) \/ StartSeed(p) \/ SeedSucceeds(p)
             \/ Clear(p) \/ ReadFresh(p) \/ Return(p)
             \/ End(p) \/ \E o : UnwatchedEnds(p, o)
      PROVE  CountInv'
  <2>1. \E label \in {"idle", "push", "seed", "clear", "prune", "unwatched"} : Goto(p, label)
    BY <1>8 DEF StartPush, PushSucceeds, StartSeed, SeedSucceeds, Clear, ReadFresh, Return,
                End, UnwatchedEnds
  <2>2. UNCHANGED <<record, recorded>> /\ (file' = file \/ file' = Absent)
    BY <1>8 DEF StartPush, PushSucceeds, StartSeed, SeedSucceeds, Clear, ReadFresh, Return,
                End, UnwatchedEnds
  <2> QED
    BY <2>1, <2>2, <1>1
<1> QED
  BY <1>2, <1>3, <1>4, <1>5, <1>6, <1>7, <1>8 DEF Next

\* The count in the file never exceeds the failures of that kind that were
\* recorded for that remote, whichever operations overlap or are cut off.
THEOREM CountIsEarned == Spec => []CountEarned
<1>1. Init => CountInv
  BY DEF Init, CountInv, CountEarned, IsReadable
<1>2. TypeOK /\ TypeOK' /\ CountInv /\ [Next]_vars => CountInv'
  BY CountStep
<1>3. CountInv => CountEarned
  BY DEF CountInv
<1> QED
  BY <1>1, <1>2, <1>3, TypeCorrect, PTL DEF Spec

-----------------------------------------------------------------------------
(* Exactness *)

Exact == \A k \in Keys : CountOf(file, k) = streak[k]

\* While nobody is disturbed one process at most is at work, the file is exact
\* unless this process has truncated it, and what it is about to write is.
StreakInv ==
    quiet =>
        /\ \A p, q \in AtWork : p = q
        /\ (\A p \in Processes : pc[p] # "write") => Exact
        /\ \A p \in Processes :
              /\ pc[p] = "write" => file = Empty /\ p \in opened
              /\ pc[p] \in {"open", "write"} =>
                    record[p].count = streak[record[p].key] + 1

\* One step keeps the counts exact or disturbs somebody.
LEMMA StreakStep == TypeOK /\ TypeOK' /\ StreakInv /\ [Next]_vars => StreakInv'
<1> SUFFICES ASSUME TypeOK, TypeOK', StreakInv, [Next]_vars, quiet' PROVE StreakInv'
  BY DEF StreakInv
<1> USE DEF Goto, history
<1>t. /\ file \in Record \cup {Absent, Empty, Garbled}
      /\ record \in [Processes -> Record \cup {Absent}]
      /\ \A p \in Processes : pc[p] \in {"read", "open", "write"} => record[p] \in Record
      /\ pc \in [Processes ->
                  {"idle", "push", "seed", "unwatched", "clear", "prune", "read", "open",
                   "write"}]
      /\ streak \in [Keys -> Nat]
  BY DEF TypeOK
<1>r. \A x \in Record : x.key \in Keys /\ x.count \in Nat
  BY DEF Record
<1>f. \A f \in {Absent, Empty, Garbled}, k \in Keys : CountOf(f, k) = 0
  BY DEF CountOf, IsReadable
\* Steps of a process that is not, and does not come, to work on the file.
<1>1. ASSUME NEW p \in Processes, NEW label \in {"idle", "push", "seed", "unwatched"},
             p \notin AtWork, Goto(p, label), quiet,
             UNCHANGED <<file, opened, record, streak>>
      PROVE  StreakInv'
  <2>1. AtWork' = AtWork /\ \A q \in Processes : pc'[q] = "write" <=> pc[q] = "write"
    BY <1>1, <1>t DEF AtWork
  <2>2. \A q \in Processes : pc'[q] \in {"open", "write"} => pc[q] \in {"open", "write"}
    BY <1>1, <1>t
  <2> QED
    BY <2>1, <2>2, <1>1 DEF StreakInv, Exact
\* Nobody else is at work when one starts and quiet stays.
<1>2. ASSUME NEW p \in Processes, NEW label \in {"clear", "read", "prune"},
             pc[p] \in {"push", "seed", "idle"}, Goto(p, label), quiet, Alone(p),
             UNCHANGED <<file, streak>>
      PROVE  StreakInv'
  <2>1. AtWork = {}
    BY <1>2 DEF Alone, AtWork
  <2>2. AtWork' = {p} /\ \A q \in Processes : pc'[q] \notin {"open", "write"}
    BY <1>2, <1>t, <2>1 DEF AtWork
  <2>3. Exact
    BY <1>2, <2>1, <1>t DEF StreakInv, AtWork
  <2> QED
    BY <1>2, <2>2, <2>3 DEF StreakInv, Exact
<1>3. ASSUME NEW p \in Processes, ReadRecord(p) PROVE StreakInv'
  <2> DEFINE k == record[p].key
  <2>1. record[p] \in Record /\ k \in Keys /\ p \in AtWork /\ quiet
    BY <1>3, <1>t, <1>r DEF ReadRecord, AtWork
  <2>2. AtWork = {p} /\ AtWork' = {p}
    BY <1>3, <2>1, <1>t DEF StreakInv, ReadRecord, AtWork
  <2>3. \A q \in Processes : pc[q] # "write" /\ pc'[q] # "write"
    BY <1>3, <2>2, <1>t DEF ReadRecord, AtWork
  <2>4. Exact /\ Exact'
    BY <1>3, <2>1, <2>3 DEF StreakInv, ReadRecord, Exact
  <2>5. record'[p].key = k /\ record'[p].count = CountOf(file, k) + 1
    BY <1>3, <1>t, <2>1 DEF ReadRecord, NextCount, Record
  <2>6. record'[p].count = streak[k] + 1
    BY <2>1, <2>4, <2>5 DEF Exact
  <2>7. \A q \in Processes : pc'[q] = "open" => q = p
    BY <2>2 DEF AtWork
  <2> QED
    BY <1>3, <2>2, <2>3, <2>4, <2>5, <2>6, <2>7 DEF StreakInv, ReadRecord
<1>4. ASSUME NEW p \in Processes, OpenFile(p) PROVE StreakInv'
  <2>1. p \in AtWork /\ quiet
    BY <1>4 DEF OpenFile, AtWork
  <2>2. AtWork = {p} /\ AtWork' = {p}
    BY <1>4, <2>1, <1>t DEF StreakInv, OpenFile, AtWork
  <2>3. \A q \in Processes : pc'[q] \in {"open", "write"} => q = p
    BY <2>2 DEF AtWork
  <2>4. pc'[p] = "write" /\ p \in opened' /\ record[p].count = streak[record[p].key] + 1
    BY <1>4, <2>1, <1>t DEF OpenFile, StreakInv
  <2> QED
    BY <1>4, <2>2, <2>3, <2>4 DEF StreakInv, OpenFile
<1>5. ASSUME NEW p \in Processes, WriteFile(p) PROVE StreakInv'
  <2> DEFINE k == record[p].key
  <2>1. record[p] \in Record /\ k \in Keys /\ p \in AtWork /\ quiet
    BY <1>5, <1>t, <1>r DEF WriteFile, AtWork
  <2>2. AtWork = {p} /\ AtWork' = {}
    BY <1>5, <2>1, <1>t DEF StreakInv, WriteFile, AtWork
  <2>3. record[p].count = streak[k] + 1
    BY <1>5, <2>1 DEF StreakInv, WriteFile
  <2>4. file' = record[p]
    BY <1>5, <2>1 DEF StreakInv, WriteFile, Written
  <2>5. Exact'
    <3> SUFFICES ASSUME NEW x \in Keys PROVE CountOf(file', x) = streak'[x]
      BY DEF Exact
    <3>1. IsReadable(file')
      BY <2>1, <2>4, ReadableIsRecord
    <3>2. CountOf(file', x) = IF x = k THEN record[p].count ELSE 0
      BY <3>1, <2>4 DEF CountOf
    <3>3. streak'[x] = IF x = k THEN streak[x] + 1 ELSE 0
      BY <1>5 DEF WriteFile
    <3> QED
      BY <3>2, <3>3, <2>3
  <2> QED
    BY <2>2, <2>5 DEF StreakInv, AtWork
<1>6. ASSUME NEW p \in Processes, Clear(p) PROVE StreakInv'
  <2>1. AtWork = {p}
    <3>1. p \in AtWork
      BY <1>6 DEF Clear, AtWork
    <3>2. quiet \/ Alone(p)
      BY <1>6 DEF Clear
    <3>3. quiet => \A q \in AtWork : q = p
      BY <3>1 DEF StreakInv
    <3> QED
      BY <3>1, <3>2, <3>3 DEF Alone
  <2>2. AtWork' = {}
    BY <1>6, <2>1, <1>t DEF Clear, AtWork
  <2>3. Exact'
    BY <1>6, <1>f DEF Clear, Exact
  <2> QED
    BY <2>2, <2>3 DEF StreakInv, AtWork
<1>7. ASSUME NEW p \in Processes, StartPush(p) \/ StartSeed(p) \/ SeedSucceeds(p) \/ Return(p)
                                \/ \E o : UnwatchedEnds(p, o)
      PROVE  StreakInv'
  <2>1. /\ p \notin AtWork
        /\ \E label \in {"idle", "push", "seed", "unwatched"} : Goto(p, label)
        /\ UNCHANGED <<file, opened, record, streak>> /\ quiet
    BY <1>7 DEF StartPush, StartSeed, SeedSucceeds, Return, UnwatchedEnds, AtWork
  <2> QED
    BY <2>1, <1>1
<1>8. ASSUME NEW p \in Processes,
             PushSucceeds(p) \/ ReadFresh(p) \/ \E key : PushFails(p, key)
      PROVE  StreakInv'
  <2>1. /\ pc[p] \in {"push", "seed", "idle"} /\ quiet /\ Alone(p)
        /\ \E label \in {"clear", "read", "prune"} : Goto(p, label)
        /\ UNCHANGED <<file, streak>>
    BY <1>8 DEF PushSucceeds, ReadFresh, PushFails
  <2> QED
    BY <2>1, <1>2
<1>9. ASSUME NEW p \in Processes, End(p) PROVE FALSE
  BY <1>9 DEF End
<1>10. CASE Tick \/ UNCHANGED vars
  BY <1>10 DEF Tick, vars, StreakInv, Exact, AtWork
<1> QED
  BY <1>3, <1>4, <1>5, <1>6, <1>7, <1>8, <1>9, <1>10 DEF Next

\* From a clear with the file to itself on, what a reader is told is the number
\* of failures in a row, until two operations overlap or one is cut off: no race
\* outlives the next undisturbed successful push.
THEOREM StreakIsExact == Spec => []StreakExact
<1>1. Init => StreakInv
  BY DEF Init, StreakInv, AtWork, Exact, CountOf, IsReadable
<1>2. TypeOK /\ TypeOK' /\ StreakInv /\ [Next]_vars => StreakInv'
  BY StreakStep
<1>3. StreakInv => StreakExact
  BY DEF StreakInv, StreakExact, Exact, AtWork
<1> QED
  BY <1>1, <1>2, <1>3, TypeCorrect, PTL DEF Spec
=============================================================================

---------------------------- MODULE NudgeProofs ----------------------------
(***************************************************************************)
(* Theorems about Nudge, for any hooks, paths, memories, commands, policy   *)
(* and length of a session.                                                 *)
(***************************************************************************)
EXTENDS Nudge, FiniteSetTheorems, SequenceTheorems, TLAPS

-----------------------------------------------------------------------------
(* What the invariant says of one copy of the journal, given what was shown *)

\* A self-review is for the turn it was decided in.
SelfReviewsTimed(j) ==
    \A i \in DOMAIN j.fired :
        j.fired[i].key.type = "self_review" => j.fired[i].key.target = j.fired[i].turn

\* Two entries may only have the same key if they are self-reviews and there is
\* no cooldown.
MayRecur(n) == n.type = "self_review" /\ Config.cooldownTurns = 0

Budgeted(j) ==
    /\ Cardinality(Counted(j)) <= Config.maxPerSession
    /\ \A i, k \in Counted(j) :
          j.fired[i].key = j.fired[k].key /\ ~MayRecur(j.fired[i].key) => i = k

Apart(j) ==
    \A i, k \in DOMAIN j.fired :
        j.fired[i].queued /\ i < k => j.fired[k].turn - j.fired[i].turn >= Config.cooldownTurns

\* What is undelivered is on its way; what is delivered was shown.
Accounted(j, seen) ==
    \A i \in DOMAIN j.fired :
        LET f == j.fired[i] IN
        /\ f.delivered > 0 => f.key \in seen
        /\ f.queued /\ f.delivered = 0 => f.key \in Keys(j.pending)
        /\ f.pendingDelivery => ~f.queued /\ f.delivered = 0

JournalInv(j, seen) ==
    /\ j \in Journals
    /\ Surfacing(j)
    /\ SelfReviewsTimed(j)
    /\ Budgeted(j)
    /\ Apart(j)
    /\ Accounted(j, seen)

\* Entry i of j is an attempt that may be marked as delivered.
Deliverable(j, i) ==
    /\ i \in DOMAIN j.fired
    /\ j.fired[i].pendingDelivery /\ ~j.fired[i].queued
    /\ HasBudget(j)
    /\ \A k \in Counted(j) : j.fired[k].key = j.fired[i].key => MayRecur(j.fired[i].key)

-----------------------------------------------------------------------------
(* Decisions *)

LEMMA ConfigTypes ==
    /\ Config.maxPerSession \in Nat /\ Config.cooldownTurns \in Nat
    /\ AdvisoryMax \in Nat
  BY NudgeAssumption

LEMMA TurnType ==
    ASSUME NEW j \in Journals
    PROVE  /\ Turn(j) \in Nat
           /\ \A kind : TurnsOf(j, kind) \subseteq 1..Turn(j)
           /\ DOMAIN j.fired = 1..Len(j.fired) /\ Len(j.fired) \in Nat
           /\ \A i \in DOMAIN j.fired : j.fired[i] \in Entries
<1>1. j.log \in Seq(ToolCalls \cup {Prompt}) /\ j.fired \in Seq(Entries)
  BY DEF Journals
<1>2. Turn(j) \in Nat
  BY <1>1, LenProperties DEF Turn
<1>3. DOMAIN j.fired = 1..Len(j.fired) /\ Len(j.fired) \in Nat
  BY <1>1, LenProperties
<1>4. \A i \in DOMAIN j.fired : j.fired[i] \in Entries
  BY <1>1, <1>3, ElementOfSeq
<1> QED
  BY <1>2, <1>3, <1>4 DEF TurnsOf

\* Detected signals are nudges, none of them a self-review.
LEMMA DetectType ==
    ASSUME NEW j \in Journals, NEW n \in Detect(j)
    PROVE  n \in Nudges /\ n.type # "self_review"
<1>1. ASSUME NEW t \in TurnsOf(j, "edit")
      PROVE  j.log[t].path \in Paths
  <2>1. j.log \in Seq(ToolCalls \cup {Prompt}) /\ t \in 1..Len(j.log)
    BY DEF Journals, TurnsOf, Turn
  <2>2. j.log[t] \in ToolCalls \cup {Prompt}
    BY <2>1, ElementOfSeq
  <2>3. j.log[t].kind = "edit"
    BY DEF TurnsOf
  <2> QED
    BY <2>2, <2>3 DEF ToolCalls, Edit, Command, Prompt, Other
<1>2. CASE n \in DetectFailPass(j)
  BY <1>1, <1>2 DEF DetectFailPass, Signal, Nudges, Priority
<1>3. CASE n \in DetectRevert(j)
  BY <1>3 DEF DetectRevert, Signal, Nudges, Priority
<1>4. CASE n \in DetectChurn(j)
  BY <1>4 DEF DetectChurn, Signal, Nudges, Priority
<1>5. CASE n \in DetectObserve(j)
  <2>1. PICK s \in j.surfaced :
            n = Signal(IF s.memory \in Drifted THEN "drift" ELSE "unobserved", s.memory)
    BY <1>5 DEF DetectObserve
  <2>2. s.memory \in Memories
    BY DEF Journals
  <2> QED
    BY <2>1, <2>2 DEF Signal, Nudges, Priority
<1>6. CASE n \in DetectIntervened(j)
  BY <1>6 DEF DetectIntervened, Signal, Nudges, Priority
<1> QED
  BY <1>2, <1>3, <1>4, <1>5, <1>6 DEF Detect

\* What is decided has budget, is cool, and was not nudged for, except that a
\* self-review comes back in the same turn without a cooldown.
LEMMA DecideIsFresh ==
    ASSUME NEW j \in Journals, SelfReviewsTimed(j), NEW n \in Decide(j)
    PROVE  /\ n \in Nudges
           /\ n.type = "self_review" => n.target = Turn(j)
           /\ HasBudget(j) /\ HasCooledDown(j)
           /\ \A k \in Counted(j) : j.fired[k].key = n => MayRecur(n)
<1>1. HasBudget(j) /\ HasCooledDown(j)
  BY DEF Decide
<1>2. CASE n \in TierA(j) \cup TierB(j)
  <2>1. n \in Detect(j) /\ ~FiredKey(j, n)
    BY <1>2 DEF TierA, TierB, Detect
  <2> QED
    BY <1>1, <2>1, DetectType DEF FiredKey
<1>3. CASE n \in SelfReview(j)
  <2>1. n = Signal("self_review", Turn(j))
    BY <1>3 DEF SelfReview
  <2>2. n \in Nudges /\ n.type = "self_review" /\ n.target = Turn(j)
    BY <2>1, TurnType DEF Signal, Nudges
  <2>3. ASSUME NEW k \in Counted(j), j.fired[k].key = n
        PROVE  Config.cooldownTurns = 0
    <3>1. k \in DOMAIN j.fired
      BY DEF Counted
    <3>2. j.fired[k].turn = Turn(j)
      BY <2>2, <2>3, <3>1 DEF SelfReviewsTimed
    <3>3. Turn(j) - j.fired[k].turn >= Config.cooldownTurns
      BY <1>1, <2>3 DEF HasCooledDown
    <3> QED
      BY <3>2, <3>3, TurnType, ConfigTypes
  <2> QED
    BY <1>1, <2>2, <2>3 DEF MayRecur
<1> QED
  BY <1>2, <1>3 DEF Decide
-----------------------------------------------------------------------------
(* Changes of a journal *)

LEMMA CountedIsFinite ==
    ASSUME NEW j \in Journals
    PROVE  /\ Counted(j) \subseteq 1..Len(j.fired)
           /\ IsFiniteSet(Counted(j)) /\ Cardinality(Counted(j)) \in Nat
<1>1. Counted(j) \subseteq 1..Len(j.fired) /\ Len(j.fired) \in Nat
  BY TurnType DEF Counted
<1>2. IsFiniteSet(1..Len(j.fired))
  BY <1>1, FS_Interval
<1> QED
  BY <1>1, <1>2, FS_Subset, FS_CardinalityType

\* Logging a call or a prompt, and listing what was surfaced or injected,
\* leaves the fired nudges and the queue alone.
LEMMA LoggedKeepsInv ==
    ASSUME NEW j, NEW seen, JournalInv(j, seen),
           NEW k \in Journals, k.fired = j.fired, k.pending = j.pending, Surfacing(k)
    PROVE  JournalInv(k, seen)
<1>1. Counted(k) = Counted(j)
  BY DEF Counted
<1> QED
  BY <1>1 DEF JournalInv, SelfReviewsTimed, Budgeted, Apart, Accounted

LEMMA RecordType ==
    ASSUME NEW j \in Journals, NEW e \in ToolCalls \cup {Prompt}
    PROVE  /\ Record(j, e) \in Journals
           /\ Record(j, e).fired = j.fired /\ Record(j, e).pending = j.pending
           /\ Record(j, e).injected = j.injected /\ Record(j, e).surfaced = j.surfaced
           /\ Turn(Record(j, e)) = Turn(j) + 1
           /\ \A t \in 1..Turn(j) : Record(j, e).log[t] = j.log[t]
<1>1. Append(j.log, e) \in Seq(ToolCalls \cup {Prompt})
  BY AppendProperties DEF Journals
<1>2. /\ Len(Append(j.log, e)) = Len(j.log) + 1
      /\ \A t \in 1..Len(j.log) : Append(j.log, e)[t] = j.log[t]
  BY AppendProperties DEF Journals
<1>3. Record(j, e).log = Append(j.log, e)
  BY DEF Record, Journals
<1>4. /\ Record(j, e) \in Journals
      /\ Record(j, e).fired = j.fired /\ Record(j, e).pending = j.pending
      /\ Record(j, e).injected = j.injected /\ Record(j, e).surfaced = j.surfaced
  BY <1>1 DEF Record, Journals
<1> QED
  BY <1>2, <1>3, <1>4 DEF Turn

LEMMA SurfacedType ==
    ASSUME NEW j \in Journals, Surfacing(j), NEW ms \in SUBSET Memories, NEW path,
           \A m \in ms : path[m] \in Paths \cup {FirstScope[x] : x \in Memories}
    PROVE  LET k == RecordSurfaced(j, ms, path) IN
           /\ k \in Journals /\ Surfacing(k)
           /\ k.fired = j.fired /\ k.pending = j.pending /\ k.log = j.log
<1> DEFINE known == {s.memory : s \in j.surfaced}
           new == {[memory |-> m, path |-> path[m]] : m \in ms \ known}
           k == RecordSurfaced(j, ms, path)
<1>1. new \subseteq [memory : Memories, path : Paths \cup {FirstScope[m] : m \in Memories}]
  OBVIOUS
<1>2. /\ k.surfaced = j.surfaced \cup new
      /\ k.fired = j.fired /\ k.pending = j.pending /\ k.log = j.log
      /\ k.injected = j.injected
  BY DEF RecordSurfaced, Journals
<1>3. k \in Journals
  BY <1>1 DEF RecordSurfaced, Journals
<1>4. ASSUME NEW s \in j.surfaced \cup new, NEW x \in j.surfaced \cup new, s.memory = x.memory
      PROVE  s = x
  <2>1. CASE s \in j.surfaced /\ x \in j.surfaced
    BY <1>4, <2>1 DEF Surfacing
  <2>2. CASE s \in new /\ x \in new
    BY <1>4, <2>2
  <2>3. CASE s \in new /\ x \in j.surfaced
    BY <1>4, <2>3
  <2>4. CASE s \in j.surfaced /\ x \in new
    BY <1>4, <2>4
  <2> QED
    BY <2>1, <2>2, <2>3, <2>4
<1> QED
  BY <1>2, <1>3, <1>4 DEF Surfacing

\* An entry with a fresh nudge at the end, whether it counts or is an attempt.
LEMMA FiredGrows ==
    ASSUME NEW j \in Journals, NEW n \in Nudges, NEW e \in Entries, e.key = n
    PROVE  LET k == [j EXCEPT !.fired = Append(@, e)] IN
           /\ k \in Journals
           /\ k.log = j.log /\ k.pending = j.pending
           /\ k.surfaced = j.surfaced /\ k.injected = j.injected
           /\ k.fired \in Seq(Entries)
           /\ Len(k.fired) = Len(j.fired) + 1
           /\ DOMAIN k.fired = 1..(Len(j.fired) + 1)
           /\ \A i \in DOMAIN j.fired : i \in DOMAIN k.fired /\ k.fired[i] = j.fired[i]
           /\ k.fired[Len(j.fired) + 1] = e
<1> DEFINE k == [j EXCEPT !.fired = Append(@, e)]
<1>1. j.fired \in Seq(Entries)
  BY DEF Journals
<1>2. /\ Append(j.fired, e) \in Seq(Entries)
      /\ Len(Append(j.fired, e)) = Len(j.fired) + 1
      /\ \A i \in 1..Len(j.fired) : Append(j.fired, e)[i] = j.fired[i]
      /\ Append(j.fired, e)[Len(j.fired) + 1] = e
  BY <1>1, AppendProperties
<1>3. DOMAIN Append(j.fired, e) = 1..(Len(j.fired) + 1)
  BY <1>2, LenProperties
<1>4. DOMAIN j.fired = 1..Len(j.fired) /\ Len(j.fired) \in Nat
  BY <1>1, LenProperties
<1>5. /\ k \in Journals /\ k.fired = Append(j.fired, e)
      /\ k.log = j.log /\ k.pending = j.pending
      /\ k.surfaced = j.surfaced /\ k.injected = j.injected
  BY <1>2 DEF Journals
<1> QED
  BY <1>2, <1>3, <1>4, <1>5
\* k is j with a new entry e for n, which was just decided, and a queue that
\* knows of it.
Extends(j, k, n, e, queue) ==
    /\ n \in Decide(j)
    /\ e \in Entries /\ e.key = n /\ e.turn = Turn(j) /\ e.delivered = 0
    /\ e.pendingDelivery => ~e.queued
    /\ queue \in Seq(Nudges) /\ Keys(j.pending) \subseteq Keys(queue)
    /\ e.queued => n \in Keys(queue)
    /\ k = [j EXCEPT !.fired = Append(@, e), !.pending = queue]

LEMMA EntryFits ==
    ASSUME NEW j, NEW seen, JournalInv(j, seen), NEW n, NEW e, NEW queue, NEW k,
           Extends(j, k, n, e, queue)
    PROVE  /\ JournalInv(k, seen)
           /\ NewIndex(j) \in DOMAIN k.fired /\ k.fired[NewIndex(j)] = e
           /\ \A i \in DOMAIN j.fired : i \in DOMAIN k.fired /\ k.fired[i] = j.fired[i]
           /\ ~CountsForPolicy(e) => Counted(k) = Counted(j)
<1> USE DEF Extends
<1> DEFINE f == [j EXCEPT !.fired = Append(@, e)]
           end == NewIndex(j)
<1>1. j \in Journals /\ SelfReviewsTimed(j)
  BY DEF JournalInv
<1>2. /\ n \in Nudges /\ (n.type = "self_review" => n.target = Turn(j))
      /\ HasBudget(j) /\ HasCooledDown(j)
      /\ \A i \in Counted(j) : j.fired[i].key = n => MayRecur(n)
  BY <1>1, DecideIsFresh
<1>3. /\ f \in Journals
      /\ f.surfaced = j.surfaced /\ f.injected = j.injected
      /\ DOMAIN f.fired = 1..end
      /\ \A i \in DOMAIN j.fired : i \in DOMAIN f.fired /\ f.fired[i] = j.fired[i]
      /\ f.fired[end] = e
  BY <1>1, <1>2, FiredGrows DEF NewIndex
<1>4. /\ k \in Journals /\ k.fired = f.fired /\ k.pending = queue
      /\ k.surfaced = j.surfaced /\ k.injected = j.injected
  BY <1>1, <1>3 DEF Journals
<1>5. /\ DOMAIN j.fired = 1..Len(j.fired) /\ Len(j.fired) \in Nat
      /\ Turn(j) \in Nat
      /\ \A i \in DOMAIN j.fired : j.fired[i] \in Entries
  BY <1>1, TurnType
<1>6. /\ DOMAIN k.fired = DOMAIN j.fired \cup {end} /\ end \notin DOMAIN j.fired
      /\ \A i \in DOMAIN j.fired : i < end
      /\ \A i \in DOMAIN j.fired : k.fired[i] = j.fired[i]
      /\ k.fired[end] = e
  BY <1>3, <1>4, <1>5 DEF NewIndex
<1> HIDE DEF f, end
<1>7. Counted(k) = IF CountsForPolicy(e) THEN Counted(j) \cup {end} ELSE Counted(j)
  BY <1>6 DEF Counted
<1>8. Surfacing(k)
  BY <1>4 DEF JournalInv, Surfacing
<1>9. SelfReviewsTimed(k)
  BY <1>1, <1>2, <1>6 DEF SelfReviewsTimed
<1>10. Budgeted(k)
  <2>1. Cardinality(Counted(k)) <= Config.maxPerSession
    <3>1. IsFiniteSet(Counted(j)) /\ Cardinality(Counted(j)) \in Nat
      BY <1>1, CountedIsFinite
    <3>2. Cardinality(Counted(j)) < Config.maxPerSession
      BY <1>2 DEF HasBudget
    <3>3. end \notin Counted(j)
      BY <1>6 DEF Counted
    <3>4. Cardinality(Counted(j) \cup {end}) = Cardinality(Counted(j)) + 1
      BY <3>1, <3>3, FS_AddElement
    <3> QED
      BY <1>7, <3>1, <3>2, <3>4, ConfigTypes
  <2>2. ASSUME NEW a \in Counted(k), NEW b \in Counted(k), k.fired[a].key = k.fired[b].key,
               ~MayRecur(k.fired[a].key)
        PROVE  a = b
    <3>1. Counted(j) \subseteq DOMAIN j.fired
      BY DEF Counted
    <3>2. CASE a \in Counted(j) /\ b \in Counted(j)
      BY <1>6, <2>2, <3>1, <3>2 DEF JournalInv, Budgeted
    <3>3. CASE a = end /\ b \in Counted(j)
      BY <1>2, <1>6, <2>2, <3>1, <3>3
    <3>4. CASE a \in Counted(j) /\ b = end
      BY <1>2, <1>6, <2>2, <3>1, <3>4
    <3>5. CASE a = end /\ b = end
      BY <3>5
    <3> QED
      BY <1>7, <3>2, <3>3, <3>4, <3>5
  <2> QED
    BY <2>1, <2>2 DEF Budgeted
<1>11. Apart(k)
  <2> SUFFICES ASSUME NEW a \in DOMAIN k.fired, NEW b \in DOMAIN k.fired,
                      k.fired[a].queued, a < b
               PROVE  k.fired[b].turn - k.fired[a].turn >= Config.cooldownTurns
    BY DEF Apart
  <2>1. a \in DOMAIN j.fired /\ j.fired[a].queued /\ k.fired[a] = j.fired[a]
    BY <1>5, <1>6 DEF NewIndex, end
  <2>2. CASE b \in DOMAIN j.fired
    BY <1>6, <2>1, <2>2 DEF JournalInv, Apart
  <2>3. CASE b = end
    <3>1. a \in Counted(j)
      BY <2>1 DEF Counted, CountsForPolicy
    <3> QED
      BY <1>2, <1>6, <2>1, <2>3, <3>1 DEF HasCooledDown
  <2> QED
    BY <1>6, <2>2, <2>3
<1>12. Accounted(k, seen)
  <2> SUFFICES ASSUME NEW i \in DOMAIN k.fired
               PROVE  /\ k.fired[i].delivered > 0 => k.fired[i].key \in seen
                      /\ k.fired[i].queued /\ k.fired[i].delivered = 0 =>
                            k.fired[i].key \in Keys(k.pending)
                      /\ k.fired[i].pendingDelivery =>
                            ~k.fired[i].queued /\ k.fired[i].delivered = 0
    BY DEF Accounted
  <2>1. CASE i \in DOMAIN j.fired
    BY <1>4, <1>6, <2>1 DEF JournalInv, Accounted
  <2>2. CASE i = end
    BY <1>4, <1>6, <2>2
  <2> QED
    BY <1>6, <2>1, <2>2
<1> QED
  BY <1>4, <1>6, <1>7, <1>8, <1>9, <1>10, <1>11, <1>12 DEF JournalInv, end
LEMMA FiredType ==
    ASSUME NEW j \in Journals, NEW n \in Nudges, harness \in Harnesses
    PROVE  FiredFromNudge(n, j) \in Entries /\ NewAttempt(j, n) \in Entries
  BY TurnType, NudgeAssumption DEF FiredFromNudge, NewAttempt, Entries, Harness

\* A stop hook that queues.
LEMMA QueueOK ==
    ASSUME NEW j, NEW seen, JournalInv(j, seen), harness \in Harnesses, NEW n \in Decide(j)
    PROVE  JournalInv([j EXCEPT !.fired = Append(@, FiredFromNudge(n, j)),
                                !.pending = Append(@, n)], seen)
<1> DEFINE queue == Append(j.pending, n)
           e == FiredFromNudge(n, j)
<1>1. j \in Journals /\ SelfReviewsTimed(j)
  BY DEF JournalInv
<1>2. n \in Nudges /\ j.pending \in Seq(Nudges)
  BY <1>1, DecideIsFresh DEF Journals
<1>3. /\ queue \in Seq(Nudges) /\ Len(queue) = Len(j.pending) + 1
      /\ \A i \in 1..Len(j.pending) : queue[i] = j.pending[i]
      /\ queue[Len(j.pending) + 1] = n
  BY <1>2, AppendProperties
<1>4. DOMAIN queue = 1..(Len(j.pending) + 1) /\ DOMAIN j.pending = 1..Len(j.pending)
      /\ Len(j.pending) \in Nat
  BY <1>2, <1>3, LenProperties
<1>5. Keys(j.pending) \subseteq Keys(queue) /\ n \in Keys(queue)
  BY <1>3, <1>4 DEF Keys
<1>6. e \in Entries
  BY <1>1, <1>2, FiredType
<1>7. e.key = n /\ e.turn = Turn(j) /\ e.delivered = 0 /\ ~e.pendingDelivery
  BY DEF FiredFromNudge
<1>8. [j EXCEPT !.fired = Append(@, e), !.pending = Append(@, n)]
        = [j EXCEPT !.fired = Append(@, e), !.pending = queue]
  OBVIOUS
<1>9. Extends(j, [j EXCEPT !.fired = Append(@, e), !.pending = queue], n, e, queue)
  BY <1>3, <1>5, <1>6, <1>7 DEF Extends
<1> HIDE DEF queue, e
<1> QED
  BY <1>8, <1>9, EntryFits DEF e

\* A stop hook that renders at once, for the first time ...
LEMMA AttemptOK ==
    ASSUME NEW j, NEW seen, JournalInv(j, seen), harness \in Harnesses, ~harness.queues,
           NEW n \in Decide(j)
    PROVE  LET k == [j EXCEPT !.fired = Append(@, NewAttempt(j, n))] IN
           JournalInv(k, seen) /\ Deliverable(k, NewIndex(j))
<1> DEFINE e == NewAttempt(j, n)
           k == [j EXCEPT !.fired = Append(@, e), !.pending = j.pending]
<1>1. j \in Journals /\ SelfReviewsTimed(j)
  BY DEF JournalInv
<1>2. /\ n \in Nudges /\ HasBudget(j)
      /\ \A i \in Counted(j) : j.fired[i].key = n => MayRecur(n)
  BY <1>1, DecideIsFresh
<1>3. e \in Entries
  BY <1>1, <1>2, FiredType
<1>4. e.key = n /\ e.turn = Turn(j) /\ e.delivered = 0 /\ e.pendingDelivery /\ ~e.queued
  BY DEF NewAttempt, FiredFromNudge
<1>5. j.pending \in Seq(Nudges)
  BY <1>1 DEF Journals
<1>6. k = [j EXCEPT !.fired = Append(@, e)]
  BY <1>1 DEF Journals
<1>7. ~CountsForPolicy(e)
  BY <1>4 DEF CountsForPolicy
<1> HIDE DEF e
<1>8. /\ JournalInv(k, seen)
      /\ NewIndex(j) \in DOMAIN k.fired /\ k.fired[NewIndex(j)] = e
      /\ \A i \in DOMAIN j.fired : i \in DOMAIN k.fired /\ k.fired[i] = j.fired[i]
      /\ Counted(k) = Counted(j)
  <2>1. Extends(j, k, n, e, j.pending)
    BY <1>3, <1>4, <1>5 DEF Extends
  <2> HIDE DEF k
  <2> QED
    BY <1>7, <2>1, EntryFits
<1>9. Deliverable(k, NewIndex(j))
  <2>1. Counted(j) \subseteq DOMAIN j.fired
    BY DEF Counted
  <2> HIDE DEF k
  <2> QED
    BY <1>2, <1>4, <1>8, <2>1 DEF Deliverable, HasBudget
<1> QED
  BY <1>6, <1>8, <1>9 DEF e

\* ... or again.
LEMMA RetryOK ==
    ASSUME NEW j, NEW seen, JournalInv(j, seen), NEW n \in Decide(j),
           NEW i \in RenderedAttempts(j, n)
    PROVE  Deliverable(j, i)
  BY DecideIsFresh DEF JournalInv, RenderedAttempts, Deliverable

\* Marking an attempt that was rendered.
LEMMA DeliverOK ==
    ASSUME NEW j, NEW seen, JournalInv(j, seen), NEW i, Deliverable(j, i),
           j.fired[i].key \in seen
    PROVE  JournalInv(MarkDelivered(j, i), seen)
<1> DEFINE k == MarkDelivered(j, i)
           g == [j.fired[i] EXCEPT !.pendingDelivery = FALSE, !.delivered = Turn(j)]
<1>1. j \in Journals /\ i \in DOMAIN j.fired
  BY DEF JournalInv, Deliverable
<1>2. /\ Turn(j) \in Nat /\ j.fired[i] \in Entries
      /\ DOMAIN j.fired = 1..Len(j.fired) /\ Len(j.fired) \in Nat
  BY <1>1, TurnType
<1>3. g \in Entries /\ g.key = j.fired[i].key /\ g.turn = j.fired[i].turn
      /\ ~g.queued /\ ~g.pendingDelivery /\ g.delivered = Turn(j)
  BY <1>2 DEF Entries, Deliverable
<1>4. k.fired = [j.fired EXCEPT ![i] = g] /\ k.pending = j.pending
      /\ k.log = j.log /\ k.surfaced = j.surfaced /\ k.injected = j.injected
  BY <1>1 DEF MarkDelivered, Journals
<1>5. /\ DOMAIN k.fired = DOMAIN j.fired /\ k.fired[i] = g
      /\ \A x \in DOMAIN j.fired \ {i} : k.fired[x] = j.fired[x]
  BY <1>1, <1>4
<1>6. k \in Journals
  <2>1. [j.fired EXCEPT ![i] = g] \in Seq(Entries)
    BY <1>1, <1>2, <1>3, ExceptSeq DEF Journals
  <2> QED
    BY <1>1, <1>4, <2>1 DEF MarkDelivered, Journals
<1> HIDE DEF k, g
<1>7. Counted(k) = Counted(j) \cup {i} /\ i \notin Counted(j)
  BY <1>1, <1>3, <1>5 DEF Counted, CountsForPolicy, Deliverable
<1>8. Surfacing(k)
  BY <1>4 DEF JournalInv, Surfacing
<1>9. SelfReviewsTimed(k)
  BY <1>3, <1>5 DEF JournalInv, SelfReviewsTimed
<1>10. Budgeted(k)
  <2>1. Cardinality(Counted(k)) <= Config.maxPerSession
    <3>1. IsFiniteSet(Counted(j)) /\ Cardinality(Counted(j)) \in Nat
      BY <1>1, CountedIsFinite
    <3>2. Cardinality(Counted(j) \cup {i}) = Cardinality(Counted(j)) + 1
      BY <1>7, <3>1, FS_AddElement
    <3> QED
      BY <1>7, <3>1, <3>2, ConfigTypes DEF Deliverable, HasBudget
  <2>2. ASSUME NEW a \in Counted(k), NEW b \in Counted(k), k.fired[a].key = k.fired[b].key,
               ~MayRecur(k.fired[a].key)
        PROVE  a = b
    <3>1. Counted(j) \subseteq DOMAIN j.fired
      BY DEF Counted
    <3>2. \A x \in DOMAIN j.fired : k.fired[x].key = j.fired[x].key
      BY <1>3, <1>5
    <3>3. CASE a \in Counted(j) /\ b \in Counted(j)
      BY <2>2, <3>1, <3>2, <3>3 DEF JournalInv, Budgeted
    <3>4. CASE a = i /\ b \in Counted(j)
      BY <1>1, <2>2, <3>1, <3>2, <3>4 DEF Deliverable
    <3>5. CASE a \in Counted(j) /\ b = i
      BY <1>1, <2>2, <3>1, <3>2, <3>5 DEF Deliverable
    <3> QED
      BY <1>7, <3>3, <3>4, <3>5
  <2> QED
    BY <2>1, <2>2 DEF Budgeted
<1>11. Apart(k)
  BY <1>3, <1>5 DEF JournalInv, Apart
<1>12. Accounted(k, seen)
  <2> SUFFICES ASSUME NEW x \in DOMAIN k.fired
               PROVE  /\ k.fired[x].delivered > 0 => k.fired[x].key \in seen
                      /\ k.fired[x].queued /\ k.fired[x].delivered = 0 =>
                            k.fired[x].key \in Keys(k.pending)
                      /\ k.fired[x].pendingDelivery =>
                            ~k.fired[x].queued /\ k.fired[x].delivered = 0
    BY DEF Accounted
  <2>1. CASE x = i
    BY <1>3, <1>5, <2>1
  <2>2. CASE x # i
    BY <1>4, <1>5, <2>2 DEF JournalInv, Accounted
  <2> QED
    BY <2>1, <2>2
<1> QED
  BY <1>6, <1>8, <1>9, <1>10, <1>11, <1>12 DEF JournalInv, k
\* A prompt hook that gave the agent the queued nudges: each is marked, and
\* the queue is empty.
LEMMA DrainOK ==
    ASSUME NEW j, NEW seen, JournalInv(j, seen), Turn(j) > 0
    PROVE  JournalInv([MarkQueuedDrained(j) EXCEPT !.pending = <<>>], seen \cup Keys(j.pending))
<1> DEFINE k == [MarkQueuedDrained(j) EXCEPT !.pending = <<>>]
           Marked(f) == IF f.queued /\ f.delivered = 0 THEN [f EXCEPT !.delivered = Turn(j)] ELSE f
           fired == [i \in DOMAIN j.fired |-> Marked(j.fired[i])]
<1>1. j \in Journals
  BY DEF JournalInv
<1>2. /\ Turn(j) \in Nat
      /\ DOMAIN j.fired = 1..Len(j.fired) /\ Len(j.fired) \in Nat
      /\ \A i \in DOMAIN j.fired : j.fired[i] \in Entries
  BY <1>1, TurnType
<1>3. \A i \in DOMAIN j.fired : Marked(j.fired[i]) \in Entries
  BY <1>2 DEF Entries
<1>4. \A i \in DOMAIN j.fired :
          /\ fired[i].key = j.fired[i].key /\ fired[i].turn = j.fired[i].turn
          /\ fired[i].queued = j.fired[i].queued
          /\ fired[i].pendingDelivery = j.fired[i].pendingDelivery
          /\ fired[i].delivered # j.fired[i].delivered =>
                j.fired[i].queued /\ j.fired[i].delivered = 0
          /\ fired[i].delivered = 0 => ~j.fired[i].queued /\ j.fired[i].delivered = 0
  BY <1>2 DEF Entries
<1>5. fired \in Seq(Entries)
  <2>1. fired \in [1..Len(j.fired) -> Entries]
    BY <1>2, <1>3
  <2> QED
    BY <1>2, <2>1, SeqDef
<1>6. /\ k.fired = fired /\ k.pending = <<>>
      /\ k.log = j.log /\ k.surfaced = j.surfaced /\ k.injected = j.injected
  BY <1>1 DEF MarkQueuedDrained, Journals
<1>7. k \in Journals
  <2>1. k = [j EXCEPT !.fired = fired, !.pending = <<>>]
    BY <1>1 DEF MarkQueuedDrained, Journals
  <2>2. <<>> \in Seq(Nudges)
    BY EmptySeq
  <2> HIDE DEF fired, k
  <2> QED
    BY <1>1, <1>5, <2>1, <2>2 DEF Journals
<1>8. DOMAIN k.fired = DOMAIN j.fired
  BY <1>6
<1> HIDE DEF fired, k
<1>9. Counted(k) = Counted(j) /\ Counted(j) \subseteq DOMAIN j.fired
  BY <1>4, <1>6, <1>8 DEF Counted, CountsForPolicy
<1>10. Surfacing(k)
  BY <1>6 DEF JournalInv, Surfacing
<1>11. SelfReviewsTimed(k)
  BY <1>4, <1>6, <1>8 DEF JournalInv, SelfReviewsTimed
<1>12. Budgeted(k)
  BY <1>4, <1>6, <1>9 DEF JournalInv, Budgeted
<1>13. Apart(k)
  BY <1>4, <1>6, <1>8 DEF JournalInv, Apart
<1>14. Accounted(k, seen \cup Keys(j.pending))
  <2> SUFFICES ASSUME NEW i \in DOMAIN j.fired
               PROVE  /\ fired[i].delivered > 0 => fired[i].key \in seen \cup Keys(j.pending)
                      /\ ~(fired[i].queued /\ fired[i].delivered = 0)
                      /\ fired[i].pendingDelivery => ~fired[i].queued /\ fired[i].delivered = 0
    BY <1>6, <1>8 DEF Accounted
  <2>1. /\ j.fired[i].delivered > 0 => j.fired[i].key \in seen
        /\ j.fired[i].queued /\ j.fired[i].delivered = 0 => j.fired[i].key \in Keys(j.pending)
        /\ j.fired[i].pendingDelivery => ~j.fired[i].queued /\ j.fired[i].delivered = 0
    BY DEF JournalInv, Accounted
  <2> QED
    BY <1>4, <2>1
<1> QED
  BY <1>7, <1>10, <1>11, <1>12, <1>13, <1>14 DEF JournalInv, k
LEMMA SeenGrows ==
    ASSUME NEW j, NEW seen, NEW more, JournalInv(j, seen)
    PROVE  JournalInv(j, seen \cup more)
  BY DEF JournalInv, Accounted

LEMMA NewJournalOK == JournalInv(NewJournal, {}) /\ Turn(NewJournal) = 0
<1>1. /\ NewJournal.log = <<>> /\ NewJournal.surfaced = {} /\ NewJournal.injected = {}
      /\ NewJournal.fired = <<>> /\ NewJournal.pending = <<>>
  BY DEF NewJournal
<1>2. NewJournal \in Journals
  <2>1. /\ <<>> \in Seq(ToolCalls \cup {Prompt}) /\ <<>> \in Seq(Entries)
        /\ <<>> \in Seq(Nudges)
    BY EmptySeq
  <2> QED
    BY <2>1 DEF NewJournal, Journals
<1>3. DOMAIN NewJournal.fired = {}
  BY <1>1
<1>4. Counted(NewJournal) = {}
  BY <1>3 DEF Counted
<1>5. Cardinality({}) = 0
  BY FS_EmptySet
<1>6. Budgeted(NewJournal)
  BY <1>4, <1>5, ConfigTypes DEF Budgeted
<1>7. Surfacing(NewJournal)
  BY <1>1, <1>5, ConfigTypes DEF Surfacing
<1> QED
  BY <1>1, <1>2, <1>3, <1>6, <1>7
    DEF JournalInv, SelfReviewsTimed, Apart, Accounted, Turn

\* Advice keeps to its cap.
LEMMA InjectedFits ==
    ASSUME NEW had \in SUBSET Memories, Cardinality(had) <= AdvisoryMax,
           NEW new \in SUBSET Memories, Cardinality(new) <= AdvisoryMax - Cardinality(had)
    PROVE  Cardinality(had \cup new) <= AdvisoryMax
<1>1. IsFiniteSet(had) /\ IsFiniteSet(new) /\ IsFiniteSet(had \cap new)
  BY FS_Subset, NudgeAssumption
<1>2. /\ Cardinality(had) \in Nat /\ Cardinality(new) \in Nat
      /\ Cardinality(had \cap new) \in Nat
  BY <1>1, FS_CardinalityType
<1>3. Cardinality(had \cup new) = Cardinality(had) + Cardinality(new) - Cardinality(had \cap new)
  BY <1>1, FS_Union
<1> QED
  BY <1>2, <1>3, ConfigTypes

\* The copy of a hook that logs a tool call.
LEMMA PostToolOK ==
    ASSUME NEW seen, JournalInv(file, seen), NEW h, NEW event \in ToolCalls,
           NEW new \in SUBSET Memories, PostTool(h, event, new)
    PROVE  LET j == [Record(file, event) EXCEPT !.injected = @ \cup new] IN
           JournalInv(RecordSurfaced(j, new, [m \in new |-> event.path]), seen)
<1> DEFINE fresh == IF harness.injects /\ event.kind = "edit"
                    THEN Matching[event.path] \ (Requirements \cup file.injected) ELSE {}
           room  == AdvisoryMax - Cardinality(file.injected)
           r == Record(file, event)
           j == [r EXCEPT !.injected = @ \cup new]
           path == [m \in new |-> event.path]
<1>1. /\ new \subseteq fresh
      /\ \/ new = fresh /\ Cardinality(fresh) <= room
         \/ Cardinality(new) = room
  BY DEF PostTool
<1>2. file \in Journals /\ file.injected \in SUBSET Memories /\ Surfacing(file)
  BY DEF JournalInv, Journals
<1>3. /\ Cardinality(file.injected) \in Nat /\ Cardinality(file.injected) <= AdvisoryMax
      /\ AdvisoryMax \in Nat
  BY <1>2, FS_Subset, FS_CardinalityType, NudgeAssumption, ConfigTypes DEF Surfacing
<1>4. Cardinality(new) <= AdvisoryMax - Cardinality(file.injected)
  BY <1>1, <1>3
<1>5. Cardinality(file.injected \cup new) <= AdvisoryMax
  BY <1>2, <1>3, <1>4, InjectedFits
<1>6. /\ r \in Journals /\ r.fired = file.fired /\ r.pending = file.pending
      /\ r.injected = file.injected /\ r.surfaced = file.surfaced
  BY <1>2, RecordType
<1> HIDE DEF r
<1>7. /\ j \in Journals /\ j.fired = file.fired /\ j.pending = file.pending
      /\ j.injected = file.injected \cup new /\ j.surfaced = file.surfaced
  BY <1>2, <1>6 DEF Journals
<1>8. Surfacing(j)
  BY <1>2, <1>5, <1>7 DEF Surfacing
<1>9. \A m \in new : path[m] \in Paths \cup {FirstScope[x] : x \in Memories}
  <2>1. event.kind = "edit" => event.path \in Paths
    BY DEF ToolCalls, Edit, Command, Other
  <2> QED
    BY <1>1, <2>1
<1> HIDE DEF j, path, fresh, room
<1> DEFINE k == RecordSurfaced(j, new, path)
<1>10. /\ k \in Journals /\ Surfacing(k) /\ k.fired = j.fired /\ k.pending = j.pending
  BY <1>7, <1>8, <1>9, SurfacedType
<1> HIDE DEF k
<1>11. JournalInv(k, seen)
  BY <1>7, <1>10, LoggedKeepsInv
<1> QED
  BY <1>11 DEF k, j, path, r
-----------------------------------------------------------------------------
(* The invariant: every copy of the journal is sound on its own. Whatever    *)
(* hook saves last, and whoever died, the file is one of these copies.       *)

Steps == {"idle", "save", "save prompt", "render pending", "save attempt", "render attempt"}
Attempts == {"save attempt", "render attempt"}
Drains == {"save prompt", "render pending"}

IInv ==
    /\ harness \in Harnesses
    /\ JournalInv(file, shown)
    /\ pc \in [Hooks -> Steps]
    /\ mem \in [Hooks -> Journals]
    /\ attempt \in [Hooks -> Nat]
    /\ acted \subseteq Paths \cup Memories
    /\ shown \subseteq Nudges
    /\ \A h \in Hooks : /\ JournalInv(mem[h], shown)
                        /\ pc[h] \in Attempts => Deliverable(mem[h], attempt[h])
                        /\ pc[h] \in Drains => Turn(mem[h]) > 0

LEMMA InitOK == Init => IInv
  BY NewJournalOK DEF Init, IInv, Steps, Attempts, Drains, JournalInv

\* A hook that goes on with a sound copy, and saves a sound copy if any.
HookMoves(h, step, j) ==
    /\ h \in Hooks
    /\ step \in Steps
    /\ Goto(h, step, j)
    /\ JournalInv(j, shown') /\ JournalInv(file', shown')
    /\ shown \subseteq shown' /\ shown' \subseteq Nudges
    /\ attempt' \in [Hooks -> Nat]
    /\ \A g \in Hooks \ {h} : attempt'[g] = attempt[g]
    /\ step \in Attempts => Deliverable(j, attempt'[h])
    /\ step \in Drains => Turn(j) > 0
    /\ UNCHANGED <<harness, acted>>

LEMMA HookMovesOK ==
    ASSUME IInv, NEW h, NEW step, NEW j, HookMoves(h, step, j)
    PROVE  IInv'
<1>1. /\ h \in Hooks /\ step \in Steps /\ Goto(h, step, j)
      /\ JournalInv(j, shown') /\ JournalInv(file', shown')
  BY DEF HookMoves
<1>2. /\ pc' = [pc EXCEPT ![h] = step] /\ mem' = [mem EXCEPT ![h] = j]
      /\ j \in Journals
  BY <1>1 DEF Goto, JournalInv
<1>3. pc' \in [Hooks -> Steps] /\ mem' \in [Hooks -> Journals] /\ attempt' \in [Hooks -> Nat]
  BY <1>1, <1>2 DEF IInv, HookMoves
<1>4. ASSUME NEW g \in Hooks
      PROVE  /\ JournalInv(mem'[g], shown')
             /\ pc'[g] \in Attempts => Deliverable(mem'[g], attempt'[g])
             /\ pc'[g] \in Drains => Turn(mem'[g]) > 0
  <2>1. CASE g = h
    BY <1>1, <1>2, <2>1 DEF IInv, HookMoves
  <2>2. CASE g # h
    <3>1. mem'[g] = mem[g] /\ pc'[g] = pc[g] /\ attempt'[g] = attempt[g]
      BY <1>2, <2>2 DEF IInv, HookMoves
    <3>2. JournalInv(mem[g], shown \cup shown')
      BY SeenGrows DEF IInv
    <3>3. shown \cup shown' = shown'
      BY DEF HookMoves
    <3> QED
      BY <3>1, <3>2, <3>3 DEF IInv
  <2> QED
    BY <2>1, <2>2
<1> QED
  BY <1>1, <1>3, <1>4 DEF IInv, HookMoves
LEMMA FinishOK ==
    ASSUME IInv, NEW h \in Hooks, Finish(h), UNCHANGED <<harness, acted, shown>>,
           JournalInv(file', shown)
    PROVE  IInv'
<1>1. JournalInv(NewJournal, shown)
  <2>1. JournalInv(NewJournal, {} \cup shown)
    BY NewJournalOK, SeenGrows
  <2>2. {} \cup shown = shown
    OBVIOUS
  <2> QED
    BY <2>1, <2>2
<1>2. HookMoves(h, "idle", NewJournal)
  BY <1>1 DEF IInv, Finish, HookMoves, Steps, Attempts, Drains
<1> QED
  BY <1>2, HookMovesOK

LEMMA StepOK == IInv /\ [Next]_vars => IInv'
<1> SUFFICES ASSUME IInv, [Next]_vars PROVE IInv'
  OBVIOUS
<1>0. /\ file \in Journals /\ JournalInv(file, shown) /\ harness \in Harnesses
      /\ \A h \in Hooks : mem[h] \in Journals /\ JournalInv(mem[h], shown)
  BY DEF IInv, JournalInv
<1>1. ASSUME NEW h \in Hooks, NEW event \in ToolCalls, NEW new \in SUBSET Memories,
             PostTool(h, event, new)
      PROVE  IInv'
  <2> DEFINE j == [Record(file, event) EXCEPT !.injected = @ \cup new]
             k == RecordSurfaced(j, new, [m \in new |-> event.path])
  <2>1. JournalInv(k, shown)
    BY <1>0, <1>1, PostToolOK
  <2>2. Goto(h, "save", k)
    BY <1>1 DEF PostTool
  <2>3. HookMoves(h, "save", k)
    <3> HIDE DEF k
    <3> QED
      BY <1>0, <1>1, <2>1, <2>2 DEF PostTool, HookMoves, Steps, Attempts, Drains, IInv
  <2> QED
    BY <2>3, HookMovesOK
<1>2. ASSUME NEW h \in Hooks, NEW p \in Paths \cup Signatures, PreTool(h, p)
      PROVE  IInv'
  <2> DEFINE k == RecordSurfaced(file, Matching[p], FirstScope)
  <2>1. Matching[p] \in SUBSET Memories
    BY NudgeAssumption
  <2>2. \A m \in Matching[p] : FirstScope[m] \in Paths \cup {FirstScope[x] : x \in Memories}
    BY <2>1
  <2>3. Surfacing(file)
    BY <1>0 DEF JournalInv
  <2>4. k \in Journals /\ Surfacing(k) /\ k.fired = file.fired /\ k.pending = file.pending
    BY <1>0, <2>1, <2>2, <2>3, SurfacedType
  <2>5. Goto(h, "save", k)
    BY <1>2 DEF PreTool
  <2> HIDE DEF k
  <2>6. JournalInv(k, shown)
    BY <1>0, <2>4, LoggedKeepsInv
  <2>7. HookMoves(h, "save", k)
    BY <1>0, <1>2, <2>5, <2>6 DEF PreTool, HookMoves, Steps, Attempts, Drains, IInv
  <2> QED
    BY <2>7, HookMovesOK
<1>3. ASSUME NEW h \in Hooks, PromptSubmit(h)
      PROVE  IInv'
  <2> DEFINE k == Record(file, Prompt)
  <2>1. /\ k \in Journals /\ k.fired = file.fired /\ k.pending = file.pending
        /\ k.injected = file.injected /\ k.surfaced = file.surfaced
        /\ Turn(k) = Turn(file) + 1
    BY <1>0, RecordType
  <2>2. Goto(h, "save prompt", k)
    BY <1>3 DEF PromptSubmit
  <2> HIDE DEF k
  <2>3. Surfacing(k)
    BY <1>0, <2>1 DEF JournalInv, Surfacing
  <2>4. JournalInv(k, shown)
    BY <1>0, <2>1, <2>3, LoggedKeepsInv
  <2>5. Turn(k) > 0
    BY <1>0, <2>1, TurnType
  <2>6. HookMoves(h, "save prompt", k)
    BY <1>0, <1>3, <2>2, <2>4, <2>5 DEF PromptSubmit, HookMoves, Steps, Attempts, Drains, IInv
  <2> QED
    BY <2>6, HookMovesOK
<1>4. ASSUME NEW h \in Hooks, SavePrompt(h)
      PROVE  IInv'
  <2>1. CASE mem[h].pending = <<>>
    BY <1>0, <1>4, <2>1, FinishOK DEF SavePrompt
  <2>2. CASE mem[h].pending # <<>>
    <3>1. Goto(h, "render pending", mem[h]) /\ file' = mem[h]
          /\ UNCHANGED <<attempt, harness, acted, shown>>
      BY <1>4, <2>2 DEF SavePrompt
    <3>2. Turn(mem[h]) > 0
      BY <1>4 DEF SavePrompt, IInv, Drains
    <3>3. HookMoves(h, "render pending", mem[h])
      BY <1>0, <3>1, <3>2 DEF HookMoves, Steps, Attempts, Drains, IInv
    <3> QED
      BY <3>3, HookMovesOK
  <2> QED
    BY <2>1, <2>2
<1>5. ASSUME NEW h \in Hooks, RenderPending(h)
      PROVE  IInv'
  <2> DEFINE k == [MarkQueuedDrained(mem[h]) EXCEPT !.pending = <<>>]
  <2>1. Turn(mem[h]) > 0
    BY <1>5 DEF RenderPending, IInv, Drains
  <2>2. Goto(h, "save", k) /\ shown' = shown \cup Keys(mem[h].pending)
    BY <1>5 DEF RenderPending
  <2>3. JournalInv(k, shown')
    BY <1>0, <2>1, <2>2, DrainOK
  <2> HIDE DEF k
  <2>4. Keys(mem[h].pending) \subseteq Nudges
    <3>1. mem[h].pending \in Seq(Nudges)
      BY <1>0 DEF Journals
    <3> QED
      BY <3>1, ElementOfSeq, LenProperties DEF Keys
  <2>5. JournalInv(file, shown')
    BY <1>0, <2>2, SeenGrows
  <2>6. HookMoves(h, "save", k)
    BY <1>5, <2>2, <2>3, <2>4, <2>5 DEF RenderPending, HookMoves, Steps, Attempts, Drains, IInv
  <2> QED
    BY <2>6, HookMovesOK
<1>6. ASSUME NEW h \in Hooks, StopSilently(h)
      PROVE  IInv'
  <2>1. HookMoves(h, "save", file)
    BY <1>0, <1>6 DEF StopSilently, HookMoves, Steps, Attempts, Drains, IInv
  <2> QED
    BY <2>1, HookMovesOK
<1>7. ASSUME NEW h \in Hooks, StopQueues(h)
      PROVE  IInv'
  <2>1. PICK n \in Decide(file) :
            Goto(h, "save", [file EXCEPT !.fired = Append(@, FiredFromNudge(n, file)),
                                        !.pending = Append(@, n)])
    BY <1>7 DEF StopQueues
  <2> DEFINE k == [file EXCEPT !.fired = Append(@, FiredFromNudge(n, file)),
                              !.pending = Append(@, n)]
  <2>2. JournalInv(k, shown)
    BY <1>0, QueueOK
  <2>3. Goto(h, "save", k)
    BY <2>1
  <2> HIDE DEF k
  <2>4. HookMoves(h, "save", k)
    BY <1>0, <1>7, <2>2, <2>3 DEF StopQueues, HookMoves, Steps, Attempts, Drains, IInv
  <2> QED
    BY <2>4, HookMovesOK
<1>8. ASSUME NEW h \in Hooks, StopRenders(h)
      PROVE  IInv'
  <2>1. PICK n \in Decide(file) :
            Goto(h, "save attempt", [file EXCEPT !.fired = Append(@, NewAttempt(file, n))])
    BY <1>8 DEF StopRenders
  <2> DEFINE k == [file EXCEPT !.fired = Append(@, NewAttempt(file, n))]
  <2>2. JournalInv(k, shown) /\ Deliverable(k, NewIndex(file))
    BY <1>0, <1>8, AttemptOK DEF StopRenders
  <2>3. Goto(h, "save attempt", k)
    BY <2>1
  <2> HIDE DEF k
  <2>4. /\ attempt' = [attempt EXCEPT ![h] = NewIndex(file)]
        /\ UNCHANGED <<harness, file, acted, shown>>
    BY <1>8 DEF StopRenders
  <2>5. NewIndex(file) \in Nat
    BY <1>0, TurnType DEF NewIndex
  <2>6. HookMoves(h, "save attempt", k)
    BY <1>0, <2>2, <2>3, <2>4, <2>5 DEF HookMoves, Steps, Attempts, Drains, IInv
  <2> QED
    BY <2>6, HookMovesOK
<1>9. ASSUME NEW h \in Hooks, StopRetries(h)
      PROVE  IInv'
  <2>1. PICK n \in Decide(file) :
            \E last \in Latest(RenderedAttempts(file, n)) :
                attempt' = [attempt EXCEPT ![h] = last]
    BY <1>9 DEF StopRetries
  <2>2. PICK i \in Latest(RenderedAttempts(file, n)) : attempt' = [attempt EXCEPT ![h] = i]
    BY <2>1
  <2>3. i \in RenderedAttempts(file, n)
    BY DEF Latest
  <2>4. Deliverable(file, i) /\ i \in Nat
    BY <1>0, <2>3, RetryOK, TurnType DEF RenderedAttempts
  <2>5. HookMoves(h, "save attempt", file)
    BY <1>0, <1>9, <2>2, <2>4 DEF StopRetries, HookMoves, Steps, Attempts, Drains, IInv
  <2> QED
    BY <2>5, HookMovesOK
<1>10. ASSUME NEW h \in Hooks, SaveAttempt(h)
       PROVE  IInv'
  <2>1. Deliverable(mem[h], attempt[h])
    BY <1>10 DEF SaveAttempt, IInv, Attempts
  <2>2. HookMoves(h, "render attempt", mem[h])
    BY <1>0, <1>10, <2>1 DEF SaveAttempt, HookMoves, Steps, Attempts, Drains, IInv
  <2> QED
    BY <2>2, HookMovesOK
<1>11. ASSUME NEW h \in Hooks, RenderAttempt(h)
       PROVE  IInv'
  <2> DEFINE k == MarkDelivered(mem[h], attempt[h])
             key == mem[h].fired[attempt[h]].key
  <2>1. Deliverable(mem[h], attempt[h])
    BY <1>11 DEF RenderAttempt, IInv, Attempts
  <2>2. Goto(h, "save", k) /\ shown' = shown \cup {key}
    BY <1>11 DEF RenderAttempt
  <2>3. JournalInv(mem[h], shown') /\ JournalInv(file, shown')
    BY <1>0, <2>2, SeenGrows
  <2>4. key \in shown' /\ key \in Nudges
    BY <1>0, <2>1, <2>2, TurnType DEF Deliverable, Entries
  <2>5. JournalInv(k, shown')
    BY <2>1, <2>3, <2>4, DeliverOK
  <2> HIDE DEF k, key
  <2>6. HookMoves(h, "save", k)
    BY <1>11, <2>2, <2>3, <2>4, <2>5 DEF RenderAttempt, HookMoves, Steps, Attempts, Drains, IInv
  <2> QED
    BY <2>6, HookMovesOK
<1>12. ASSUME NEW h \in Hooks, Save(h)
       PROVE  IInv'
  BY <1>0, <1>12, FinishOK DEF Save
<1>13. ASSUME NEW h \in Hooks, Fail(h)
       PROVE  IInv'
  BY <1>0, <1>13, FinishOK DEF Fail
<1>14. ASSUME NEW target \in Paths \cup Memories, Act(target)
       PROVE  IInv'
  BY <1>14 DEF Act, IInv
<1>15. CASE UNCHANGED vars
  BY <1>15 DEF vars, IInv
<1> QED
  BY <1>1, <1>2, <1>3, <1>4, <1>5, <1>6, <1>7, <1>8, <1>9, <1>10, <1>11, <1>12, <1>13,
     <1>14, <1>15 DEF Next
LEMMA Invariant == Spec => []IInv
  BY InitOK, StepOK, PTL DEF Spec

\* The state is well formed, advice keeps to its cap, and a hook that renders
\* has an entry to mark (cli/nudge.go writes it through the index it kept).
THEOREM TypeCorrect == Spec => []TypeOK
<1>1. IInv => TypeOK
  BY DEF IInv, TypeOK, JournalInv, Deliverable, Steps, Attempts
<1> QED
  BY <1>1, Invariant, PTL

\* However hooks overlap, die or render again, the journal never shows more
\* nudges that used up budget than max_per_session, and none of them twice.
THEOREM BudgetIsKept == Spec => []BudgetKept
<1>1. IInv => BudgetKept
  BY ConfigTypes DEF IInv, JournalInv, Budgeted, MayRecur, BudgetKept
<1> QED
  BY <1>1, Invariant, PTL

\* Queued nudges were decided at least cooldown_turns apart.
THEOREM QueuedStayApart == Spec => []QueuedApart
<1>1. IInv => QueuedApart
  BY DEF IInv, JournalInv, Apart, QueuedApart
<1> QED
  BY <1>1, Invariant, PTL

\* What the journal calls delivered was given to the agent before.
THEOREM DeliveredIsShown == Spec => []DeliveredWasShown
<1>1. IInv => DeliveredWasShown
  BY DEF IInv, JournalInv, Accounted, DeliveredWasShown
<1> QED
  BY <1>1, Invariant, PTL

-----------------------------------------------------------------------------
(* The report: the queue holds one text for every queued nudge that is not  *)
(* delivered, in every copy of the journal.                                 *)

Undelivered(j) == {i \in DOMAIN j.fired : j.fired[i].queued /\ j.fired[i].delivered = 0}
Balanced(j) == Len(j.pending) = Cardinality(Undelivered(j))
BalanceInv == Balanced(file) /\ \A h \in Hooks : Balanced(mem[h])

LEMMA UndeliveredIsFinite ==
    ASSUME NEW j \in Journals
    PROVE  IsFiniteSet(Undelivered(j)) /\ Cardinality(Undelivered(j)) \in Nat
<1>1. Undelivered(j) \in SUBSET (1..Len(j.fired)) /\ Len(j.fired) \in Nat
  BY TurnType DEF Undelivered
<1>2. IsFiniteSet(1..Len(j.fired))
  BY <1>1, FS_Interval
<1> QED
  BY <1>1, <1>2, FS_Subset, FS_CardinalityType

\* What does not touch the fired nudges and the queue keeps the balance.
LEMMA SameBalance ==
    ASSUME NEW j, NEW k, Balanced(j), k.fired = j.fired, k.pending = j.pending
    PROVE  Balanced(k)
  BY DEF Balanced, Undelivered

LEMMA NewBalance == Balanced(NewJournal)
<1>1. Undelivered(NewJournal) = {} /\ Len(NewJournal.pending) = 0
  BY DEF Undelivered, NewJournal
<1> QED
  BY <1>1, FS_EmptySet DEF Balanced

\* A stop hook that queues adds an undelivered entry and its text, one that
\* renders adds an attempt, which is not queued.
LEMMA EntryBalance ==
    ASSUME NEW j \in Journals, Balanced(j), NEW n \in Nudges, NEW e \in Entries,
           e.key = n, e.delivered = 0, NEW queue \in Seq(Nudges),
           Len(queue) = IF e.queued THEN Len(j.pending) + 1 ELSE Len(j.pending)
    PROVE  Balanced([j EXCEPT !.fired = Append(@, e), !.pending = queue])
<1> DEFINE f == [j EXCEPT !.fired = Append(@, e)]
           k == [j EXCEPT !.fired = Append(@, e), !.pending = queue]
           end == Len(j.fired) + 1
<1>1. /\ DOMAIN f.fired = 1..end
      /\ \A i \in DOMAIN j.fired : i \in DOMAIN f.fired /\ f.fired[i] = j.fired[i]
      /\ f.fired[end] = e
  BY FiredGrows
<1>2. k.fired = f.fired /\ k.pending = queue
  BY DEF Journals
<1>3. DOMAIN j.fired = 1..Len(j.fired) /\ Len(j.fired) \in Nat
  BY TurnType
<1> HIDE DEF f, k
<1>4. Undelivered(k) = IF e.queued THEN Undelivered(j) \cup {end} ELSE Undelivered(j)
  BY <1>1, <1>2, <1>3 DEF Undelivered
<1>5. end \notin Undelivered(j)
  BY <1>3 DEF Undelivered
<1>6. IsFiniteSet(Undelivered(j))
  BY UndeliveredIsFinite
<1>7. Cardinality(Undelivered(j) \cup {end}) = Cardinality(Undelivered(j)) + 1
  BY <1>5, <1>6, FS_AddElement
<1>8. Balanced(k)
  BY <1>2, <1>4, <1>7 DEF Balanced
<1> QED
  BY <1>8 DEF k

\* Marking a rendered attempt changes no queued entry.
LEMMA DeliverBalance ==
    ASSUME NEW j \in Journals, Balanced(j), NEW i, Deliverable(j, i)
    PROVE  Balanced(MarkDelivered(j, i))
<1> DEFINE k == MarkDelivered(j, i)
           g == [j.fired[i] EXCEPT !.pendingDelivery = FALSE, !.delivered = Turn(j)]
<1>1. i \in DOMAIN j.fired /\ ~j.fired[i].queued /\ j.fired[i] \in Entries
  BY TurnType DEF Deliverable
<1>2. ~g.queued
  BY <1>1 DEF Entries
<1>3. k.fired = [j.fired EXCEPT ![i] = g] /\ k.pending = j.pending
  BY DEF MarkDelivered, Journals
<1> HIDE DEF k, g
<1>4. /\ DOMAIN k.fired = DOMAIN j.fired /\ k.fired[i] = g
      /\ \A x \in DOMAIN j.fired \ {i} : k.fired[x] = j.fired[x]
  BY <1>1, <1>3
<1>5. Undelivered(k) = Undelivered(j)
  BY <1>1, <1>2, <1>4 DEF Undelivered
<1>6. Balanced(k)
  BY <1>3, <1>5 DEF Balanced
<1> QED
  BY <1>6 DEF k

\* Draining marks every queued entry, in a turn that is not 0, and empties the
\* queue.
LEMMA DrainBalance ==
    ASSUME NEW j \in Journals, Turn(j) > 0
    PROVE  Balanced([MarkQueuedDrained(j) EXCEPT !.pending = <<>>])
<1> DEFINE k == [MarkQueuedDrained(j) EXCEPT !.pending = <<>>]
           Marked(f) == IF f.queued /\ f.delivered = 0 THEN [f EXCEPT !.delivered = Turn(j)] ELSE f
           fired == [i \in DOMAIN j.fired |-> Marked(j.fired[i])]
<1>1. k.fired = fired /\ k.pending = <<>>
  BY DEF MarkQueuedDrained, Journals
<1>2. Turn(j) \in Nat /\ \A i \in DOMAIN j.fired : j.fired[i] \in Entries
  BY TurnType
<1>3. \A i \in DOMAIN j.fired : ~(fired[i].queued /\ fired[i].delivered = 0)
  BY <1>2 DEF Entries
<1>4. DOMAIN fired = DOMAIN j.fired
  OBVIOUS
<1> HIDE DEF fired, k
<1>5. Undelivered(k) = {}
  BY <1>1, <1>3, <1>4 DEF Undelivered
<1>6. Balanced(k)
  BY <1>1, <1>5, FS_EmptySet DEF Balanced
<1> QED
  BY <1>6 DEF k

\* A hook that goes on with a balanced copy, and saves one if any.
HookBalances(h, step, k) ==
    /\ h \in Hooks
    /\ Goto(h, step, k)
    /\ Balanced(k) /\ Balanced(file')

LEMMA HookBalancesOK ==
    ASSUME IInv, BalanceInv, NEW h, NEW step, NEW k, HookBalances(h, step, k)
    PROVE  BalanceInv'
<1>1. h \in Hooks /\ mem' = [mem EXCEPT ![h] = k] /\ Balanced(k)
  BY DEF HookBalances, Goto
<1>2. \A g \in Hooks : Balanced(mem'[g])
  BY <1>1 DEF IInv, BalanceInv
<1>3. Balanced(file')
  BY DEF HookBalances
<1> QED
  BY <1>2, <1>3 DEF BalanceInv, Balanced, Undelivered

LEMMA BalanceStep ==
    ASSUME IInv, BalanceInv, [Next]_vars
    PROVE  BalanceInv'
<1>0. /\ file \in Journals /\ SelfReviewsTimed(file) /\ harness \in Harnesses
      /\ Balanced(file)
      /\ \A h \in Hooks : mem[h] \in Journals /\ Balanced(mem[h])
  BY DEF IInv, JournalInv, BalanceInv
<1>1. ASSUME NEW h \in Hooks, NEW event \in ToolCalls, NEW new \in SUBSET Memories,
             PostTool(h, event, new)
      PROVE  \E step, k : HookBalances(h, step, k)
  <2> DEFINE r == Record(file, event)
             j == [r EXCEPT !.injected = @ \cup new]
             k == RecordSurfaced(j, new, [m \in new |-> event.path])
  <2>1. r \in Journals /\ r.fired = file.fired /\ r.pending = file.pending
    BY <1>0, RecordType
  <2>2. k.fired = r.fired /\ k.pending = r.pending
    <3> HIDE DEF r
    <3> QED
      BY <2>1 DEF RecordSurfaced, Journals
  <2>3. Goto(h, "save", k) /\ file' = file
    BY <1>1 DEF PostTool
  <2> HIDE DEF k, r
  <2>4. Balanced(k)
    BY <1>0, <2>1, <2>2, SameBalance
  <2> QED
    BY <1>0, <2>3, <2>4 DEF HookBalances
<1>2. ASSUME NEW h \in Hooks, NEW p \in Paths \cup Signatures, PreTool(h, p)
      PROVE  \E step, k : HookBalances(h, step, k)
  <2> DEFINE k == RecordSurfaced(file, Matching[p], FirstScope)
  <2>1. k.fired = file.fired /\ k.pending = file.pending
    BY <1>0 DEF RecordSurfaced, Journals
  <2>2. Goto(h, "save", k) /\ file' = file
    BY <1>2 DEF PreTool
  <2> HIDE DEF k
  <2>3. Balanced(k)
    BY <1>0, <2>1, SameBalance
  <2> QED
    BY <1>0, <2>2, <2>3 DEF HookBalances
<1>3. ASSUME NEW h \in Hooks, PromptSubmit(h)
      PROVE  \E step, k : HookBalances(h, step, k)
  <2> DEFINE k == Record(file, Prompt)
  <2>1. k.fired = file.fired /\ k.pending = file.pending
    BY <1>0, RecordType
  <2>2. Goto(h, "save prompt", k) /\ file' = file
    BY <1>3 DEF PromptSubmit
  <2> HIDE DEF k
  <2>3. Balanced(k)
    BY <1>0, <2>1, SameBalance
  <2> QED
    BY <1>0, <2>2, <2>3 DEF HookBalances
<1>4. ASSUME NEW h \in Hooks, SavePrompt(h) \/ SaveAttempt(h) \/ Save(h)
      PROVE  \E step, k : HookBalances(h, step, k)
  <2>1. file' = mem[h]
    BY <1>4 DEF SavePrompt, SaveAttempt, Save
  <2>2. \/ Goto(h, "idle", NewJournal) \/ Goto(h, "render pending", mem[h])
        \/ Goto(h, "render attempt", mem[h])
    BY <1>4 DEF SavePrompt, SaveAttempt, Save, Finish
  <2> QED
    BY <1>0, <2>1, <2>2, NewBalance DEF HookBalances
<1>5. ASSUME NEW h \in Hooks, RenderPending(h)
      PROVE  \E step, k : HookBalances(h, step, k)
  <2> DEFINE k == [MarkQueuedDrained(mem[h]) EXCEPT !.pending = <<>>]
  <2>1. Goto(h, "save", k) /\ file' = file /\ Turn(mem[h]) > 0
    BY <1>5 DEF RenderPending, IInv, Drains
  <2>2. Balanced(k)
    BY <1>0, <2>1, DrainBalance
  <2> HIDE DEF k
  <2> QED
    BY <1>0, <2>1, <2>2 DEF HookBalances
<1>6. ASSUME NEW h \in Hooks, StopSilently(h) \/ StopRetries(h)
      PROVE  \E step, k : HookBalances(h, step, k)
  BY <1>0, <1>6 DEF StopSilently, StopRetries, HookBalances
<1>7. ASSUME NEW h \in Hooks, StopQueues(h)
      PROVE  \E step, k : HookBalances(h, step, k)
  <2>1. PICK n \in Decide(file) :
            Goto(h, "save", [file EXCEPT !.fired = Append(@, FiredFromNudge(n, file)),
                                        !.pending = Append(@, n)])
    BY <1>7 DEF StopQueues
  <2>2. n \in Nudges /\ file.pending \in Seq(Nudges)
    BY <1>0, DecideIsFresh DEF Journals
  <2>3. PICK e \in Entries : /\ e = FiredFromNudge(n, file)
                             /\ e.key = n /\ e.delivered = 0 /\ e.queued
    BY <1>0, <1>7, <2>2, FiredType DEF FiredFromNudge, StopQueues
  <2>4. /\ Append(file.pending, n) \in Seq(Nudges)
         /\ Len(Append(file.pending, n)) = Len(file.pending) + 1
    BY <2>2, AppendProperties
  <2>5. PICK queue \in Seq(Nudges) : /\ queue = Append(file.pending, n)
                                     /\ Len(queue) = Len(file.pending) + 1
    <3> DEFINE appended == Append(file.pending, n)
    <3>1. appended \in Seq(Nudges) /\ Len(appended) = Len(file.pending) + 1
      BY <2>4
    <3> HIDE DEF appended
    <3>2. \E queue \in Seq(Nudges) : queue = appended /\ Len(queue) = Len(file.pending) + 1
      BY <3>1
    <3> QED
      BY <3>2 DEF appended
  <2>6. PICK k : /\ k = [file EXCEPT !.fired = Append(@, e), !.pending = queue]
                 /\ Goto(h, "save", k)
    BY <2>1, <2>3, <2>5
  <2>7. Balanced(k)
    BY <1>0, <2>2, <2>3, <2>5, <2>6, EntryBalance
  <2> QED
    BY <1>0, <1>7, <2>6, <2>7 DEF StopQueues, HookBalances
<1>8. ASSUME NEW h \in Hooks, StopRenders(h)
      PROVE  \E step, k : HookBalances(h, step, k)
  <2>1. PICK n \in Decide(file) :
            Goto(h, "save attempt", [file EXCEPT !.fired = Append(@, NewAttempt(file, n))])
    BY <1>8 DEF StopRenders
  <2>2. n \in Nudges /\ file.pending \in Seq(Nudges)
    BY <1>0, DecideIsFresh DEF Journals
  <2>3. PICK e \in Entries : /\ e = NewAttempt(file, n)
                             /\ e.key = n /\ e.delivered = 0 /\ ~e.queued
    BY <1>0, <1>8, <2>2, FiredType DEF NewAttempt, FiredFromNudge, StopRenders
  <2>4. [file EXCEPT !.fired = Append(@, e)]
          = [file EXCEPT !.fired = Append(@, e), !.pending = file.pending]
    BY <1>0 DEF Journals
  <2>5. PICK k : /\ k = [file EXCEPT !.fired = Append(@, e), !.pending = file.pending]
                 /\ Goto(h, "save attempt", k)
    BY <2>1, <2>3, <2>4
  <2>6. Balanced(k)
    BY <1>0, <2>2, <2>3, <2>5, EntryBalance
  <2> QED
    BY <1>0, <1>8, <2>5, <2>6 DEF StopRenders, HookBalances
<1>9. ASSUME NEW h \in Hooks, RenderAttempt(h)
      PROVE  \E step, k : HookBalances(h, step, k)
  <2>1. /\ Goto(h, "save", MarkDelivered(mem[h], attempt[h])) /\ file' = file
        /\ Deliverable(mem[h], attempt[h])
    BY <1>9 DEF RenderAttempt, IInv, Attempts
  <2>2. Balanced(MarkDelivered(mem[h], attempt[h]))
    BY <1>0, <2>1, DeliverBalance
  <2> QED
    BY <1>0, <2>1, <2>2 DEF HookBalances
<1>10. ASSUME NEW h \in Hooks, Fail(h)
       PROVE  \E step, k : HookBalances(h, step, k)
  BY <1>0, <1>10, NewBalance DEF Fail, Finish, HookBalances
<1>11. ASSUME NEW target \in Paths \cup Memories, Act(target)
       PROVE  UNCHANGED <<file, mem>>
  BY <1>11 DEF Act
<1>12. CASE UNCHANGED <<file, mem>>
  BY <1>12 DEF BalanceInv, Balanced, Undelivered
<1>13. (\E h \in Hooks : \E step, k : HookBalances(h, step, k)) \/ UNCHANGED <<file, mem>>
  BY <1>1, <1>2, <1>3, <1>4, <1>5, <1>6, <1>7, <1>8, <1>9, <1>10, <1>11 DEF Next, vars
<1> QED
  BY <1>12, <1>13, HookBalancesOK

\* The numbers of the report, from the balance of the journal.
LEMMA BalancedReport ==
    ASSUME file \in Journals, Balanced(file)
    PROVE  ReportBalances
<1> DEFINE D == DOMAIN file.fired
           A == {i \in D : [k \in D |-> ~CountsForPolicy(file.fired[k])][i]}
           Q == {i \in D : [k \in D |-> file.fired[k].queued][i]}
           R == {i \in D : [k \in D |-> file.fired[k].queued /\ file.fired[k].delivered > 0][i]}
           U == Undelivered(file)
<1>1. /\ D = 1..Len(file.fired) /\ Len(file.fired) \in Nat
      /\ \A i \in D : file.fired[i] \in Entries
  BY TurnType
<1>2. IsFiniteSet(D)
  BY <1>1, FS_Interval
<1>3. A = D \ Counted(file)
  BY DEF Counted
<1>4. Q = R \cup U /\ R \cap U = {}
  <2>1. /\ Q = {i \in D : file.fired[i].queued}
        /\ R = {i \in D : file.fired[i].queued /\ file.fired[i].delivered > 0}
        /\ U = {i \in D : file.fired[i].queued /\ file.fired[i].delivered = 0}
    BY DEF Undelivered
  <2>2. \A i \in D : file.fired[i].delivered \in Nat
    BY <1>1 DEF Entries
  <2> HIDE DEF D, Q, R, U
  <2> QED
    BY <2>1, <2>2
<1>5. A \in SUBSET D /\ Q \in SUBSET D /\ R \in SUBSET D /\ U \in SUBSET D
  BY DEF Undelivered
<1>6. /\ IsFiniteSet(R) /\ IsFiniteSet(U)
      /\ Cardinality(A) \in Nat /\ Cardinality(Q) \in Nat
      /\ Cardinality(R) \in Nat /\ Cardinality(U) \in Nat
  <2> HIDE DEF D, A, Q, R, U
  <2> QED
    BY <1>2, <1>5, FS_Subset, FS_CardinalityType
<1>7. Cardinality(Q) = Cardinality(R) + Cardinality(U)
  <2> HIDE DEF D, A, Q, R, U
  <2>1. Cardinality(R \cap U) = 0
    BY <1>4, FS_EmptySet
  <2>2. Cardinality(R \cup U) = Cardinality(R) + Cardinality(U) - Cardinality(R \cap U)
    BY <1>6, FS_Union
  <2>3. Q = R \cup U
    BY <1>4
  <2> QED
    BY <1>6, <2>1, <2>2, <2>3
<1>8. Len(file.pending) = Cardinality(U)
  BY DEF Balanced
<1>9. /\ BuildReport(file).fired = Len(file.fired) - Cardinality(A)
      /\ BuildReport(file).rendered = Len(file.fired) - Cardinality(A) - Cardinality(Q)
      /\ BuildReport(file).pending = Len(file.pending) + Cardinality(A)
      /\ BuildReport(file).drained = Cardinality(R)
  BY DEF BuildReport
<1> HIDE DEF D, A, Q, R, U
<1>10. BuildReport(file).fired + Cardinality(A)
         = BuildReport(file).rendered + BuildReport(file).drained + BuildReport(file).pending
  BY <1>1, <1>6, <1>7, <1>8, <1>9
<1> QED
  BY <1>3, <1>10 DEF ReportBalances, D

\* However hooks overlap, die or fail to render, what tm nudge report says
\* fired was delivered or is pending, and nothing is counted twice.
THEOREM ReportsBalance == Spec => []ReportBalances
<1>1. Init => BalanceInv
  BY NewBalance DEF Init, BalanceInv
<1>2. IInv /\ BalanceInv /\ [Next]_vars => BalanceInv'
  BY BalanceStep
<1>3. IInv /\ BalanceInv => ReportBalances
  BY BalancedReport DEF IInv, JournalInv, BalanceInv
<1> QED
  BY <1>1, <1>2, <1>3, Invariant, PTL DEF Spec

-----------------------------------------------------------------------------
(* One hook at a time: what it will save continues what is on disk.         *)

Keeps(j, k, seen) ==
    /\ Keys(j.pending) \ Keys(k.pending) \subseteq seen
    /\ Turn(j) <= Turn(k) /\ \A t \in 1..Turn(j) : k.log[t] = j.log[t]
    /\ \A i \in DOMAIN j.fired : i \in DOMAIN k.fired /\ k.fired[i].key = j.fired[i].key

Serial ==
    /\ \A g, h \in Hooks : pc[g] # "idle" /\ pc[h] # "idle" => g = h
    /\ \A h \in Hooks : pc[h] # "idle" => Keeps(file, mem[h], shown)

SerialInv == ~harness.overlaps => Serial

LEMMA KeepsSelf ==
    ASSUME NEW j \in Journals, NEW seen
    PROVE  Keeps(j, j, seen)
  BY TurnType DEF Keeps

\* h starts or goes on, and what it saved and still holds loses nothing.
HookKeeps(h, step, k) ==
    /\ h \in Hooks
    /\ Goto(h, step, k)
    /\ pc[h] # "idle" \/ Starts(h)
    /\ step = "idle" \/ Keeps(file', k, shown')
    /\ Keeps(file, file', shown)

LEMMA HookKeepsOK ==
    ASSUME IInv, Serial, ~harness.overlaps, NEW h, NEW step, NEW k, HookKeeps(h, step, k)
    PROVE  Serial' /\ Keeps(file, file', shown)
<1>1. /\ h \in Hooks
      /\ pc' = [pc EXCEPT ![h] = step] /\ mem' = [mem EXCEPT ![h] = k]
      /\ step = "idle" \/ Keeps(file', k, shown')
  BY DEF HookKeeps, Goto
<1>2. \A g \in Hooks \ {h} : pc[g] = "idle"
  BY DEF HookKeeps, Starts, Serial
<1>3. \A g \in Hooks \ {h} : pc'[g] = "idle"
  BY <1>1, <1>2 DEF IInv
<1>4. pc'[h] # "idle" => Keeps(file', mem'[h], shown')
  BY <1>1 DEF IInv
<1> QED
  BY <1>3, <1>4 DEF Serial, HookKeeps
LEMMA SerialStep ==
    ASSUME IInv, Serial, ~harness.overlaps, [Next]_vars
    PROVE  Serial' /\ Keeps(file, file', shown)
<1>0. /\ file \in Journals /\ SelfReviewsTimed(file) /\ harness \in Harnesses
      /\ \A h \in Hooks : mem[h] \in Journals
      /\ Keeps(file, file, shown)
  BY KeepsSelf DEF IInv, JournalInv
<1>1. ASSUME NEW h \in Hooks, NEW event \in ToolCalls, NEW new \in SUBSET Memories,
             PostTool(h, event, new)
      PROVE  \E step, k : HookKeeps(h, step, k)
  <2> DEFINE r == Record(file, event)
             j == [r EXCEPT !.injected = @ \cup new]
             k == RecordSurfaced(j, new, [m \in new |-> event.path])
  <2>1. /\ r \in Journals /\ r.fired = file.fired /\ r.pending = file.pending
        /\ Turn(r) = Turn(file) + 1 /\ \A t \in 1..Turn(file) : r.log[t] = file.log[t]
    BY <1>0, RecordType
  <2>2. k.fired = r.fired /\ k.pending = r.pending /\ k.log = r.log
    <3> HIDE DEF r
    <3> QED
      BY <2>1 DEF RecordSurfaced, Journals
  <2>3. Goto(h, "save", k) /\ Starts(h) /\ UNCHANGED <<file, shown>>
    BY <1>1 DEF PostTool
  <2> HIDE DEF k, r
  <2>4. Keeps(file, k, shown)
    BY <1>0, <2>1, <2>2, TurnType DEF Keeps, Turn
  <2> QED
    BY <1>0, <2>3, <2>4 DEF HookKeeps
<1>2. ASSUME NEW h \in Hooks, NEW p \in Paths \cup Signatures, PreTool(h, p)
      PROVE  \E step, k : HookKeeps(h, step, k)
  <2> DEFINE k == RecordSurfaced(file, Matching[p], FirstScope)
  <2>1. k.fired = file.fired /\ k.pending = file.pending /\ k.log = file.log
    BY <1>0 DEF RecordSurfaced, Journals
  <2>2. Goto(h, "save", k) /\ Starts(h) /\ UNCHANGED <<file, shown>>
    BY <1>2 DEF PreTool
  <2> HIDE DEF k
  <2>3. Keeps(file, k, shown)
    BY <1>0, <2>1 DEF Keeps, Turn
  <2> QED
    BY <1>0, <2>2, <2>3 DEF HookKeeps
<1>3. ASSUME NEW h \in Hooks, PromptSubmit(h)
      PROVE  \E step, k : HookKeeps(h, step, k)
  <2> DEFINE k == Record(file, Prompt)
  <2>1. /\ k.fired = file.fired /\ k.pending = file.pending
        /\ Turn(k) = Turn(file) + 1 /\ \A t \in 1..Turn(file) : k.log[t] = file.log[t]
    BY <1>0, RecordType
  <2>2. Goto(h, "save prompt", k) /\ Starts(h) /\ UNCHANGED <<file, shown>>
    BY <1>3 DEF PromptSubmit
  <2> HIDE DEF k
  <2>3. Keeps(file, k, shown)
    BY <1>0, <2>1, TurnType DEF Keeps
  <2> QED
    BY <1>0, <2>2, <2>3 DEF HookKeeps
\* Saving: the copy continued the journal, and the journal is now the copy.
<1>4. ASSUME NEW h \in Hooks, pc[h] # "idle", file' = mem[h], shown' = shown,
             NEW step, (Goto(h, step, NewJournal) /\ step = "idle") \/ Goto(h, step, mem[h])
      PROVE  \E s, k : HookKeeps(h, s, k)
  <2>1. Keeps(file, file', shown)
    BY <1>4 DEF Serial
  <2>2. Keeps(file', mem[h], shown')
    BY <1>0, <1>4, KeepsSelf
  <2> QED
    BY <1>4, <2>1, <2>2 DEF HookKeeps
<1>5. ASSUME NEW h \in Hooks, RenderPending(h)
      PROVE  \E step, k : HookKeeps(h, step, k)
  <2> DEFINE j == mem[h]
             k == [MarkQueuedDrained(j) EXCEPT !.pending = <<>>]
  <2>1. /\ Goto(h, "save", k) /\ shown' = shown \cup Keys(j.pending) /\ file' = file
        /\ pc[h] # "idle"
    BY <1>5 DEF RenderPending
  <2>2. Keeps(file, j, shown)
    BY <2>1 DEF Serial
  <2>3. k.log = j.log /\ DOMAIN k.fired = DOMAIN j.fired
    BY <1>0 DEF MarkQueuedDrained, Journals
  <2>4. \A i \in DOMAIN j.fired : k.fired[i].key = j.fired[i].key
    BY <1>0, TurnType DEF MarkQueuedDrained, Journals, Entries
  <2> HIDE DEF k, j
  <2>5. Keeps(file, k, shown')
    BY <2>1, <2>2, <2>3, <2>4 DEF Keeps, Turn
  <2> QED
    BY <1>0, <2>1, <2>5 DEF HookKeeps
<1>6. ASSUME NEW h \in Hooks, StopSilently(h) \/ StopRetries(h)
      PROVE  \E step, k : HookKeeps(h, step, k)
  BY <1>0, <1>6 DEF StopSilently, StopRetries, HookKeeps
<1>7. ASSUME NEW n \in Decide(file), NEW e \in Entries, NEW k,
             \/ k = [file EXCEPT !.fired = Append(@, e)]
             \/ k = [file EXCEPT !.fired = Append(@, e), !.pending = Append(@, n)]
      PROVE  Keeps(file, k, shown)
  <2>1. n \in Nudges /\ file.pending \in Seq(Nudges) /\ file.fired \in Seq(Entries)
    BY <1>0, DecideIsFresh DEF Journals
  <2>2. /\ k.log = file.log /\ k.fired = Append(file.fired, e)
        /\ k.pending = file.pending \/ k.pending = Append(file.pending, n)
    BY <1>0, <1>7 DEF Journals
  <2>3. Keys(file.pending) \subseteq Keys(Append(file.pending, n))
    BY <2>1, AppendProperties, LenProperties DEF Keys
  <2>4. \A i \in DOMAIN file.fired : i \in DOMAIN k.fired /\ k.fired[i] = file.fired[i]
    BY <2>1, <2>2, AppendProperties, LenProperties
  <2>5. Keys(file.pending) \ Keys(k.pending) \subseteq shown
    BY <2>2, <2>3
  <2>6. Turn(k) = Turn(file) /\ Turn(file) \in Nat
    BY <1>0, <2>2, TurnType DEF Turn
  <2> QED
    BY <2>2, <2>4, <2>5, <2>6 DEF Keeps
<1>8. ASSUME NEW h \in Hooks, StopQueues(h)
      PROVE  \E step, k : HookKeeps(h, step, k)
  <2>1. PICK n \in Decide(file) :
            Goto(h, "save", [file EXCEPT !.fired = Append(@, FiredFromNudge(n, file)),
                                        !.pending = Append(@, n)])
    BY <1>8 DEF StopQueues
  <2>2. FiredFromNudge(n, file) \in Entries
    BY <1>0, DecideIsFresh, FiredType
  <2>3. PICK k : /\ k = [file EXCEPT !.fired = Append(@, FiredFromNudge(n, file)),
                                    !.pending = Append(@, n)]
                 /\ Goto(h, "save", k)
    BY <2>1
  <2>4. Keeps(file, k, shown)
    BY <1>7, <2>2, <2>3
  <2> QED
    BY <1>0, <1>8, <2>3, <2>4 DEF StopQueues, HookKeeps
<1>9. ASSUME NEW h \in Hooks, StopRenders(h)
      PROVE  \E step, k : HookKeeps(h, step, k)
  <2>1. PICK n \in Decide(file) :
            Goto(h, "save attempt", [file EXCEPT !.fired = Append(@, NewAttempt(file, n))])
    BY <1>9 DEF StopRenders
  <2>2. NewAttempt(file, n) \in Entries
    BY <1>0, DecideIsFresh, FiredType
  <2>3. PICK k : /\ k = [file EXCEPT !.fired = Append(@, NewAttempt(file, n))]
                 /\ Goto(h, "save attempt", k)
    BY <2>1
  <2>4. Keeps(file, k, shown)
    BY <1>7, <2>2, <2>3
  <2> QED
    BY <1>0, <1>9, <2>3, <2>4 DEF StopRenders, HookKeeps
<1>10. ASSUME NEW h \in Hooks, SavePrompt(h) \/ SaveAttempt(h) \/ Save(h)
       PROVE  \E step, k : HookKeeps(h, step, k)
  <2>1. pc[h] # "idle" /\ file' = mem[h] /\ shown' = shown
    BY <1>10 DEF SavePrompt, SaveAttempt, Save
  <2>2. \/ Goto(h, "idle", NewJournal) \/ Goto(h, "render pending", mem[h])
        \/ Goto(h, "render attempt", mem[h])
    BY <1>10 DEF SavePrompt, SaveAttempt, Save, Finish
  <2> QED
    BY <1>4, <2>1, <2>2
<1>11. ASSUME NEW h \in Hooks, RenderAttempt(h)
       PROVE  \E step, k : HookKeeps(h, step, k)
  <2> DEFINE j == mem[h]
             k == MarkDelivered(j, attempt[h])
  <2>1. /\ Goto(h, "save", k) /\ file' = file /\ shown \subseteq shown' /\ pc[h] # "idle"
    BY <1>11 DEF RenderAttempt
  <2>2. Keeps(file, j, shown)
    BY <2>1 DEF Serial
  <2>3. k.log = j.log /\ k.pending = j.pending /\ DOMAIN k.fired = DOMAIN j.fired
    BY <1>0 DEF MarkDelivered, Journals
  <2>4. \A i \in DOMAIN j.fired : k.fired[i].key = j.fired[i].key
    BY <1>0, TurnType DEF MarkDelivered, Journals, Entries
  <2> HIDE DEF k, j
  <2>5. Keeps(file, k, shown')
    BY <2>1, <2>2, <2>3, <2>4 DEF Keeps, Turn
  <2> QED
    BY <1>0, <2>1, <2>5 DEF HookKeeps
<1>12. ASSUME NEW h \in Hooks, Fail(h)
       PROVE  \E step, k : HookKeeps(h, step, k)
  BY <1>0, <1>12 DEF Fail, Finish, HookKeeps
<1>13. CASE UNCHANGED <<file, pc, mem, shown>>
  BY <1>0, <1>13 DEF Serial
<1>14. (\E h \in Hooks : \E step, k : HookKeeps(h, step, k)) \/ UNCHANGED <<file, pc, mem, shown>>
  <2>1. ASSUME NEW target \in Paths \cup Memories, Act(target)
        PROVE  UNCHANGED <<file, pc, mem, shown>>
    BY <2>1 DEF Act
  <2> QED
    BY <1>1, <1>2, <1>3, <1>5, <1>6, <1>8, <1>9, <1>10, <1>11, <1>12, <2>1 DEF Next, vars
<1> QED
  BY <1>13, <1>14, HookKeepsOK

\* A session is in one harness.
LEMMA HarnessStays == [Next]_vars => harness' = harness
  BY DEF Next, vars, PostTool, PreTool, PromptSubmit, SavePrompt, RenderPending, StopSilently,
         StopQueues, StopRenders, StopRetries, SaveAttempt, RenderAttempt, Save, Fail, Act

\* At least once: where the hooks of a session run one at a time, a queued
\* nudge leaves the queue on disk only once the agent was given it, and what
\* the journal logged and fired stays in it, whichever hooks fail.
THEOREM NothingIsForgotten == Spec => NothingForgotten
<1>1. Init => SerialInv
  BY DEF Init, SerialInv, Serial
<1>2. IInv /\ SerialInv /\ [Next]_vars => SerialInv'
  BY SerialStep, HarnessStays DEF SerialInv
<1>3. IInv /\ SerialInv /\ [Next]_vars =>
          (~harness.overlaps => Keeps(file, file', shown))
  BY SerialStep DEF SerialInv
<1>4. IInv /\ SerialInv /\ [Next]_vars =>
          [~harness.overlaps =>
             /\ Keys(file.pending) \ Keys(file'.pending) \subseteq shown
             /\ Turn(file) <= Turn(file') /\ \A t \in 1..Turn(file) : file'.log[t] = file.log[t]
             /\ \A i \in DOMAIN file.fired : /\ i \in DOMAIN file'.fired
                                             /\ file'.fired[i].key = file.fired[i].key]_vars
  BY <1>3 DEF Keeps
<1> QED
  BY <1>1, <1>2, <1>4, Invariant, PTL DEF Spec, NothingForgotten
=============================================================================

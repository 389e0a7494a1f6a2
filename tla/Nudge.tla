------------------------------- MODULE Nudge -------------------------------
(***************************************************************************)
(* The nudge journal of one session (src/internal/nudge) and the hooks that *)
(* keep it: after each tool call (cli/signal.go), at each prompt            *)
(* (recordPromptSignal), before each tool call (cli/checkaction.go) and at  *)
(* the end of the agent's turn (cli/nudge.go).                              *)
(*                                                                          *)
(* A hook is a process that loads the journal, works on its copy and saves  *)
(* the copy as a whole; what it shows the agent it renders between two      *)
(* saves. It may be killed, or fail to render or to save, at any step.      *)
(* Suppressions, texts and wall-clock times are left out; where a time      *)
(* stands for an event, the turn of the event stands for it here.           *)
(***************************************************************************)
EXTENDS Integers, Sequences, FiniteSets

CONSTANTS Hooks,        \* hook processes that can run at the same time
          Paths,        \* files an agent edits
          Commands,     \* outcomes a hook reports: [signature, failed, revert]
          Memories,
          Matching,     \* path or command signature -> memories retrieved for it
          FirstScope,   \* memory -> first entry of its effective scope, or None
          Requirements, \* memories that block instead of advising
          Drifted,      \* memories whose anchors have drifted
          Harnesses,    \* [queues, injects, overlaps], see Harness
          Config,       \* policy.yaml, nudge
          AdvisoryMax,  \* policy.yaml, inject.advisory_max_per_session
          MaxTurns,     \* bound on a session's tool calls and prompts, per harness
          None

(***************************************************************************)
(* A harness queues nudges for the next prompt if what a stop hook prints   *)
(* does not reach the agent; it injects advice after an edit unless it does *)
(* so before; it overlaps if it runs hooks of a session side by side, as    *)
(* for parallel tool calls.                                                 *)
(***************************************************************************)
Harness == [queues : BOOLEAN, injects : BOOLEAN, overlaps : BOOLEAN]

Signatures == {c.signature : c \in Commands}

ASSUME NudgeAssumption ==
    /\ Harnesses \subseteq Harness
    /\ Config.enabled \in BOOLEAN
    /\ {Config.maxPerSession, Config.cooldownTurns, Config.selfReviewEvery,
        Config.churnThreshold, AdvisoryMax} \subseteq Nat
    /\ MaxTurns \in [Harnesses -> Nat]
    /\ IsFiniteSet(Memories)
    /\ Matching \in [Paths \cup Signatures -> SUBSET Memories]
    /\ DOMAIN FirstScope = Memories
    /\ \A c \in Commands : c.failed \in BOOLEAN /\ c.revert \in BOOLEAN

VARIABLES harness,  \* the one this session runs in
          file,     \* the journal on disk
          pc,       \* hook -> what it does next
          mem,      \* hook -> its copy of the journal
          attempt,  \* hook -> index of the nudge it renders
          acted,    \* paths and memories this session has filed records on
          shown     \* history: nudges the agent was given

vars == <<harness, file, pc, mem, attempt, acted, shown>>

-----------------------------------------------------------------------------
(* The journal. Every tool call and every prompt takes one turn, so its     *)
(* turn is its place in the log.                                            *)

Edit(p)    == [kind |-> "edit", path |-> p, command |-> None]
Command(c) == [kind |-> "command", path |-> None, command |-> c]
Prompt     == [kind |-> "prompt", path |-> None, command |-> None]
Other      == [kind |-> "other", path |-> None, command |-> None]  \* neither path nor outcome
ToolCalls  == {Edit(p) : p \in Paths} \cup {Command(c) : c \in Commands} \cup {Other}

NewJournal == [log |-> <<>>, surfaced |-> {}, injected |-> {}, fired |-> <<>>, pending |-> <<>>]

Turn(j) == Len(j.log)
TurnsOf(j, kind) == {t \in 1..Turn(j) : j.log[t].kind = kind}
EditsOf(j, p)    == {t \in TurnsOf(j, "edit") : j.log[t].path = p}

Record(j, event) == [j EXCEPT !.log = Append(@, event)]

RecordSurfaced(j, ms, pathOf) ==
    LET known == {s.memory : s \in j.surfaced}
    IN [j EXCEPT !.surfaced = @ \cup {[memory |-> m, path |-> pathOf[m]] : m \in ms \ known}]

\* A rendered attempt uses up no budget until it was delivered.
CountsForPolicy(f) == f.queued \/ ~f.pendingDelivery
Counted(j) == {i \in DOMAIN j.fired : CountsForPolicy(j.fired[i])}

FiredFromNudge(n, j) ==
    [key |-> n, turn |-> Turn(j), queued |-> harness.queues, pendingDelivery |-> FALSE,
     delivered |-> 0]

-----------------------------------------------------------------------------
(* Signals: a type and what it is about, which is also the key of a nudge.  *)

Signal(type, target) == [type |-> type, target |-> target]

EditsBetween(j, lo, hi) == {t \in TurnsOf(j, "edit") : lo <= t /\ t <= hi}
Latest(turns)   == {t \in turns : \A u \in turns : u <= t}
Earliest(turns) == {t \in turns : \A u \in turns : t <= u}

\* A command failed, something was edited, and the command passed.
Recoveries(j, fail) ==
    {t \in TurnsOf(j, "command") :
        /\ fail < t
        /\ ~j.log[t].command.failed
        /\ j.log[t].command.signature = j.log[fail].command.signature
        /\ EditsBetween(j, fail, t) # {}}

\* The first recovery counts, and the last edit before it names the path.
DetectFailPass(j) ==
    {Signal("fail_pass", j.log[t].path) : t \in {e \in TurnsOf(j, "edit") :
        \E fail \in TurnsOf(j, "command") :
            /\ j.log[fail].command.failed
            /\ \E pass \in Earliest(Recoveries(j, fail)) : e \in Latest(EditsBetween(j, fail, pass))}}

DetectRevert(j) ==
    {Signal("revert", None) : t \in {u \in TurnsOf(j, "command") : j.log[u].command.revert}}

DetectChurn(j) ==
    {Signal("churn", p) : p \in {q \in Paths : /\ EditsOf(j, q) # {}
                                               /\ Cardinality(EditsOf(j, q)) >= Config.churnThreshold}}

DetectObserve(j) ==
    {Signal(IF s.memory \in Drifted THEN "drift" ELSE "unobserved", s.memory) :
        s \in {x \in j.surfaced : EditsOf(j, x.path) # {}}}

\* A path was edited both before and after a prompt.
DetectIntervened(j) ==
    {Signal("intervened", p) : p \in {q \in Paths :
        \E before, after \in EditsOf(j, q), prompt \in TurnsOf(j, "prompt") :
            before < prompt /\ prompt < after}}

Detect(j) == DetectFailPass(j) \cup DetectRevert(j) \cup DetectChurn(j) \cup DetectObserve(j)
                \cup DetectIntervened(j)

-----------------------------------------------------------------------------
(* The policy: at most one nudge a turn, and none that was given before.    *)

Priority == [unobserved |-> 0, drift |-> 1, fail_pass |-> 2, revert |-> 3, churn |-> 4]

FiredKey(j, n) == \E i \in Counted(j) : j.fired[i].key = n

\* Broken variants: one nudge too many, one turn too early.
HasBudget_OneMore(j) == Cardinality(Counted(j)) <= Config.maxPerSession
HasCooledDown_Early(j) == \A i \in Counted(j) : Turn(j) - j.fired[i].turn >= Config.cooldownTurns - 1

HasBudget(j) == Cardinality(Counted(j)) < Config.maxPerSession
HasCooledDown(j) == \A i \in Counted(j) : Turn(j) - j.fired[i].turn >= Config.cooldownTurns

\* Signals that classify themselves, unless nudged for or acted on already.
TierA(j) == {s \in Detect(j) : /\ s.type # "intervened"
                               /\ ~FiredKey(j, s)
                               /\ s.target \notin acted}
TierB(j) == {s \in DetectIntervened(j) : ~FiredKey(j, s)}

SelfReview(j) ==
    IF Turn(j) >= Config.selfReviewEvery /\ TurnsOf(j, "edit") # {}
    THEN {Signal("self_review", Turn(j))} ELSE {}

\* What may fire. Between equals the order of Detect decides, which iterates
\* over maps: the choice is left open.
Decide(j) ==
    IF ~(Config.enabled /\ HasBudget(j) /\ HasCooledDown(j)) THEN {}
    ELSE IF TierA(j) # {} THEN {s \in TierA(j) : \A x \in TierA(j) : Priority[s.type] <= Priority[x.type]}
    ELSE IF TierB(j) # {} THEN TierB(j)
    ELSE SelfReview(j)

-----------------------------------------------------------------------------
(* Hooks. A step of a hook is what it does up to and including a save or a  *)
(* render, the points at which others see it or it can fail.                *)

\* Sets what h does next and the copy it holds.
Goto(h, step, j) ==
    /\ pc' = [pc EXCEPT ![h] = step]
    /\ mem' = [mem EXCEPT ![h] = j]

Starts(h) ==
    /\ pc[h] = "idle"
    /\ harness.overlaps \/ \A g \in Hooks : pc[g] = "idle"

Finish(h) == Goto(h, "idle", NewJournal) /\ attempt' = [attempt EXCEPT ![h] = 0]

\* tm signal --hook: log the call and, after an edit, pick advice to inject
\* as long as the session has room for it.
PostTool(h, event, new) ==
    /\ Starts(h)
    /\ Turn(file) < MaxTurns[harness]
    /\ LET fresh == IF harness.injects /\ event.kind = "edit"
                    THEN Matching[event.path] \ (Requirements \cup file.injected) ELSE {}
           room  == AdvisoryMax - Cardinality(file.injected)
           j     == [Record(file, event) EXCEPT !.injected = @ \cup new]
       IN /\ new \subseteq fresh
          /\ \/ new = fresh /\ Cardinality(fresh) <= room
             \/ Cardinality(new) = room /\ room < Cardinality(fresh)
          /\ Goto(h, "save", RecordSurfaced(j, new, [m \in new |-> event.path]))
    /\ UNCHANGED <<harness, file, attempt, acted, shown>>

\* tm check-action --hook: the memories for an edit of a path or for a command,
\* with the path each is filed under.
PreTool(h, use) ==
    /\ Starts(h)
    /\ Matching[use] # {}
    /\ Goto(h, "save", RecordSurfaced(file, Matching[use], FirstScope))
    /\ UNCHANGED <<harness, file, attempt, acted, shown>>

\* tm signal --hook --prompt.
PromptSubmit(h) ==
    /\ Starts(h)
    /\ Turn(file) < MaxTurns[harness]
    /\ Goto(h, "save prompt", Record(file, Prompt))
    /\ UNCHANGED <<harness, file, attempt, acted, shown>>

\* Broken variant: the queue is emptied before it was rendered.
SavePrompt_Drained(h) ==
    /\ pc[h] = "save prompt"
    /\ file' = [mem[h] EXCEPT !.pending = <<>>]
    /\ IF mem[h].pending = <<>> THEN Finish(h)
       ELSE Goto(h, "render pending", mem[h]) /\ UNCHANGED attempt
    /\ UNCHANGED <<harness, acted, shown>>

SavePrompt(h) ==
    /\ pc[h] = "save prompt"
    /\ file' = mem[h]
    /\ IF mem[h].pending = <<>> THEN Finish(h)
       ELSE Goto(h, "render pending", mem[h]) /\ UNCHANGED attempt
    /\ UNCHANGED <<harness, acted, shown>>

\* Broken variant: only the newest queued nudge is marked.
MarkQueuedDrained_Newest(j) ==
    [j EXCEPT !.fired = [i \in DOMAIN @ |->
        IF @[i].queued /\ i = Len(@) THEN [@[i] EXCEPT !.delivered = Turn(j)] ELSE @[i]]]

MarkQueuedDrained(j) ==
    [j EXCEPT !.fired = [i \in DOMAIN @ |->
        IF @[i].queued /\ @[i].delivered = 0 THEN [@[i] EXCEPT !.delivered = Turn(j)] ELSE @[i]]]

Keys(queue) == {queue[i] : i \in DOMAIN queue}

RenderPending(h) ==
    /\ pc[h] = "render pending"
    /\ shown' = shown \cup Keys(mem[h].pending)
    /\ Goto(h, "save", [MarkQueuedDrained(mem[h]) EXCEPT !.pending = <<>>])
    /\ UNCHANGED <<harness, file, attempt, acted>>

\* Attempts to render n that were not delivered.
RenderedAttempts(j, n) == {i \in DOMAIN j.fired : /\ j.fired[i].key = n
                                                 /\ ~j.fired[i].queued
                                                 /\ j.fired[i].pendingDelivery}

\* Broken variants: a new attempt counts as delivered at once; the index of a
\* new entry is one too high.
NewAttempt_Delivered(j, n) == [FiredFromNudge(n, j) EXCEPT !.delivered = Turn(j)]
NewIndex_PastEnd(j) == Len(j.fired) + 2

NewAttempt(j, n) == [FiredFromNudge(n, j) EXCEPT !.pendingDelivery = TRUE]
NewIndex(j) == Len(j.fired) + 1

\* tm nudge --hook with nothing to say: saved only if signals were suppressed.
StopSilently(h) ==
    /\ Starts(h)
    /\ Decide(file) = {} /\ Detect(file) # {}
    /\ Goto(h, "save", file)
    /\ UNCHANGED <<harness, file, attempt, acted, shown>>

StopQueues(h) ==
    /\ Starts(h)
    /\ harness.queues
    /\ \E n \in Decide(file) :
          Goto(h, "save", [file EXCEPT !.fired = Append(@, FiredFromNudge(n, file)),
                                      !.pending = Append(@, n)])
    /\ UNCHANGED <<harness, file, attempt, acted, shown>>

StopRenders(h) ==
    /\ Starts(h)
    /\ ~harness.queues
    /\ \E n \in Decide(file) :
          /\ RenderedAttempts(file, n) = {}
          /\ Goto(h, "save attempt", [file EXCEPT !.fired = Append(@, NewAttempt(file, n))])
    /\ attempt' = [attempt EXCEPT ![h] = NewIndex(file)]
    /\ UNCHANGED <<harness, file, acted, shown>>

\* The last attempt is retried and stays the entry it was.
StopRetries(h) ==
    /\ Starts(h)
    /\ ~harness.queues
    /\ \E n \in Decide(file) : \E last \in Latest(RenderedAttempts(file, n)) :
          attempt' = [attempt EXCEPT ![h] = last]
    /\ Goto(h, "save attempt", file)
    /\ UNCHANGED <<harness, file, acted, shown>>

SaveAttempt(h) ==
    /\ pc[h] = "save attempt"
    /\ file' = mem[h]
    /\ Goto(h, "render attempt", mem[h])
    /\ UNCHANGED <<harness, attempt, acted, shown>>

MarkDelivered(j, i) ==
    [j EXCEPT !.fired[i] = [@ EXCEPT !.pendingDelivery = FALSE, !.delivered = Turn(j)]]

RenderAttempt(h) ==
    /\ pc[h] = "render attempt"
    /\ shown' = shown \cup {mem[h].fired[attempt[h]].key}
    /\ Goto(h, "save", MarkDelivered(mem[h], attempt[h]))
    /\ UNCHANGED <<harness, file, attempt, acted>>

\* The last save of a hook; it replaces the journal atomically.
Save(h) ==
    /\ pc[h] = "save"
    /\ file' = mem[h]
    /\ Finish(h)
    /\ UNCHANGED <<harness, acted, shown>>

\* A hook is killed, or what it renders or saves fails: it leaves no more traces.
Fail(h) ==
    /\ pc[h] # "idle"
    /\ Finish(h)
    /\ UNCHANGED <<harness, file, acted, shown>>

\* The agent proposes a memory on a path or observes a memory.
Act(target) ==
    /\ target \notin acted
    /\ acted' = acted \cup {target}
    /\ UNCHANGED <<harness, file, pc, mem, attempt, shown>>

Init ==
    /\ harness \in Harnesses
    /\ file = NewJournal
    /\ pc = [h \in Hooks |-> "idle"]
    /\ mem = [h \in Hooks |-> NewJournal]
    /\ attempt = [h \in Hooks |-> 0]
    /\ acted = {} /\ shown = {}

Next ==
    \/ \E h \in Hooks :
          \/ \E event \in ToolCalls, new \in SUBSET Memories : PostTool(h, event, new)
          \/ \E use \in Paths \cup Signatures : PreTool(h, use)
          \/ PromptSubmit(h) \/ SavePrompt(h) \/ RenderPending(h)
          \/ StopSilently(h) \/ StopQueues(h) \/ StopRenders(h) \/ StopRetries(h)
          \/ SaveAttempt(h) \/ RenderAttempt(h)
          \/ Save(h) \/ Fail(h)
    \/ \E target \in Paths \cup Memories : Act(target)

Spec == Init /\ [][Next]_vars

-----------------------------------------------------------------------------
(* Properties *)

Nudges == [type : DOMAIN Priority \cup {"intervened", "self_review"},
           target : Paths \cup Memories \cup {None} \cup Nat]
Entries == [key : Nudges, turn : Nat, queued : BOOLEAN, pendingDelivery : BOOLEAN,
            delivered : Nat]
Journals == [log : Seq(ToolCalls \cup {Prompt}),
             surfaced : SUBSET [memory : Memories, path : Paths \cup {FirstScope[m] : m \in Memories}],
             injected : SUBSET Memories,
             fired : Seq(Entries),
             pending : Seq(Nudges)]

\* A memory is listed as surfaced once, and advice keeps to its cap.
Surfacing(j) ==
    /\ \A s, x \in j.surfaced : s.memory = x.memory => s = x
    /\ Cardinality(j.injected) <= AdvisoryMax

\* Every copy of the journal is well formed, and a hook that renders an
\* attempt has an entry to mark as delivered.
TypeOK ==
    /\ harness \in Harnesses
    /\ \A j \in {file} \cup {mem[h] : h \in Hooks} : j \in Journals /\ Surfacing(j)
    /\ pc \in [Hooks -> {"idle", "save", "save prompt", "render pending", "save attempt",
                       "render attempt"}]
    /\ DOMAIN mem = Hooks
    /\ attempt \in [Hooks -> Nat]
    /\ \A h \in Hooks : pc[h] \in {"save attempt", "render attempt"} =>
          attempt[h] \in DOMAIN mem[h].fired
    /\ acted \subseteq Paths \cup Memories
    /\ shown \subseteq Nudges

\* The hard ceiling: the nudges that used up budget are never more than
\* max_per_session, and no moment is nudged for twice, whatever hooks race and
\* however often rendering fails. A self-review recurs within a turn only
\* without a cooldown.
BudgetKept ==
    /\ Cardinality(Counted(file)) <= Config.maxPerSession
    /\ \A i, k \in Counted(file) :
          /\ file.fired[i].key = file.fired[k].key
          /\ file.fired[i].key.type # "self_review" \/ Config.cooldownTurns > 0
          => i = k

\* Two queued nudges were decided at least cooldown_turns apart.
QueuedApart ==
    \A i, k \in DOMAIN file.fired :
        file.fired[i].queued /\ i < k =>
            file.fired[k].turn - file.fired[i].turn >= Config.cooldownTurns

\* tm nudge report.
BuildReport(j) ==
    LET Count(test) == Cardinality({i \in DOMAIN j.fired : test[i]})
        attempts == Count([i \in DOMAIN j.fired |-> ~CountsForPolicy(j.fired[i])])
        queued == Count([i \in DOMAIN j.fired |-> j.fired[i].queued])
    IN [fired    |-> Len(j.fired) - attempts,
        queued   |-> queued,
        rendered |-> Len(j.fired) - attempts - queued,
        pending  |-> Len(j.pending) + attempts,
        drained  |-> Count([i \in DOMAIN j.fired |-> j.fired[i].queued /\ j.fired[i].delivered > 0])]

\* The report balances: what fired was delivered or is still pending, so no
\* nudge is queued twice, drained without its text or drained unmarked.
ReportBalances ==
    LET r == BuildReport(file) IN
    r.fired + Cardinality(DOMAIN file.fired \ Counted(file)) = r.rendered + r.drained + r.pending

\* A nudge the journal calls delivered was given to the agent: a failed
\* render or a crash before it never marks one.
DeliveredWasShown ==
    \A i \in DOMAIN file.fired : file.fired[i].delivered > 0 => file.fired[i].key \in shown

\* At least once: while the hooks of a session run one at a time, a queued
\* nudge leaves the queue only when the agent was given it, and what was
\* logged or fired stays, whichever hooks fail.
NothingForgotten ==
    [][~harness.overlaps =>
         /\ Keys(file.pending) \ Keys(file'.pending) \subseteq shown
         /\ Turn(file) <= Turn(file') /\ \A t \in 1..Turn(file) : file'.log[t] = file.log[t]
         /\ \A i \in DOMAIN file.fired : /\ i \in DOMAIN file'.fired
                                         /\ file'.fired[i].key = file.fired[i].key]_vars
=============================================================================

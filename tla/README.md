# TeamMemory: a TLA+ verification project

TeamMemory (`tm`) keeps what coding agents learn about a repository on a Git
branch, the *ledger*, and gives it back to agents as hints, warnings and
blocking requirements. Records (memories and the observations that react to
them) are immutable; everything else (status, risk, confidence, enforcement,
scope) is derived from them. Many processes work on one clone at a time:
commands, editor hooks, long-lived MCP servers, detached pushes and fetches.
Many clones share one remote.

The modules here model the Go code under `src/internal`, TLC checks them on
small instances, and TLAPS proves the theorems listed below for every value of
the constants. `PROJECT.json` maps each definition to the lines it stands for.

## 1. Inventory

| Component | State it keeps | Operations | Interacts with |
|---|---|---|---|
| Git ledger (`ledger/ledger.go`, `ledger/sync.go`) | the local ledger branch, the remote's branch | append, init, adopt, sync (fetch, fast-forward, union merge, push, retry) | other processes of the clone through the ref, other clones through the remote |
| Detached push and fetch (`cli/push.go`, `cli/checkaction.go`) | none, subprocesses of Git | `git push ref:ref`, `git fetch ref:ref` | the same refs, after the command that started them has gone |
| Derivation (`derive/*`) | none, pure | `DeriveWithContext`, `BuildContext` | reads records and the policy |
| Life of a memory (`cli/propose.go`, `cli/observe.go`, `cli/govern.go`, `mcp/server.go`) | the records | propose, confirm, contradict, mark_stale, mark_duplicate, supersede, adjust_scope, approve, reject | ledger, derivation |
| Index (`index/*`) | an SQLite file per clone: rows and the tip they belong to | `Open`, `Update`, `Reindex` | reads the branch while others advance it; several processes share the file |
| Retrieval, pre-tool gate, acknowledgments, sessions (`retrieve`, `cli/checkaction.go`, `acks`, `sessionid`) | ack files, the current-session file, the fetch stamp | match, rank, cap, block, ack | index, journal |
| Nudge engine (`nudge/*`, `cli/nudge.go`, `cli/signal.go`) | one journal file per session | signal, prompt, stop, report | hooks of a session that run concurrently |
| Push failure record (`git/push_failure.go`, `git/push_classify.go`) | one file per clone | record, clear, read, prune | every push, in front or in the background; status and doctor |
| Glob and command matching (`derive/scope.go`, `derive/command.go`, `retrieve/match.go`) | none, pure | contains, intersects, is broad, matches | derivation, retrieval |
| MCP server, harness adapters, safety scan, export, doctor, status | the policy loaded at start | requests and reports | all of the above |

Hard behaviours, each with its line in `PROJECT.json` under `hazards`: refs that
are read and later overwritten without a compare; a remote that moves between
fetch and push; lost replies; records that arrive late with old time stamps;
claims between memories that reach memories a new record does not name; an
index that is updated from several reads of a moving branch; files that several
processes read, change and write back.

What makes each component correct:

- *Ledger*: an acknowledged record never vanishes; the remote only grows; what a
  sync vouched for is on the remote; every command ends.
- *Derivation and life cycle*: only a human makes a memory block; a scope widens
  only on evidence; a dead memory hides no live one, and whoever closes a ring of
  memories that hide one another is warned; praise does no harm.
- *Globs*: containment, intersection and breadth are decided on texts; they may
  be coarse, but add up to no more reach than somebody vouched for, hold no
  narrowing up and overlook no sensitive path.
- *Push failure record*: no count is too high, and what races spoil does not last.
- *Index*: whatever happens between its reads, a row that is out of date is
  among those the next `Update` derives again.
- *Gate*: only a live acknowledgment for the session opens it, nothing but
  another acknowledgment closes it again, and no requirement is passed over for
  less than it.
- *Nudges*: the budget and the cooldown hold and nothing queued is lost.

## 2. Modules

| Module | What it is |
|---|---|
| `SharedLedger` | what users of the ledger rely on: one shared set of records that only grows, and per clone a set of acknowledged records |
| `Ledger` | the detailed ledger: commits, refs, processes, one action per Git call; implements `SharedLedger` |
| `Derive` | the pure derivation of a memory's state |
| `Lifecycle` | the records on one clone's ledger and the commands that add them; extends `Derive` |
| `Globs` | path globs and command patterns: the decisions the code takes on their text, and what they match |
| `ScopeWalk` | how the scope of one memory follows from the records about it, on glob text; extends `Globs` |
| `Index` | the index file, the processes that update it and the branch they read; extends `Derive` |
| `Nudge` | the nudge journal of one session and the hooks that load and save it |
| `Gate` | the pre-tool gate with the retrieval it asks, the acknowledgment files and the current-session file |
| `PushFailure` | the record of failed pushes and the processes that write, clear and prune it |
| `MCLedger`, `MCLifecycle`, `MCScopeWalk`, `MCIndex`, `MCNudge`, `MCGate`, `MCPushFailure` | instances of these for TLC; each extends its module |
| `LedgerProofs`, `DeriveProofs`, `LifecycleProofs`, `ScopeWalkProofs`, `IndexProofs`, `NudgeProofs`, `GateProofs`, `PushFailureProofs` | theorems and their proofs; each extends its module |

`Lifecycle` and `Index` both extend `Derive`: the first says which records can
be filed and what they do to a memory, the second in which order the derived
rows reach the database. `Ledger` stands alone, because a record is only its id
there; `Nudge` meets the rest only in which memories match a path, a constant.
`Gate` reads rows of the index, which may change at any time to any the constant
`Rows` gives, so it stands on no promise of `Index`. `ScopeWalk` has one part of
`Derive`, the effective scope, again with the text of globs in place of sets.
`PushFailure` takes from `Ledger` only that a push succeeds or fails.

Operators named `X_Y` are broken variants of the operator `X` (a dropped guard,
an off-by-one). No specification uses them. With `X_Y` in place of `X` the
property that `PROJECT.json` names beside it must fail.

### Ledger

State: `dag`, all commits, each with its records and ancestors; the local
branch and `FETCH_HEAD` of each clone; the remote branch; and for each process
its program counter and the locals of `Sync` or `commitFiles`. Each `git`
subprocess of the code is one action: `rev-parse`, `read-tree` to
`commit-tree`, `update-ref`, `fetch`, `push`. `update-ref` has no old value in
the code and so none in the model (`Commit`, `FastForward`, `InstallMerge`). A
push is accepted if it is a fast-forward of what the remote advertised and the
remote has not moved since (`Accepts`), and then its reply may be lost
(`PushReplyLost`). The remote may refuse any push, one that fits included
(`PushRejected`): Git ends every refusal with "failed to push some refs", which
`isRetryablePushError` takes for a lost race, whatever the reason was. Detached pushes and fetches are actions of their own
(`Detached...`), which nobody waits for. `Crash` ends a process between any two
calls. The set of commits is bounded by the records and by the syncs a process
runs; `maxSyncAttempts`, 4 in the code, is a constant.

`OneCommandPerClone` is a condition on the constant `CloneOf`: no two processes
share a clone, so that commands of one clone run one after the other (detached
Git processes still run beside them). The configurations with
`CloneOf <- Separate` meet it, those with `CloneOf <- Together` do not, and the
theorems that need it assume it. The code does nothing to ensure it;
`ledger_same_clone` shows what holds without it and `ledger_lost_append` what
does not.

### Derive and Lifecycle

A memory's envelope never changes, so it is a constant (`Envelope[m]`); the
state is the set of memories and of observations. `Derived(m, mems, obs, p)` is
what `tm show` and the index compute. Scopes are sets of places here, so a
containment is exact; what it is on globs is `ScopeWalk`'s matter. A record may
take any free id, earlier ones included, which is how records of other clones
arrive: ids order as ULIDs do, `CreatedAt` is weakly increasing in them, and
two records may share a time stamp. The commands are actions with the guards
of the command line (`MarkDuplicate`: the memory to keep must exist and be
another one). An MCP tool files the same records as its command. `Warned(o)` is
the note that whoever files `o` with the other records on his ledger is given
(`detectCycle`); the breadth-first search of `HasCycleBackTo` is what it
computes, membership in the least set closed under `Successors` (`Reaches`).

### Globs and ScopeWalk

A glob is a sequence of segments: a name, `One` (every segment with a `*`, which
the matcher takes for any single name) or `Rest` (`**`). A command pattern is a
sequence of words with or without a final star; leading assignments of a command
are stripped (`Tokenize`). `GlobContains`, `GlobIntersects`, `IsBroadGlob`,
`CommandContains` and `IsBroadPattern` decide on these texts as the code does,
`PathMatchesGlob` and `MatchCommandPattern` are its matchers, and `Matches` is
the meaning of a glob to compare them with, no part of the code.

`ScopeWalk` files records about one memory one by one (`AdjustScope`, `Approve`,
`Confirm`; `at` is the time stamp, weakly increasing in the order of ULIDs) and
at any moment walks through the adjustments loaded so far: `StartWalk` begins
with the envelope, and each step is `Narrow` (contained in the scope so far),
`Broaden` (substantiated) or `Defer` (pending). `effectiveScope` and
`pendingBroadenings` are that same loop, once for `cur` and once for `pending`.
Whether a confirm is independent, which `Derive` works out, is a bit of the
record here.

### PushFailure

`file` is what is at `.git/tm/push_failure.json`: nothing, a truncated or
unreadable file, or a record. A process is a command of the clone:

| In the code | Actions |
|---|---|
| `doPush` of `tm sync`; the goroutine of `triggerBackgroundPush` | `StartPush`, then `PushSucceeds` (which goes on to `Clear`) or `PushFails` |
| the seed push of `tm init`, a `git push` of its own | `StartSeed`, then `SeedSucceeds` (which clears nothing) or `PushFails` |
| `Record` | `ReadRecord` (read, compare, count), `OpenFile` (truncates), `WriteFile` |
| `Clear` (after a success), `ReadFresh` (`tm status`, `tm doctor`) | `Clear`; `ReadFresh` sees an old record and goes on to remove it |
| the command returns before its push has ended | `Return`, and `UnwatchedEnds`: git goes on, nobody records |
| a kill, or a return while the goroutine is at work | `End` |

A process that has the file open when another one removes it writes to a file
without a name (`opened`). Reading the file and the clock is one step.
`recorded`, `streak`, `quiet` and `last` are history variables and no part of
the code: the records written, those since the last other one or clear, whether
nobody was disturbed since a clear, and the outcome of the last push. The excerpt
of stderr is left out; `tm sync` also prints the record, which changes nothing.

### Index

`branch` is the ledger ref (records and policy version), `files` every database
file ever created at the path: a process keeps the file it has opened even
after another one has removed it from the path. A bad file is removed, the next
one opened and its tables created in three steps (`RemoveFile`, `CreateFile`,
`CreateSchema`), between which other processes meet a file without a schema or
remove it in turn; tables that another process created first are an error
(`Abort`). Each read of the branch
(`ReadMemories`, `ReadObservations`, `ReadPolicy`, `ReadTip`, `ChangedSince`)
resolves the ref anew and is a step of its own, in the order of `Update` and of
`Reindex`; the transaction that writes is one step. `Damage` stands for a
corrupt, deleted or outdated file, `Abort` for a process that is killed or
fails. Two constants restrict the behaviours: `Serial`, one process is in
`Open` or `Update` at a time, and `QuietReplay`, the branch rests while
`Reindex` reads it. The code ensures neither. Without the first, the run
`index_update_race` ends in an index that stays wrong; without the second, TLC
finds `StaleRowsAreDue` violated (`QuietReplay = FALSE` in `index_update.cfg`).

### Nudge

`file` is the journal on disk: the log of tool calls and prompts, the memories
surfaced and injected, the nudges fired and those queued. A call that tells
neither an outcome nor a path (`Other`) only takes its turn. A turn of the code's
counter is a place in the log, because every call and prompt takes one turn.
Where the code stores a wall-clock time for an event (`DeliveredAt`,
`DrainedAt`) the model stores the turn in which it happened, 0 for never.

A hook is a process. It loads the journal into its own copy (`mem`), works on
it, and saves the copy as a whole; `pc` says which save or render comes next:

| Hook in the code | Actions |
|---|---|
| `tm signal --hook` (after a tool call) | `PostTool`, `Save` |
| `tm check-action --hook` (before a tool call) | `PreTool`, `Save` |
| `tm signal --hook --prompt` | `PromptSubmit`, `SavePrompt`, `RenderPending`, `Save` |
| `tm nudge --hook` (end of the agent's turn) | `StopSilently` or `StopQueues`, `Save`; `StopRenders` or `StopRetries`, `SaveAttempt`, `RenderAttempt`, `Save` |

`Fail` ends a hook before any of these steps: it is killed, or a save or a
render returns an error. The signals are detected by operators named as their
functions (`DetectFailPass`, ...), and `Decide` is the set of nudges the policy
may choose: where the code breaks ties by the order in which it iterates over a
map, any of them may fire. `harness` is what differs between harnesses: whether
a stop hook's output reaches the agent or is queued for the next prompt,
whether advice is injected after an edit, and whether hooks of one session
overlap (parallel tool calls). `shown`, what the agent was given, is a history
variable and no part of the code.

### Gate

Sessions work side by side in one clone. `row` is what the index says of each
memory, `ackFile` the content of each file under `.git/tm/acks`, `current` that
of `current-session.txt`. A session does one thing at a time (`pc`):

| In the code | Actions |
|---|---|
| `tm check-action --hook` | `StartCheck` (retrieval, the clock), `CheckAck` per requirement (reads one ack file), `Render` (blocks or not) |
| `tm ack` | `StartAck` (the flags: `--session` takes any id, its default is resolved before the command runs), `TruncateAck` and `WriteAck` (`os.WriteFile`) |
| `tm signal`, `tm nudge` (every hook after a tool call, at a prompt, at a stop) | `StartSignal`, `WriteCurrent` (`os.WriteFile`) |

Both kinds of files are written in place. A file that was truncated holds
`None`; one that is written over another writer's text may keep a rest of it and
is then `Garbled`, which an ack's reader takes for no ack and a session's reader
for a name nobody has (`Written`). `Fail` ends a hook or command at any point.
`Identified` are the sessions whose commands find `CLAUDE_SESSION_ID` in the
environment; the others take the id heard of last (`Resolve`, which is the code's
with nothing explicit). Either kind may name any session with `--session`, or
none, or one that does not exist (`Garbled`). `check[s]` is
what the gate at work has found: the requirements still to be judged with their
rank, those cleared, those that block.

Retrieval is the pure part: `Found`, the ranking `RankKey` and the two budgets of
`Cap`. `Matches` says which entry matches which action and `Precision` how many
literal parts an entry has, so the specificity of a match is computed but glob
text is not interpreted. A call is an edit or a command, never both, so path
and command specificity are not compared, and the hook has no description, so
there is no full-text search. Drift and ids only break ties in `CreatedAt`.

`named`, `granted` and `lasting` are history variables: the sessions that gave
their own acknowledgment at work another id than their own, the acknowledgments
written, with who wrote them and whether so, and the pairs of a session and a memory that it acknowledged
itself, into a file nobody else was writing, and nobody has since. They bound
nothing but `StartAck` (`MaxAcks`).

## 3. Runs

| Run | Instance | What it shows |
|---|---|---|
| `ledger_shared` | two clones, one process each, two records, one of which starts a detached push, hook fetches in both, 2 attempts, 1 sync per process | acknowledged records stay, what a sync vouched for is shared, what a sync pushes fits unless another writer moved the remote since its fetch, and the whole implements `SharedLedger`, with crashes, refused pushes and lost replies everywhere |
| `ledger_same_clone` | two processes in one clone, one record with a detached push, 2 attempts, 1 sync per process, fair | even with racing `update-ref`s a commit has its ancestors' records, the remote only grows, and every command ends |
| `ledger_lost_append` | two processes in one clone, two records | violation: see findings |
| `lifecycle_records` | three memories alike, two sessions, any three records at two instants, claims, rings and approves included, a cautious policy | what can make a memory block, widen its scope or take it out of active, that a rejected memory hides no other, that whoever closes a ring of duplicates was warned, and that one pass of fan-out reaches all a record changes |
| `lifecycle_approve` | one memory, three records, approves that name a warning or a requirement | violation: see findings |
| `scope_walk` | eight scopes of globs or command patterns, every order of three records that adjust, approve or confirm; all globs of up to three segments and all patterns of up to two words | how far a scope can drift without evidence, that a narrowing applies at once and an approve settles all before it, and where matching, containment, intersection and breadth, decided on text, agree with what globs and patterns match |
| `index_update` | two processes, two memories linked by a claim, three observations and a policy change that arrive at any time, two files | every wrong row is among those the next `Update` derives again |
| `index_update_race` | two processes at once | violation: see findings |
| `nudge_journal` | one session in five harnesses, two hooks, an edit, a test that passes or fails, a prompt, up to four turns | budget, cooldown, accounts and delivery, with hooks that fail anywhere and overlap |
| `gate_acks` | two sessions, one of which has no id of its own, any `--session`, two memories of which one changes between four rows, one result, two acks, a clock of two instants | only a whole, live ack for the session opens its gate, which another session can only write by naming it or by guessing, only another ack closes it again, and a requirement that the gate does not look at yields to what ranks above it |
| `push_failure` | two commands with five pushes between them, in front, in the background or seeding a remote, two messages of git, a record that ages, kills anywhere | no count is too high, and one undisturbed successful push makes counts exact again |
| `push_outcome_lost` | one command, one push in the background, nobody killed | violation: see findings |

Why the bounds are enough for what they check. *Ledger*: every race the code
can lose is between two writers of one ref, and two clones with a detached push
and a detached fetch each give every ref three; with two attempts a sync can
lose, retry and give up. `ledger_same_clone` has one record, which races with the
first commits of two `tm init`s and with the merges of two syncs; two appends
that race are `ledger_lost_append`'s. *Lifecycle*: the rules compare at most two earlier
records with a new one (a praise, what it answers, and an approve), and the
fan-out goes one step through a claim, so a chain of three memories has a
member outside it; three memories are the shortest ring that a look at the
opposite claim alone misses (rings of supersedes need more records than the run
has, and are covered by the theorem). The memories are of a type that is active at
once; a scope that reaches the sensitive path takes them to the critical tier, where
the policy asks for three confirms. The author and one session that is independent
of him in every respect are all the actors there are; the theorems have any. *ScopeWalk*: two adjustments and what
substantiates one of them, or three that narrow and broaden in turn; three
segments hold a name on either side of a `**`, two words a program and its
subcommand, and a command has a word more than the longest pattern. What depends
on texts alone (`Fresh`) is checked on memories without records. *Index*: two policies, two memories and a claim make a row
depend on a record that does not name it; a second file is enough for a process
that keeps the old one. *Nudge*: four turns are enough for both nudges of the
budget and for a third that must not come, for a failed test, an edit and a
passing test with a prompt, and for an attempt that is retried twice. Sessions
with overlapping hooks end after one or two turns; hooks load the same journal
there, which two of them already do. *Gate*: two acks are enough for two writers
of one file, one after or during the other; with `max_results` 1 the second
memory, by its row above, below, equal or out of the ranking, decides whether
the first is looked at; the clock reaches the instant an ack without a session
expires. *PushFailure*: two overlapping writers, of different kinds or the same,
are enough to tear or to miscount the file; five pushes give a spoiled file, a
clear that nobody disturbs, and a streak of two after it.

Symmetry is used where only safety is checked and the elements are not
distinguished by any other constant: the processes of `Index` and of `PushFailure`, the hooks of
`Nudge`, the memories of `lifecycle_records`, which have the same envelope.
`CHECK_DEADLOCK FALSE` stands in all configurations but those of `Gate`, whose
gates may go on for ever, and of `ScopeWalk`, whose walks may, because the systems may stop: nobody has to start
another command, file another record or go on with a session, and the bounds (`MaxSyncs`, `Ids`, `MaxFiles`, `MaxTurns`) end them.

*Fairness.* The one liveness property, `CommandsEnd`, is checked under
`FairSpec`: weak fairness of `Step(p)`, the next Git call of a command that
runs. That is the scheduling the operating system gives, together with Git
calls that return. No command has to be started, no detached push or fetch has
to run, a push may lose for ever, and a crash counts as an end.

## 4. Findings

Violation runs state what a document or a comment promises, and the code does
not keep.

- `ledger_lost_append` (`ledger.go:154`): `commitFiles` reads the tip, builds a
  commit on it and moves the ref with `update-ref` without the old value. Two
  appends in one clone that read the same tip both report success, and the
  second drops the first one's record.
- `lifecycle_approve` (`derive/enforcement.go:10`): of several approves that name
  an enforcement the first one counts for good. A later approve, of which
  `prd.md:294` says that it "may set enforcement explicitly, up to `requirement`"
  and the help of `tm approve` that it may raise it, changes nothing.
- `index_update_race` (`index/replay.go:64`): the stored tip is read, and the
  rows are derived, outside the transaction that writes them. Of two processes
  the slower puts older rows back, and a third step stores a tip that covers
  what those rows lack.
- `push_outcome_lost` (`cli/push.go:33`): the outcome of a background push is
  recorded by a goroutine of a command that prints and returns at once. A push
  that takes longer than the command leaves no record of its failure, and a
  success clears none. `CHANGELOG.md:211` promises the latest outcome of every
  push attempt.

More were met without a run of their own. About syncs:

- `isRetryablePushError` matches "failed to push some refs" (`ledger/sync.go:166`),
  which Git prints for every refused push. A push that a protected branch or a hook
  of the remote refuses is tried as often as there are attempts, on a remote that
  has not moved, and then reported as "push lost a concurrent-update race" (line
  103); the comment at line 153 has only lost races retried and genuine errors
  surface immediately. `PushRejected` retries them as the code does.

What is unsafe about the index and the records themselves:

- `Reindex` reads memories, observations and last the tip from a ref that moves
  (`index/replay.go:29`): see `QuietReplay`.
- A tier whose `max_auto_enforcement` is `requirement` lets agents alone make a
  memory block, although `README.md:443` keeps that to humans; nothing refuses
  such a policy (`derive/enforcement.go:25`).
- Memories that hide one another by claims of both kinds, m1 as a duplicate of m2
  and m2 as superseded by m1, are hidden without a warning, because the search
  follows claims of one kind (`derive/supersede.go:140`, where `prd.md:307`
  counts both kinds as links of one chain). The comment above
  `detectCycle` (`cli/observe.go:151`) speaks of rings of two; it finds longer
  ones too.

About scopes (`prd.md:301` wants evidence for every broadening):

- `a/*` is taken to contain `a/**`, and the command pattern `*`, which matches
  nothing, to contain every pattern: such a broadening applies as a narrowing
  (`derive/scope.go:104`). `EarnedReach` says how far this can go.
- The evidence for a broadening is compared with the scope of the envelope where
  an adjustment has replaced it (`derive/scope.go:243`).

About sessions and pushes:

- There is one acknowledgment file per memory. The ack of a second session
  replaces that of the first, whose next edit is blocked again (`acks/acks.go:47`),
  although `prd.md:430` lets it last the session.
- A nudge whose rendering failed is delivered later under the turn of the failed
  attempt, from which the cooldown counts, and the next one follows too early
  (`cli/nudge.go:89`, against `prd.md:258`).
- A memory is recorded as surfaced for the first entry of its scope, usually a
  glob, which the detector compares for equality with edited paths
  (`cli/checkaction.go:185`).
- The seed push of `tm init` clears no record when it succeeds (`cli/init.go:97`):
  where the ledger branch was removed and created anew, a record of earlier
  failures stays, although `CHANGELOG.md:217` has any successful push clear it.
  `SeedSucceeds` clears nothing as the code does.
- A prune removes whatever is at the path by then, a record that another command
  has just written included (`git/push_failure.go:100`), and `tm sync` prints an
  old record for any error it meets (`cli/sync.go:26`).

## 5. Proofs

`THEOREM Spec => []P` holds for every value of the constants that meets the
module's named assumption (`LedgerAssumption`, `LifecycleAssumption`,
`GlobAssumption`, `ScopeWalkAssumption`, `IndexAssumption`, `NudgeAssumption`,
`GateAssumption`, `PushFailureAssumption`). TLC evaluates each of these on the runs.

**`LedgerProofs`.** `TypeCorrect` is inductive by itself. The invariant behind
`HistoryKept` and `RemoteNeverLoses` is `HistoryClosed`: ancestry is transitive
and a commit has the records of all its ancestors, so a fast-forward can only
add records. Both hold for any number of processes in a clone. The others
assume `OneCommandPerClone`. Their invariant `LedgerInv` adds that a fetched tip
is an ancestor of the remote (`FetchedIsRemote`), that the commit a process
builds on (`BaseKeeps`) and the tip it is about to fast-forward to (`TipKeeps`)
have all the clone acknowledged. Without `BaseKeeps` `AcknowledgedKept` is not
inductive: the process that is about to call `update-ref` could hold any base.
`LedgerRefinesShared` maps each step to one of `SharedLedger` or to a stutter
under `LedgerInv`. `ReconciledPushesFit` adds what a sync attempt knows of the
branches (`RaceInv`): what it pushes and what the remote advertised to it both
descend from the tip it fetched. Ancestors are older, so a remote still at that
tip is at the advertised one, and the push is a fast-forward of it; that the
remote has no rules of its own to refuse it by does not follow, and is not
claimed. `CommandsAreBounded` is the part
of `CommandsEnd` that is about safety, and needs no assumption: `CallsLeft` counts
down from six calls for every attempt of `Sync`, each call of a command lowers it,
nobody else raises it, and at 0 the command has ended. It needs of the attempt
counter that it is below its bound when an attempt begins and above 0 in one
(`AttemptsLeft`).

**`DeriveProofs`.** `OnlyFanOutChanges` is the frame of derivation: for two
ledgers of which one extends the other by any set of records, a memory outside
the fan-out of what the new records name has the same state. The argument goes
through the substantiated claims: what resolves a claim is either filed on the
claimed memory or reached by one step from it. `ScopeIsGrounded` is an induction
over the adjustments: the effective scope is a recursive function of the set of
those that count (`IsWalk`), which exists because the adjustments are finite and
have a last one (`WalkExists`), and the subsets whose scope is grounded
include the empty one and, with a set less its last element, the set.

**`LifecycleProofs`.** Type correctness with the fact that observations have
ids of their own (`Ranked`), from which first and last observations exist.
`OnlyHumansBind` assumes `NoTierBinds`, no tier of the policy reaches
`requirement`; without it agents can make a memory block.
`DeadHideNothing` rests on `BuildContext`, which takes canonicals and
superseding memories from those that no reject names. `PraiseSettles` needs no
assumption on the policy: a praise newer than all else answers whatever stood
against the memory, in whichever order that was filed. `OnePassSuffices` is the frame theorem
applied to a step. `RingsWarn` is about rings of any length: on a finite ring
(`RingInv`: a ledger has finitely many memories) what hides each member is a
permutation, so every set of members closed under it, but for the step from one
member, holds that member (`RingReturns`). `PraiseDemotesByRisk` assumes
`TiersGetStricter`: a tier that activates a memory by itself or by confirms has
none below it that asks for more. The default policy (`policy/policy.go:104`) and
the run's meet it; under a policy with a stricter low tier a praise that lowers
the risk can cost a memory its status. Its argument is that a praise opens no
matter (`PraiseOpensNothing`), takes no evidence away (`EvidenceGrows`) and
leaves what other memories say of this one as it was (`PraiseKeepsContext`), so
only the threshold can have moved. `BroadeningIsEarned` follows from
`ScopeIsGrounded`, and from the ledger being finite.

**`ScopeWalkProofs`.** The first half is about texts. A literal prefix exists, by
the least wildcard; containment of globs is a matter of prefixes alone and
transitive, and so is containment of patterns; what a glob matches lies under its
prefix. That a narrowing is recognised (`CoveredGlobIsContained`) needs a witness:
the glob with a name no glob has for every wildcard, cut off at the first `**`.
`NothingIsMissed` looks at the first `**` of a glob and shows, by a least
counterexample, that before it every segment takes exactly one name.
`MatcherIsExact` adds the other direction for globs with nothing after a `**`.
`SensitiveSeen` is about a greedy search through literal segments
(`OrderedSubsequence`). Of two globs, the covered one is filled to a path: a name
no glob has for every wildcard, nothing for `**` (`FilledMatches`). The cuts by
which the other glob matches that path run beside the search, and the search
never falls behind them (`SearchKeepsUp`): the literals of the other glob can
only lie where the filled one has the same literals.
`ContainmentIsExact` uses the words of a pattern, with one more for its star, as
the command that tells it from others. The second half is about the walk:
`TypeCorrect` has that adjustments are taken in order; `ReachIsEarned`
strengthens `EarnedReach` from what the effective scope matches to what it is
contained in, which transitivity keeps; `ApprovesSettle` says of a walk in the
middle what the property says of its end. Globs, scopes and logs of any length.

**`IndexProofs`.** `TypeCorrect` holds for racing processes. For
`IncrementalLosesNothing`, with `Serial` and `QuietReplay`, the invariant says
of each process what it knows of the branch at its program counter
(`Progress`): what it reads later than the new tip extends that tip and is a
part of the branch. Rows derived from a mixture of reads are then right, or
belong to a memory in the fan-out of what lies between the new tip and the
branch (`Covers`), by the frame theorem.

**`NudgeProofs`.** The invariant does not speak about races at all. It says
that every copy of the journal, on disk or in a hook, is sound on its own
(`JournalInv`) and that a hook about to render holds a copy with a slot left
for what it renders (`Deliverable`). Whichever hook saves last, the file is one
of these copies. Soundness of a copy has the parts `Budgeted`, `Apart`,
`SelfReviewsTimed` (a self-review carries the turn it was decided in: the only
reason why it can come again is a cooldown of 0) and `Accounted` (what is
undelivered is in the queue, what is delivered was shown). The theorems
`TypeCorrect`, `BudgetIsKept`, `QueuedStayApart` and `DeliveredIsShown` are
parts of it. `NothingIsForgotten` adds `Serial`: without overlap at most one
hook is at work, and its copy continues the file (`Keeps`). `ReportsBalance`
needs of every copy that its queue has as many texts as there are queued nudges
not delivered (`Balanced`); that a drain marks them all rests on a prompt
having a turn that is not 0.

**`GateProofs`.** `TypeCorrect` is inductive with one addition that `TypeOK`
carries: a memory is still to be judged, cleared or blocking, and only one of
these. `OnlyAcksOpen` needs that what a readable file says was written by
somebody (`FilesGranted`) and that whoever knows his session writes for it
unless he named another one (`OwnSession`): an acknowledgment under another
session's id can only come from somebody who chose it with `--session` or who has
no id of his own. `OwnAckLasts` needs that an
acknowledgment that lasts is in its file with no writer between truncation and
write (`Standing`), and that only a gate at work has findings (`NoFindings`).
`OnlyTheCapHides` rests on `OutranksRequirement`: what ranks above a requirement
is more precise, or as precise and a requirement, whatever its confidence and
age; the rest is counting. None of them assumes anything about how sessions
overlap.

**`PushFailureProofs`.** `CountIsEarned` adds that a record about to be written
counts at most one more than were written of its key (`CountInv`): a process that
read long ago can only count too few. `StreakIsExact` says of an undisturbed
stretch that one process at most is at work, that the file counts the streak
unless this process has truncated it, and that it then holds the right count
(`StreakInv`). Any number of processes, pushes and kills.

*Induction.* The library's induction theorems take an operator as a parameter,
which the provers cannot instantiate. The proofs take a set instead, of the
numbers, or of the sets of records, for which a statement holds: a set with
something missing has a least element missing (`LeastOf`, `Upwards`). Loops of the
code are recursive functions for this reason (`EffectiveScope`,
`LiteralSegments`, `OrderedSubsequence`), and that a function with such equations
exists is proved before it is used (`LoopRuns`, `WalkExists`).

Only model-checked: `CommandsEnd`, because liveness under fairness is beyond the
prover; `CommandsAreBounded` proves all of it but that the next call is made.
`ConcurrentAppendsKept`, `IndexFresh` and `OutcomeRecorded` do not hold.

## 6. Not modelled

Texts, YAML, rendering and logging; record ids are fresh values. The Git wrapper
is the set of Git operations that are actions of `Ledger`. Harness adapters, the
safety scan, export, doctor, status, show and list only parse, format or read.
A user's own `git fetch` that changes `FETCH_HEAD` in the middle of a sync, and
a suppression's reason and the follow-through classification of the nudge
report, are left out of modules that exist, and so are full-text search and the
read-only forms of `check-action` out of `Gate`. A segment of a glob with a `*`
inside, such as `*.go`, is any wildcard, as it is for the matcher.

## 7. Plan

What would come next, the most important first.

1. `Ledger`: the user's own fetch as an action.
2. `Gate` and `Index` composed: a gate whose rows are those of the file a slow
   `Update` has not reached, and who an acknowledged id belongs to when a confirm
   is filed under it.
3. An abstract specification of a session's nudges (a bounded set that is given
   at least once) that `Nudge` implements.
4. The effective scope of `Derive` and the walk of `ScopeWalk` as one: sets of
   places as the refinement of scopes of globs that match the same.

Runs are kept few: a new module brings one run that passes, with all its
properties, and a violation run only where the code contradicts what is
written.

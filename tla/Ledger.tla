------------------------------- MODULE Ledger -------------------------------
(***************************************************************************)
(* The Git ledger: append-only records on an orphan branch, one branch ref  *)
(* per clone and one on the remote, advanced by concurrent tm processes     *)
(* (src/internal/ledger/ledger.go, sync.go; src/internal/cli/push.go,       *)
(* checkaction.go, init.go, env.go).                                        *)
(*                                                                          *)
(* A process runs one command at a time: append a record, sync, initialize  *)
(* the ledger, or adopt an already fetched one. Each Git subprocess the     *)
(* command runs is one step, so commands of the same clone interleave       *)
(* between them, and so do the detached `git push` a proposal leaves behind *)
(* and the detached `git fetch` a hook starts. Nothing holds a lock across  *)
(* two Git calls, and `update-ref` is called without the old value.         *)
(*                                                                          *)
(* A commit is its record set and its ancestors; record contents, messages  *)
(* and policy.yaml are left out. Commit n is the n-th one created; 0 stands *)
(* for a branch that does not exist.                                        *)
(***************************************************************************)
EXTENDS Naturals, Sequences

CONSTANTS Clones,          \* clones of the repository
          Processes,       \* tm processes (CLI commands, MCP servers)
          CloneOf,         \* the clone a process works in
          Records,         \* memories and observations, named by their ULID
          Seed,            \* stands for the initial commit's policy.yaml
          AutoPush,        \* records whose command starts a detached push; Seed
                           \* is one unless tm init runs with --no-push
          HookClones,      \* clones in which a harness runs the fetching hook
          MaxSyncAttempts, \* sync.go:19
          MaxSyncs         \* bound: tm sync runs per process

ASSUME LedgerAssumption ==
    /\ CloneOf \in [Processes -> Clones]
    /\ AutoPush \subseteq Records \cup {Seed}
    /\ HookClones \subseteq Clones
    /\ Seed \notin Records
    /\ MaxSyncAttempts \in Nat \ {0}
    /\ MaxSyncs \in Nat

VARIABLES
    dag,        \* all commits: dag[i] = [recs |-> records, anc |-> ancestors]
    remote,     \* the remote ledger branch
    local,      \* local[c]: refs/heads/teammemory in clone c
    fetchHead,  \* fetchHead[c]: FETCH_HEAD, one file shared by c's processes
    hookFetch,  \* hookFetch[c]: tip a detached fetch got and will install, or 0
    launched,   \* launched[c]: detached pushes that have not read the ref yet
    pushes,     \* detached pushes in flight: [val, advert]
    pc,         \* pc[p]: the Git call process p makes next
    rec,        \* rec[p]: the record p is appending, Seed during init
    base,       \* base[p]: the local commit p read, created or is pushing
    seen,       \* seen[p]: the remote tip p's sync attempt fetched, or 0
    advert,     \* advert[p]: the tip the remote advertised to p's push
    attempt,    \* attempt[p]: attempts of the current sync
    syncs,      \* syncs[p]: syncs p has started (for MaxSyncs)
    acked,      \* acked[c]: records whose append in c returned success
    reported    \* reported[c]: acked[c] when a sync in c last succeeded

refVars  == <<remote, local, fetchHead>>
bgVars   == <<hookFetch, launched, pushes>>
procVars == <<pc, rec, base, seen, advert, attempt, syncs>>
history  == <<acked, reported>>
vars     == <<dag, refVars, bgVars, procVars, history>>

-----------------------------------------------------------------------------
(* Commits *)

Commits == 1 .. Len(dag)
Refs    == 0 .. Len(dag)      \* what a branch ref can hold

Recs(i) == IF i = 0 THEN {} ELSE dag[i].recs
Anc(i)  == IF i = 0 THEN {} ELSE dag[i].anc

\* merge-base --is-ancestor; a commit is its own ancestor.
IsAncestor(a, b) == a \in Anc(b)

\* commit-tree with parents a and b (0 for none) and the given records.
NewCommit(records, a, b) ==
    Append(dag, [recs |-> records,
                 anc  |-> Anc(a) \cup Anc(b) \cup {Len(dag) + 1}])

\* Broken variant: `push --force-with-lease`, the old tip need not be an ancestor.
Accepts_Forced(val, advertised) == remote = advertised

\* A push is accepted when the remote still is where it was advertised and
\* the new tip descends from it (a non-forced update of one ref).
Accepts(val, advertised) ==
    /\ remote = advertised
    /\ remote = 0 \/ IsAncestor(remote, val)

\* recordid.New: no commit and no running command has this ULID yet.
Fresh(r) ==
    /\ \A i \in Commits : r \notin dag[i].recs
    /\ \A p \in Processes : rec[p] # r

-----------------------------------------------------------------------------
Init ==
    /\ dag = <<>>
    /\ remote = 0
    /\ local = [c \in Clones |-> 0]
    /\ fetchHead = [c \in Clones |-> 0]
    /\ hookFetch = [c \in Clones |-> 0]
    /\ launched = [c \in Clones |-> {}]
    /\ pushes = {}
    /\ pc = [p \in Processes |-> "idle"]
    /\ rec = [p \in Processes |-> Seed]
    /\ base = [p \in Processes |-> 0]
    /\ seen = [p \in Processes |-> 0]
    /\ advert = [p \in Processes |-> 0]
    /\ attempt = [p \in Processes |-> 0]
    /\ syncs = [p \in Processes |-> 0]
    /\ acked = [c \in Clones |-> {}]
    /\ reported = [c \in Clones |-> {}]

\* Process p moves on to the Git call `to`.
Goto(p, to) == pc' = [pc EXCEPT ![p] = to]

\* The command of p ends and its variables are gone.
Exit(p) ==
    /\ pc' = [pc EXCEPT ![p] = "idle"]
    /\ rec' = [rec EXCEPT ![p] = Seed]
    /\ base' = [base EXCEPT ![p] = 0]
    /\ seen' = [seen EXCEPT ![p] = 0]
    /\ advert' = [advert EXCEPT ![p] = 0]
    /\ attempt' = [attempt EXCEPT ![p] = 0]
    /\ UNCHANGED syncs

\* Sync returns a result and no error.
ExitSynced(p) ==
    /\ Exit(p)
    /\ reported' = [reported EXCEPT ![CloneOf[p]] = acked[CloneOf[p]]]
    /\ UNCHANGED acked

-----------------------------------------------------------------------------
(* Broken variants of actions below: plausible bugs the properties must see *)

\* commitFiles does not seed its index with the parent's tree.
Commit_NoReadTree(p) ==
    LET c == CloneOf[p]
        r == rec[p]
    IN  /\ pc[p] = "commit"
        /\ dag' = NewCommit({r} \ {Seed}, base[p], 0)
        /\ local' = [local EXCEPT ![c] = Len(dag')]
        /\ acked' = [acked EXCEPT ![c] = @ \cup ({r} \ {Seed})]
        /\ launched' = [launched EXCEPT ![c] = @ \cup ({r} \cap AutoPush)]
        /\ Exit(p)
        /\ UNCHANGED <<remote, fetchHead, hookFetch, pushes, reported>>

\* The operands of --is-ancestor are swapped in the fast-forward case.
Behind_Swapped(p) ==
    LET tip == fetchHead[CloneOf[p]]
    IN  /\ pc[p] = "reconcile"
        /\ tip # base[p]
        /\ IsAncestor(tip, base[p])
        /\ seen' = [seen EXCEPT ![p] = tip]
        /\ Goto(p, "fastForward")
        /\ UNCHANGED <<dag, refVars, bgVars, rec, base, advert, attempt, syncs, history>>

\* The union commit names only the local tip as its parent.
Diverged_OneParent(p) ==
    LET tip == fetchHead[CloneOf[p]]
    IN  /\ pc[p] = "reconcile"
        /\ ~IsAncestor(base[p], tip)
        /\ ~IsAncestor(tip, base[p])
        /\ dag' = NewCommit(Recs(base[p]) \cup Recs(tip), base[p], 0)
        /\ base' = [base EXCEPT ![p] = Len(dag')]
        /\ seen' = [seen EXCEPT ![p] = tip]
        /\ Goto(p, "installMerge")
        /\ UNCHANGED <<refVars, bgVars, rec, advert, attempt, syncs, history>>

\* The attempt bound is forgotten.
PushRejected_Unbounded(p) ==
    /\ pc[p] = "pushing"
    /\ Goto(p, "revParse")
    /\ UNCHANGED <<dag, refVars, bgVars, rec, base, seen, advert, attempt, syncs, history>>

\* A failed push is taken for a successful one.
PushFails_Ignored(p) ==
    /\ pc[p] = "pushing"
    /\ ExitSynced(p)
    /\ UNCHANGED <<dag, refVars, bgVars>>

\* A network error is retried in place and not counted.
PushFails_Retried(p) ==
    /\ pc[p] = "pushing"
    /\ Goto(p, "push")
    /\ UNCHANGED <<dag, refVars, bgVars, rec, base, seen, advert, attempt, syncs, history>>

\* The hook fetches with a forced refspec, +ref:ref.
DetachedFetchDone_Forced(c) ==
    LET tip == hookFetch[c]
    IN  /\ tip # 0
        /\ local' = [local EXCEPT ![c] = tip]
        /\ hookFetch' = [hookFetch EXCEPT ![c] = 0]
        /\ UNCHANGED <<dag, remote, fetchHead, launched, pushes, procVars, history>>

-----------------------------------------------------------------------------
(* Append: commitFiles *)

\* propose, observe, approve, ...: the branch must exist; the ULID is drawn.
StartAppend(p, r) ==
    /\ pc[p] = "idle"
    /\ local[CloneOf[p]] # 0
    /\ Fresh(r)
    /\ rec' = [rec EXCEPT ![p] = r]
    /\ Goto(p, "readTip")
    /\ UNCHANGED <<dag, refVars, bgVars, base, seen, advert, attempt, syncs, history>>

\* tm init finds no branch and nothing fetched to adopt: Ledger.Init.
StartInit(p) ==
    /\ pc[p] = "idle"
    /\ local[CloneOf[p]] = 0
    /\ Goto(p, "readTip")
    /\ UNCHANGED <<dag, refVars, bgVars, rec, base, seen, advert, attempt, syncs, history>>

\* Exists, rev-parse and read-tree: the parent of the commit to be.
ReadTip(p) ==
    /\ pc[p] = "readTip"
    /\ base' = [base EXCEPT ![p] = local[CloneOf[p]]]
    /\ Goto(p, "commit")
    /\ UNCHANGED <<dag, refVars, bgVars, rec, seen, advert, attempt, syncs, history>>

\* commit-tree on the tree that was read, then update-ref without an expected
\* old value: whatever the branch holds by now is replaced. The command reports
\* success; propose, observe and init start a push.
Commit(p) ==
    LET c == CloneOf[p]
        r == rec[p]
    IN  /\ pc[p] = "commit"
        /\ dag' = NewCommit(Recs(base[p]) \cup ({r} \ {Seed}), base[p], 0)
        /\ local' = [local EXCEPT ![c] = Len(dag')]
        /\ acked' = [acked EXCEPT ![c] = @ \cup ({r} \ {Seed})]
        /\ launched' = [launched EXCEPT ![c] = @ \cup ({r} \cap AutoPush)]
        /\ Exit(p)
        /\ UNCHANGED <<remote, fetchHead, hookFetch, pushes, reported>>

\* openEnv in a clone without the branch: `git clone` has fetched the remote
\* branch, whose tip is about to become the local one.
StartAdopt(p) ==
    /\ pc[p] = "idle"
    /\ local[CloneOf[p]] = 0
    /\ remote # 0
    /\ seen' = [seen EXCEPT ![p] = remote]
    /\ Goto(p, "adopt")
    /\ UNCHANGED <<dag, refVars, bgVars, rec, base, advert, attempt, syncs, history>>

Adopt(p) ==
    /\ pc[p] = "adopt"
    /\ local' = [local EXCEPT ![CloneOf[p]] = seen[p]]
    /\ Exit(p)
    /\ UNCHANGED <<dag, remote, fetchHead, bgVars, history>>

-----------------------------------------------------------------------------
(* Sync: fetch, reconcile, push, at most MaxSyncAttempts times *)

StartSync(p) ==
    /\ pc[p] = "idle"
    /\ local[CloneOf[p]] # 0
    /\ syncs[p] < MaxSyncs
    /\ syncs' = [syncs EXCEPT ![p] = @ + 1]
    /\ Goto(p, "revParse")
    /\ UNCHANGED <<dag, refVars, bgVars, rec, base, seen, advert, attempt, history>>

\* An attempt begins with rev-parse of the local branch.
RevParse(p) ==
    /\ pc[p] = "revParse"
    /\ base' = [base EXCEPT ![p] = local[CloneOf[p]]]
    /\ attempt' = [attempt EXCEPT ![p] = @ + 1]
    /\ seen' = [seen EXCEPT ![p] = 0]
    /\ Goto(p, "fetch")
    /\ UNCHANGED <<dag, refVars, bgVars, rec, advert, syncs, history>>

Fetch(p) ==
    /\ pc[p] = "fetch"
    /\ remote # 0
    /\ fetchHead' = [fetchHead EXCEPT ![CloneOf[p]] = remote]
    /\ Goto(p, "reconcile")
    /\ UNCHANGED <<dag, remote, local, bgVars, rec, base, seen, advert, attempt, syncs, history>>

\* No such branch or no network: both are taken for an empty remote.
FetchFails(p) ==
    /\ pc[p] = "fetch"
    /\ Goto(p, "push")
    /\ UNCHANGED <<dag, refVars, bgVars, rec, base, seen, advert, attempt, syncs, history>>

\* rev-parse FETCH_HEAD, which another fetch in this clone may have replaced,
\* and the four-way decision. The merge commit is created here and installed
\* by a later update-ref.
UpToDate(p) ==
    /\ pc[p] = "reconcile"
    /\ fetchHead[CloneOf[p]] = base[p]
    /\ ExitSynced(p)
    /\ UNCHANGED <<dag, refVars, bgVars>>

Behind(p) ==
    LET tip == fetchHead[CloneOf[p]]
    IN  /\ pc[p] = "reconcile"
        /\ tip # base[p]
        /\ IsAncestor(base[p], tip)
        /\ seen' = [seen EXCEPT ![p] = tip]
        /\ Goto(p, "fastForward")
        /\ UNCHANGED <<dag, refVars, bgVars, rec, base, advert, attempt, syncs, history>>

Ahead(p) ==
    LET tip == fetchHead[CloneOf[p]]
    IN  /\ pc[p] = "reconcile"
        /\ tip # base[p]
        /\ IsAncestor(tip, base[p])
        /\ seen' = [seen EXCEPT ![p] = tip]
        /\ Goto(p, "push")
        /\ UNCHANGED <<dag, refVars, bgVars, rec, base, advert, attempt, syncs, history>>

Diverged(p) ==
    LET tip == fetchHead[CloneOf[p]]
    IN  /\ pc[p] = "reconcile"
        /\ ~IsAncestor(base[p], tip)
        /\ ~IsAncestor(tip, base[p])
        /\ dag' = NewCommit(Recs(base[p]) \cup Recs(tip), base[p], tip)
        /\ base' = [base EXCEPT ![p] = Len(dag')]
        /\ seen' = [seen EXCEPT ![p] = tip]
        /\ Goto(p, "installMerge")
        /\ UNCHANGED <<refVars, bgVars, rec, advert, attempt, syncs, history>>

FastForward(p) ==
    /\ pc[p] = "fastForward"
    /\ local' = [local EXCEPT ![CloneOf[p]] = seen[p]]
    /\ ExitSynced(p)
    /\ UNCHANGED <<dag, remote, fetchHead, bgVars>>

InstallMerge(p) ==
    /\ pc[p] = "installMerge"
    /\ local' = [local EXCEPT ![CloneOf[p]] = base[p]]
    /\ Goto(p, "push")
    /\ UNCHANGED <<dag, remote, fetchHead, bgVars, rec, base, seen, advert, attempt, syncs, history>>

\* git push reads the local branch as it is now and the advertised remote one.
PushStart(p) ==
    /\ pc[p] = "push"
    /\ base' = [base EXCEPT ![p] = local[CloneOf[p]]]
    /\ advert' = [advert EXCEPT ![p] = remote]
    /\ Goto(p, "pushing")
    /\ UNCHANGED <<dag, refVars, bgVars, rec, seen, attempt, syncs, history>>

PushAccepted(p) ==
    /\ pc[p] = "pushing"
    /\ Accepts(base[p], advert[p])
    /\ remote' = base[p]
    /\ ExitSynced(p)
    /\ UNCHANGED <<dag, local, fetchHead, bgVars>>

\* Sync takes an error of `git push` for a lost race and starts over; what the
\* attempt had read goes out of scope with it.
Retry(p) ==
    /\ attempt[p] < MaxSyncAttempts
    /\ base' = [base EXCEPT ![p] = 0]
    /\ seen' = [seen EXCEPT ![p] = 0]
    /\ advert' = [advert EXCEPT ![p] = 0]
    /\ Goto(p, "revParse")
    /\ UNCHANGED <<rec, attempt, syncs>>

\* The remote took the push but the answer was lost: an error for Sync, which
\* its text makes retryable or not.
PushReplyLost(p) ==
    /\ pc[p] = "pushing"
    /\ Accepts(base[p], advert[p])
    /\ remote' = base[p]
    /\ Retry(p) \/ Exit(p)
    /\ UNCHANGED <<dag, local, fetchHead, bgVars, history>>

\* The push is refused. Git ends every refusal with "failed to push some refs":
\* whether the remote has moved or refuses by rules of its own (a protected
\* branch, a hook that declines), Sync retries until its attempts are used up.
PushRejected(p) ==
    /\ pc[p] = "pushing"
    /\ Retry(p)
    /\ UNCHANGED <<dag, refVars, bgVars, history>>

GiveUp(p) ==
    /\ pc[p] = "pushing"
    /\ attempt[p] >= MaxSyncAttempts
    /\ Exit(p)
    /\ UNCHANGED <<dag, refVars, bgVars, history>>

\* Authentication, network, no such remote: no text that is retried.
PushFails(p) ==
    /\ pc[p] = "pushing"
    /\ Exit(p)
    /\ UNCHANGED <<dag, refVars, bgVars, history>>

\* The process is killed between two Git calls.
Crash(p) ==
    /\ pc[p] # "idle"
    /\ Exit(p)
    /\ UNCHANGED <<dag, refVars, bgVars, history>>

-----------------------------------------------------------------------------
(* Detached Git processes *)

\* The `git push` started by propose, observe or init reads the branch.
DetachedPushStart(c) ==
    \E r \in launched[c] :
        /\ launched' = [launched EXCEPT ![c] = @ \ {r}]
        /\ pushes' = pushes \cup {[val |-> local[c], advert |-> remote]}
        /\ UNCHANGED <<dag, refVars, hookFetch, procVars, history>>

DetachedPushAccepted ==
    \E x \in pushes :
        /\ Accepts(x.val, x.advert)
        /\ remote' = x.val
        /\ pushes' = pushes \ {x}
        /\ UNCHANGED <<dag, local, fetchHead, hookFetch, launched, procVars, history>>

\* Rejected, or lost on the network: best effort, nobody retries it.
DetachedPushLost ==
    \E x \in pushes :
        /\ pushes' = pushes \ {x}
        /\ UNCHANGED <<dag, refVars, hookFetch, launched, procVars, history>>

\* maybeTriggerFetch: `git fetch remote ref:ref` writes FETCH_HEAD ...
DetachedFetch(c) ==
    /\ c \in HookClones
    /\ local[c] # 0
    /\ remote # 0
    /\ hookFetch[c] = 0
    /\ hookFetch' = [hookFetch EXCEPT ![c] = remote]
    /\ fetchHead' = [fetchHead EXCEPT ![c] = remote]
    /\ UNCHANGED <<dag, remote, local, launched, pushes, procVars, history>>

\* ... and moves the branch if that is a fast-forward; Git checks and writes
\* the ref under its lock.
DetachedFetchDone(c) ==
    LET tip == hookFetch[c]
    IN  /\ tip # 0
        /\ local' = [local EXCEPT ![c] = IF IsAncestor(@, tip) THEN tip ELSE @]
        /\ hookFetch' = [hookFetch EXCEPT ![c] = 0]
        /\ UNCHANGED <<dag, remote, fetchHead, launched, pushes, procVars, history>>

-----------------------------------------------------------------------------
\* The next Git call of a running command.
Step(p) ==
    \/ ReadTip(p) \/ Commit(p) \/ Adopt(p)
    \/ RevParse(p) \/ Fetch(p) \/ FetchFails(p)
    \/ UpToDate(p) \/ Behind(p) \/ Ahead(p) \/ Diverged(p)
    \/ FastForward(p) \/ InstallMerge(p)
    \/ PushStart(p) \/ PushAccepted(p) \/ PushReplyLost(p)
    \/ PushRejected(p) \/ GiveUp(p) \/ PushFails(p)

Start(p) ==
    \/ StartInit(p) \/ StartAdopt(p) \/ StartSync(p)
    \/ \E r \in Records : StartAppend(p, r)

Detached ==
    \/ DetachedPushAccepted \/ DetachedPushLost
    \/ \E c \in Clones : DetachedPushStart(c) \/ DetachedFetch(c) \/ DetachedFetchDone(c)

Next ==
    \/ Detached
    \/ \E p \in Processes : Start(p) \/ Step(p) \/ Crash(p)

Spec == Init /\ [][Next]_vars

\* A command that runs is scheduled by the operating system until it ends, and
\* Git calls return (Git and ssh time out).
FairSpec == Spec /\ \A p \in Processes : WF_vars(Step(p))

-----------------------------------------------------------------------------
(* Properties *)

PushRecord == [val : Refs, advert : Refs]

PcValues == {"idle", "readTip", "commit", "adopt", "revParse", "fetch", "reconcile",
             "fastForward", "installMerge", "push", "pushing"}

CommitRecord == [recs : SUBSET Records, anc : SUBSET Nat]
CommitsOK == dag \in Seq(CommitRecord)
RefsOK ==
    /\ remote \in Refs
    /\ local \in [Clones -> Refs]
    /\ fetchHead \in [Clones -> Refs]
BackgroundOK ==
    /\ hookFetch \in [Clones -> Refs]
    /\ launched \in [Clones -> SUBSET (Records \cup {Seed})]
    /\ pushes \in SUBSET PushRecord
ProcessesOK ==
    /\ pc \in [Processes -> PcValues]
    /\ rec \in [Processes -> Records \cup {Seed}]
    /\ base \in [Processes -> Refs]
    /\ seen \in [Processes -> Refs]
    /\ advert \in [Processes -> Refs]
    /\ attempt \in [Processes -> 0 .. MaxSyncAttempts]
    /\ syncs \in [Processes -> 0 .. MaxSyncs]
HistoryOK ==
    /\ acked \in [Clones -> SUBSET Records]
    /\ reported \in [Clones -> SUBSET Records]

\* Every variable has its type: refs name existing commits, the attempt counter
\* of Sync never passes maxSyncAttempts.
TypeOK == CommitsOK /\ RefsOK /\ BackgroundOK /\ ProcessesOK /\ HistoryOK

\* History is append-only: no commit, whether made by an append on a stale tip
\* or by a union merge, lacks a record that one of its ancestors has
\* (commitFiles and unionMerge).
HistoryKeepsRecords ==
    \A i \in Commits : \A a \in dag[i].anc : Recs(a) \subseteq Recs(i)

\* Whatever commands, detached pushes and fetches do, and however they
\* interleave or die, the remote branch never loses a record (non-forced push
\* of a branch whose commits keep their parents' records).
RemoteOnlyGrows == [][Recs(remote) \subseteq Recs(remote)']_vars

\* One tm command at a time in each clone. Detached pushes and fetches still
\* run beside it.
OneCommandPerClone ==
    \A p, q \in Processes : CloneOf[p] = CloneOf[q] => p = q

\* A record whose append reported success stays on the clone's own branch,
\* through later appends, background fetches, merges, failed syncs and crashes.
AcknowledgedKept == \A c \in Clones : acked[c] \subseteq Recs(local[c])

\* What had been appended in a clone when its sync reported success is on the
\* remote from then on, whichever way that sync ended: up to date,
\* fast-forward, push or merge, after any number of lost races.
SyncedIsShared == \A c \in Clones : reported[c] \subseteq Recs(remote)

\* What Sync pushes after a fetch that worked is a fast-forward of the remote as
\* long as the remote is where this attempt found it, whatever commands of other
\* clones and detached pushes and fetches did since: only another writer can make
\* it non-fast-forward, so fetching again mends every race that was lost. (The
\* remote may still refuse it by rules of its own, and Sync retries that too.)
ReconciledFits ==
    \A p \in Processes :
        pc[p] = "pushing" /\ seen[p] # 0 /\ seen[p] = remote => Accepts(base[p], advert[p])

\* Every command ends: Sync's retry loop is bounded even if every push loses.
CommandsEnd == \A p \in Processes : pc[p] # "idle" ~> pc[p] = "idle"

\* The promise of SharedLedger.
Shared == INSTANCE SharedLedger WITH shared <- Recs(remote)
RefinesShared == Shared!SharedSpec

\* --- what the documentation says of concurrent local appends ---

\* recordid.go and prd.md 7.2: records cannot be lost to concurrency, whoever
\* appends: a successful append is on the clone's branch or on the remote.
ConcurrentAppendsKept ==
    \A c \in Clones : acked[c] \subseteq Recs(local[c]) \cup Recs(remote)
=============================================================================

------------------------------- MODULE Index -------------------------------
(***************************************************************************)
(* The local index: a database file in .git/tm that materializes the        *)
(* derived state of every memory, brought up to date by each tm process     *)
(* while others append to the ledger branch or fetch into it                *)
(* (src/internal/index/index.go, replay.go; the ledger reads of             *)
(* src/internal/ledger/ledger.go).                                          *)
(*                                                                          *)
(* Every read of the branch resolves the ref anew, so each is a step of its *)
(* own and sees the branch as it is then; only the write is a transaction.  *)
(* The branch grows (Ledger), so a commit is the records it holds, and two  *)
(* commits with the same records are one. A file that is removed lives on   *)
(* for the processes that have it open; files keeps them all, the last one  *)
(* is the one at the path, or to be there when it is opened next.           *)
(***************************************************************************)
EXTENDS Derive

CONSTANTS Feed,       \* observations that may reach the branch
          Policies,   \* the versions of policy.yaml, in the order of their commits
          Processes,  \* CLI commands, hooks and MCP servers of the clone
          MaxFiles,   \* bound: database files created
          Serial,     \* TRUE: assume one process updates the index at a time
          QuietReplay \* TRUE: assume the branch rests while Reindex reads it

Commit == [mems : SUBSET Memories, obs : SUBSET Feed, version : 1 .. Len(Policies)]

ASSUME IndexAssumption ==
    /\ \A o \in Feed : o.id \in Nat /\ CreatedAt[o.id] \in Nat
    /\ \A x, o \in Feed : x.id <= o.id => CreatedAt[x.id] <= CreatedAt[o.id]
    /\ Len(Policies) \in Nat \ {0}
    /\ Unset \notin Commit

VARIABLES
    branch,  \* the ledger branch: [mems, obs, version]
    files,   \* database files: [readable, tip, rows]; tip is a commit or Unset
    pc,      \* pc[p]: what p does next
    handle,  \* handle[p]: the file p has open, 0 if none
    opening, \* opening[p]: p is in Open, which Update follows
    old,     \* old[p]: the tip Update found in the file
    new,     \* new[p]: the tip p read, to be stored with the rows
    got      \* got[p]: [mems, obs, version] p has read from the branch

locals == <<pc, handle, opening, old, new, got>>
vars   == <<branch, files, locals>>

NoCommit == [mems |-> {}, obs |-> {}, version |-> 1]
NewFile  == [readable |-> FALSE, tip |-> Unset, rows |-> <<>>]  \* without its tables

\* A full replay of the records.
Replay(b) == [m \in b.mems |-> Derived(m, b.mems, b.obs, Policies[b.version])]

\* affectedMemoryIDs: what the records in now and not in before name.
Named(before, now) ==
    (now.mems \ before.mems) \cup {o.target : o \in now.obs \ before.obs}

Replaying(p) == pc[p] \in {"observations", "policy", "tip"} /\ new[p] = Unset
Updating(p)  == pc[p] # "idle"

-----------------------------------------------------------------------------
Init ==
    /\ branch = NoCommit
    /\ files = <<>>
    /\ pc = [p \in Processes |-> "idle"]
    /\ handle = [p \in Processes |-> 0]
    /\ opening = [p \in Processes |-> FALSE]
    /\ old = [p \in Processes |-> Unset]
    /\ new = [p \in Processes |-> Unset]
    /\ got = [p \in Processes |-> NoCommit]

\* A record is appended or fetched, or an edit of policy.yaml arrives.
Advance ==
    /\ QuietReplay => \A p \in Processes : ~Replaying(p)
    /\ \/ \E m \in Memories : branch' = [branch EXCEPT !.mems = @ \cup {m}]
       \/ \E o \in Feed :
             /\ o.target \in branch.mems
             /\ o.ref \in branch.mems \cup {Unset}
             /\ branch' = [branch EXCEPT !.obs = @ \cup {o}]
       \/ /\ branch.version < Len(Policies)
          /\ branch' = [branch EXCEPT !.version = @ + 1]
    /\ UNCHANGED <<files, locals>>

\* The file at the path is there, intact and of this version.
FoundGood == files # <<>> /\ files[Len(files)].readable

\* The file at the path is damaged or deleted.
Damage ==
    /\ FoundGood
    /\ files' = [files EXCEPT ![Len(files)].readable = FALSE]
    /\ UNCHANGED <<branch, locals>>

Goto(p, to) == pc' = [pc EXCEPT ![p] = to]

\* The call returns, by success or error; the file stays open.
Return(p) ==
    /\ Goto(p, "idle")
    /\ old' = [old EXCEPT ![p] = Unset]
    /\ new' = [new EXCEPT ![p] = Unset]
    /\ got' = [got EXCEPT ![p] = NoCommit]
    /\ opening' = [opening EXCEPT ![p] = FALSE]
    /\ UNCHANGED handle

-----------------------------------------------------------------------------
(* Open *)

MayStart(p) ==
    /\ pc[p] = "idle"
    /\ Serial => \A q \in Processes : ~Updating(q)

\* A new process (it takes over p's place) finds it good.
OpenExisting(p) ==
    /\ MayStart(p)
    /\ FoundGood
    /\ handle' = [handle EXCEPT ![p] = Len(files)]
    /\ Goto(p, "update")
    /\ UNCHANGED <<branch, files, opening, old, new, got>>

\* Missing, corrupt or of another version: to be removed and created anew.
OpenBad(p) ==
    /\ MayStart(p)
    /\ ~FoundGood
    /\ Goto(p, "remove")
    /\ UNCHANGED <<branch, files, handle, opening, old, new, got>>

\* Whatever is at the path by now is removed, good or bad.
RemoveFile(p) ==
    /\ pc[p] = "remove"
    /\ Len(files) < MaxFiles
    /\ files' = Append(files, NewFile)
    /\ Goto(p, "create")
    /\ UNCHANGED <<branch, handle, opening, old, new, got>>

\* Broken variant: the file that was found bad stays open.
CreateFile_KeepsHandle(p) ==
    /\ pc[p] = "create"
    /\ Goto(p, "schema")
    /\ UNCHANGED <<branch, files, handle, opening, old, new, got>>

\* Opens what is at the path: a new file, unless another process was here first.
CreateFile(p) ==
    /\ pc[p] = "create"
    /\ handle' = [handle EXCEPT ![p] = Len(files)]
    /\ Goto(p, "schema")
    /\ UNCHANGED <<branch, files, opening, old, new, got>>

\* Tables that are there already are an error. A fresh file is replayed.
CreateSchema(p) ==
    /\ pc[p] = "schema"
    /\ files[handle[p]] = NewFile
    /\ files' = [files EXCEPT ![handle[p]].readable = TRUE]
    /\ opening' = [opening EXCEPT ![p] = TRUE]
    /\ Goto(p, "memories")
    /\ UNCHANGED <<branch, handle, old, new, got>>

-----------------------------------------------------------------------------
(* Update *)

\* The same process updates again: after its own append, or an MCP server.
UpdateAgain(p) ==
    /\ MayStart(p)
    /\ handle[p] # 0
    /\ Goto(p, "update")
    /\ UNCHANGED <<branch, files, handle, opening, old, new, got>>

\* The commit the file was last brought up to; none means a full replay.
StoredTip(p) ==
    /\ pc[p] = "update"
    /\ files[handle[p]].readable
    /\ old' = [old EXCEPT ![p] = files[handle[p]].tip]
    /\ Goto(p, IF files[handle[p]].tip = Unset THEN "memories" ELSE "changed")
    /\ UNCHANGED <<branch, files, handle, opening, new, got>>

\* ChangedSince: the tip now, and what was added since.
UpToDate(p) ==
    /\ pc[p] = "changed"
    /\ branch = old[p]
    /\ Return(p)
    /\ UNCHANGED <<branch, files>>

PolicyChanged(p) ==
    /\ pc[p] = "changed"
    /\ branch.version # old[p].version
    /\ Goto(p, "memories")
    /\ UNCHANGED <<branch, files, handle, opening, old, new, got>>

ChangedSince(p) ==
    /\ pc[p] = "changed"
    /\ branch # old[p]
    /\ branch.version = old[p].version
    /\ new' = [new EXCEPT ![p] = branch]
    /\ Goto(p, "observations")
    /\ UNCHANGED <<branch, files, handle, opening, old, got>>

\* Memories comes first in a replay, and in an update last (it is read only if
\* there are claims between memories; without any it is not used).
ReadMemories(p) ==
    /\ pc[p] = "memories"
    /\ got' = [got EXCEPT ![p].mems = branch.mems]
    /\ Goto(p, IF new[p] = Unset THEN "observations" ELSE "write")
    /\ UNCHANGED <<branch, files, handle, opening, old, new>>

ReadObservations(p) ==
    /\ pc[p] = "observations"
    /\ got' = [got EXCEPT ![p].obs = branch.obs]
    /\ Goto(p, "policy")
    /\ UNCHANGED <<branch, files, handle, opening, old, new>>

ReadPolicy(p) ==
    /\ pc[p] = "policy"
    /\ got' = [got EXCEPT ![p].version = branch.version]
    /\ Goto(p, IF new[p] = Unset THEN "tip" ELSE "memories")
    /\ UNCHANGED <<branch, files, handle, opening, old, new>>

\* A replay reads the tip it will store last.
ReadTip(p) ==
    /\ pc[p] = "tip"
    /\ new' = [new EXCEPT ![p] = branch]
    /\ Goto(p, "rebuild")
    /\ UNCHANGED <<branch, files, handle, opening, old, got>>

\* The rows an update writes: the affected memories that are on the branch.
Affected(p) == FanOut(Named(old[p], new[p]), got[p].obs) \cap branch.mems

\* Broken variant: the tip stored is the one of the moment of writing.
WriteRows_TipNow(p) ==
    LET file == files[handle[p]]
        fresh == Replay(got[p])
    IN  /\ pc[p] = "write"
        /\ file.readable
        /\ files' = [files EXCEPT ![handle[p]] =
                        [readable |-> TRUE, tip |-> branch,
                         rows |-> [m \in DOMAIN file.rows \cup Affected(p) |->
                                      IF m \in Affected(p) THEN fresh[m] ELSE file.rows[m]]]]
        /\ Return(p)
        /\ UNCHANGED branch

\* One transaction: the affected rows and the tip.
WriteRows(p) ==
    LET file == files[handle[p]]
        fresh == Replay(got[p])
    IN  /\ pc[p] = "write"
        /\ file.readable
        /\ files' = [files EXCEPT ![handle[p]] =
                        [readable |-> TRUE, tip |-> new[p],
                         rows |-> [m \in DOMAIN file.rows \cup Affected(p) |->
                                      IF m \in Affected(p) THEN fresh[m] ELSE file.rows[m]]]]
        /\ Return(p)
        /\ UNCHANGED branch

\* One transaction: all rows are replaced. Open goes on to Update.
Rebuild(p) ==
    /\ pc[p] = "rebuild"
    /\ files[handle[p]].readable
    /\ files' = [files EXCEPT ![handle[p]] =
                    [readable |-> TRUE, tip |-> new[p], rows |-> Replay(got[p])]]
    /\ IF opening[p]
       THEN /\ Goto(p, "update")
            /\ old' = [old EXCEPT ![p] = Unset]
            /\ new' = [new EXCEPT ![p] = Unset]
            /\ got' = [got EXCEPT ![p] = NoCommit]
            /\ opening' = [opening EXCEPT ![p] = FALSE]
            /\ UNCHANGED handle
       ELSE Return(p)
    /\ UNCHANGED branch

\* The process is killed, or a statement fails on a damaged or busy file: the
\* transaction is rolled back.
Abort(p) ==
    /\ pc[p] # "idle"
    /\ Return(p)
    /\ UNCHANGED <<branch, files>>

Step(p) ==
    \/ OpenExisting(p) \/ OpenBad(p)
    \/ RemoveFile(p) \/ CreateFile(p) \/ CreateSchema(p)
    \/ UpdateAgain(p) \/ StoredTip(p) \/ UpToDate(p) \/ PolicyChanged(p) \/ ChangedSince(p)
    \/ ReadMemories(p) \/ ReadObservations(p) \/ ReadPolicy(p) \/ ReadTip(p)
    \/ WriteRows(p) \/ Rebuild(p) \/ Abort(p)

Next == Advance \/ Damage \/ \E p \in Processes : Step(p)

Spec == Init /\ [][Next]_vars

-----------------------------------------------------------------------------
(* Properties *)

PcValues == {"idle", "remove", "create", "schema", "update", "changed", "memories",
             "observations", "policy", "tip", "rebuild", "write"}

\* Every variable has its type, a running process has a file open, and a file
\* has rows of memories on the branch only.
TypeOK ==
    /\ branch \in Commit
    /\ \A f \in DOMAIN files :
          /\ files[f].readable \in BOOLEAN
          /\ files[f].tip \in Commit \cup {Unset}
          /\ DOMAIN files[f].rows \subseteq branch.mems
    /\ pc \in [Processes -> PcValues]
    /\ handle \in [Processes -> 0 .. Len(files)]
    /\ \A p \in Processes : /\ pc[p] \notin {"idle", "remove", "create"} => handle[p] # 0
                            /\ pc[p] = "create" => files # <<>>
    /\ opening \in [Processes -> BOOLEAN]
    /\ old \in [Processes -> Commit \cup {Unset}]
    /\ new \in [Processes -> Commit \cup {Unset}]
    /\ got \in [Processes -> Commit]

\* Update is incremental but loses nothing: a row that differs from a full
\* replay of the branch belongs to a memory the next Update derives again,
\* whatever the branch did between the reads of earlier ones, and wherever
\* they were cut off.
StaleRowsAreDue ==
    \A f \in DOMAIN files :
       LET file == files[f]
       IN  (file.tip # Unset /\ file.tip.version = branch.version) =>
              \A m \in branch.mems \ FanOut(Named(file.tip, branch), branch.obs) :
                 m \in DOMAIN file.rows /\ file.rows[m] = Replay(branch)[m]

\* --- what the documentation says of the index ---

\* prd.md 7.3 "the branch is always the source of truth": an index that Update
\* leaves alone because it is at the tip is what a full replay would give.
IndexFresh ==
    \A f \in DOMAIN files : files[f].tip = branch => files[f].rows = Replay(branch)
=============================================================================

---------------------------- MODULE SharedLedger ----------------------------
(***************************************************************************)
(* What the Git ledger promises its users, without Git: a set of records    *)
(* shared by every clone that only ever grows, and clones that append to    *)
(* their own copy and publish it.                                           *)
(*                                                                          *)
(* Ledger.tla describes how the code keeps this promise with commits, refs, *)
(* fetches, union merges and pushes.                                        *)
(***************************************************************************)
CONSTANTS Clones,   \* the clones of the repository
          Records   \* the memories and observations that can be appended

VARIABLES shared,    \* the records on the remote ledger branch
          acked,     \* acked[c]: appends that reported success in clone c
          reported   \* reported[c]: what a successful sync in c vouched for

sharedVars == <<shared, acked, reported>>

SharedInit ==
    /\ shared = {}
    /\ acked = [c \in Clones |-> {}]
    /\ reported = [c \in Clones |-> {}]

\* An append succeeds: the record is the clone's from now on.
Record(c, r) ==
    /\ acked' = [acked EXCEPT ![c] = @ \cup {r}]
    /\ UNCHANGED <<shared, reported>>

\* A push lands: records arrive at the remote and none leave it.
Publish ==
    /\ shared' \in SUBSET Records
    /\ shared \subseteq shared'
    /\ UNCHANGED <<acked, reported>>

\* A sync reports success: everything the clone had appended is shared, by
\* this sync's own push or by an earlier one.
Report(c) ==
    /\ shared' \in SUBSET Records
    /\ shared \cup acked[c] \subseteq shared'
    /\ reported' = [reported EXCEPT ![c] = acked[c]]
    /\ UNCHANGED acked

SharedNext ==
    \/ Publish
    \/ \E c \in Clones : Report(c) \/ \E r \in Records : Record(c, r)

SharedSpec == SharedInit /\ [][SharedNext]_sharedVars
=============================================================================

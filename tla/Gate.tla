-------------------------------- MODULE Gate --------------------------------
(***************************************************************************)
(* The pre-tool gate (cli/checkaction.go, runHook), the retrieval it asks   *)
(* (src/internal/retrieve), the acknowledgments that open it (acks/acks.go, *)
(* cli/ack.go) and the session ids these are filed under (sessionid).       *)
(*                                                                          *)
(* Sessions work side by side in one clone. They meet in two kinds of       *)
(* files, which every writer truncates and then writes: one acknowledgment  *)
(* file per memory, and the file that names the session heard of last. A    *)
(* session does one thing at a time: a gate, an ack, or the hook after a    *)
(* tool call. A person who acknowledges from a terminal does what a session *)
(* does that is not identified and only acknowledges.                       *)
(***************************************************************************)
EXTENDS Integers, FiniteSetsExt

CONSTANTS Sessions,
          Identified,   \* sessions whose commands have their id in the environment
          Memories,
          Actions,      \* the edits and commands an agent is about to make
          Entries,      \* path globs and command patterns of scopes
          Matches,      \* pairs of an entry and an action
          Precision,    \* entry -> how many literal parts it has, at least 1
          Rows,         \* memory -> the rows it may have in the index
          CreatedAt,    \* memory -> when it was recorded, ties broken by drift and id
          Retrieval,    \* policy.yaml, retrieval
          TTL,          \* life of an ack without a session
          MaxTime,      \* bound on the clock
          MaxAcks,      \* bound on the acks that are written
          None,         \* no session, or an empty file
          Garbled,      \* what two writers left in a file, one over the other
          NoFile

Row == [status : {"active", "provisional", "contested", "stale", "rejected", "duplicate",
                  "superseded"},
        enforcement : {"hint", "recommendation", "warning", "requirement"},
        confidence : {"low", "medium", "high"},
        scope : SUBSET Entries]

\* What an ack file holds unless it is cut off.
Acks == [memory : Memories, session : Sessions \cup {None, Garbled}, expires : 0..(MaxTime + TTL)]

ASSUME GateAssumption ==
    /\ Identified \subseteq Sessions
    /\ {None, Garbled} \cap Sessions = {}
    /\ {None, Garbled, NoFile} \cap Acks = {}
    /\ None # Garbled
    /\ Rows \in [Memories -> SUBSET Row]
    /\ Matches \subseteq Entries \X Actions
    /\ Precision \in [Entries -> Nat]
    /\ CreatedAt \in [Memories -> Nat]
    /\ \A m, n \in Memories : CreatedAt[m] = CreatedAt[n] => m = n
    /\ IsFiniteSet(Memories)
    /\ Retrieval.mode \in {"never", "related", "always"}
    /\ {Retrieval.maxResults, Retrieval.maxProvisional, TTL, MaxTime, MaxAcks} \subseteq Nat

VARIABLES row,      \* memory -> its row of the index
          clock,
          ackFile,  \* memory -> what its acknowledgment file holds
          current,  \* current-session.txt
          pc,       \* session -> what it does next
          check,    \* session -> what the gate at work has found so far
          ack,      \* session -> the ack at work
          named,    \* history: sessions that have an id and gave their ack at work
                    \* another one with --session
          granted,  \* history: acks that were written, by whom and whether named
          lasting   \* history: <<session, memory>> acked by that session itself, and
                    \* by nobody since

vars == <<row, clock, ackFile, current, pc, check, ack, named, granted, lasting>>

-----------------------------------------------------------------------------
(* Retrieval: which memories reach the gate. An action is an edit or a      *)
(* command, so path globs and command patterns never compete for it; the    *)
(* hook passes no description, so nothing is found by its text.             *)

MatchingEntries(m, x) == {e \in row[m].scope : <<e, x>> \in Matches}
BestSpecificity(m, x) == Max({Precision[e] : e \in MatchingEntries(m, x)})

Found(x, statuses) == {m \in Memories : row[m].status \in statuses /\ MatchingEntries(m, x) # {}}

Active(x)      == Found(x, {"active"})
Provisional(x) == IF Retrieval.mode = "never" THEN {} ELSE Found(x, {"provisional", "contested"})

EnfRank  == [hint |-> 0, recommendation |-> 1, warning |-> 2, requirement |-> 3]
ConfRank == [low |-> 0, medium |-> 1, high |-> 2]

\* Broken variant: how sure a memory is comes before how binding it is.
RankKey_ConfidenceFirst(m, x) ==
    <<BestSpecificity(m, x), ConfRank[row[m].confidence], EnfRank[row[m].enforcement], CreatedAt[m]>>

RankKey(m, x) == <<BestSpecificity(m, x), EnfRank[row[m].enforcement],
                   ConfRank[row[m].confidence], CreatedAt[m]>>

Above(k, l) == \E i \in 1..4 : k[i] > l[i] /\ \A j \in 1..(i - 1) : k[j] = l[j]

\* Those below fewer than max others.
Cap(ms, x, max) ==
    {m \in ms : Cardinality({n \in ms \ {m} : Above(RankKey(n, x), RankKey(m, x))}) < max}

Retrieve(x) == Cap(Active(x), x, Retrieval.maxResults)
                  \cup Cap(Provisional(x), x, Retrieval.maxProvisional)

Requires(m) == row[m].enforcement = "requirement" /\ row[m].status = "active"

-----------------------------------------------------------------------------
(* The files. A writer truncates a file and writes from its start, so what  *)
(* it writes over another one's text may end in a rest of that text.        *)

AckOf(m, session, expires) == [memory |-> m, session |-> session, expires |-> expires]

Written(old, new) == IF old = None THEN {new} ELSE {new, Garbled}

\* Broken variants: whoever acknowledged, and session acks that have expired at zero.
IsAcked_AnySession(m, session, now) ==
    ackFile[m] \in Acks /\ (ackFile[m].session # None \/ now < ackFile[m].expires)

IsAcked_AlwaysExpires(m, session, now) ==
    ackFile[m] \in Acks /\ ackFile[m].session \in {None, session} /\ now < ackFile[m].expires

\* An unreadable ack counts as none. One without a session holds until it expires.
IsAcked(m, session, now) ==
    /\ ackFile[m] \in Acks
    /\ IF ackFile[m].session # None THEN ackFile[m].session = session
                                    ELSE now < ackFile[m].expires

\* Nothing explicit: the command's own session, or else the one heard of last.
Resolve(s) == IF s \in Identified THEN s ELSE current

-----------------------------------------------------------------------------
(* Hooks and commands.                                                      *)

\* Broken variant: a blocker is passed on with the context as well.
Judged_NoContinue(c, r, acked) ==
    [todo     |-> c.todo \ {r},
     cleared  |-> c.cleared \cup {r.memory},
     blockers |-> IF acked THEN c.blockers ELSE c.blockers \cup {r.memory},
     now      |-> c.now]

\* The gate's findings after one more result.
Judged(c, r, acked) ==
    [todo     |-> c.todo \ {r},
     cleared  |-> IF acked THEN c.cleared \cup {r.memory} ELSE c.cleared,
     blockers |-> IF acked THEN c.blockers ELSE c.blockers \cup {r.memory},
     now      |-> c.now]

Idle  == [todo |-> {}, cleared |-> {}, blockers |-> {}, now |-> 0]
NoAck == AckOf(None, None, 0)

Goto(s, from, to) == pc[s] = from /\ pc' = [pc EXCEPT ![s] = to]

\* The index is read once; what else the hook does with it is in Nudge.
StartCheck(s, x) ==
    /\ Goto(s, "idle", "checking")
    /\ check' = [check EXCEPT ![s] =
           [todo     |-> {[memory |-> m, key |-> RankKey(m, x)] :
                             m \in {n \in Retrieve(x) : Requires(n)}},
            cleared  |-> {},
            blockers |-> {},
            now      |-> clock]]
    /\ UNCHANGED <<row, clock, ackFile, current, ack, named, granted, lasting>>

\* One ack file after the other is read, in the order of the results.
CheckAck(s) ==
    /\ pc[s] = "checking"
    /\ \E r \in check[s].todo :
        /\ \A q \in check[s].todo : ~Above(q.key, r.key)
        /\ check' = [check EXCEPT ![s] =
               Judged(check[s], r, IsAcked(r.memory, s, check[s].now))]
    /\ UNCHANGED <<row, clock, ackFile, current, pc, ack, named, granted, lasting>>

\* With a blocker the tool call is denied, otherwise it goes on.
Render(s) ==
    /\ Goto(s, "checking", "idle")
    /\ check[s].todo = {}
    /\ check' = [check EXCEPT ![s] = Idle]
    /\ UNCHANGED <<row, clock, ackFile, current, ack, named, granted, lasting>>

\* The default of --session is resolved when the command is set up, long before it
\* writes. The flag takes any text, the id of another session or of none.
StartAck(s, m, id) ==
    /\ Cardinality(granted) + Cardinality({v \in Sessions : pc[v] \in {"acking", "writing"}}) < MaxAcks
    /\ Goto(s, "idle", "acking")
    /\ ack' = [ack EXCEPT ![s] = AckOf(m, id, 0)]
    /\ named' = IF s \in Identified /\ id # Resolve(s) THEN named \cup {s} ELSE named
    /\ UNCHANGED <<row, clock, ackFile, current, check, granted, lasting>>

TruncateAck(s) ==
    LET m == ack[s].memory
    IN /\ Goto(s, "acking", "writing")
       /\ ack' = [ack EXCEPT ![s].expires = IF ack[s].session = None THEN clock + TTL ELSE 0]
       /\ ackFile' = [ackFile EXCEPT ![m] = None]
       /\ lasting' = lasting \ (Sessions \X {m})
       /\ UNCHANGED <<row, clock, current, check, named, granted>>

Alone(s, m) == \A v \in Sessions \ {s} : ~(pc[v] = "writing" /\ ack[v].memory = m)

WriteAck(s) ==
    LET m == ack[s].memory
    IN /\ Goto(s, "writing", "idle")
       /\ \E content \in Written(ackFile[m], ack[s]) : ackFile' = [ackFile EXCEPT ![m] = content]
       /\ granted' = granted \cup {[ack |-> ack[s], by |-> s, named |-> s \in named]}
       /\ lasting' = IF ackFile[m] = None /\ Alone(s, m) /\ ack[s].session = s
                     THEN lasting \cup {<<s, m>>} ELSE lasting
       /\ ack' = [ack EXCEPT ![s] = NoAck]
       /\ named' = named \ {s}
       /\ UNCHANGED <<row, clock, current, check>>

\* The hooks after a tool call, at a prompt and at the end of a turn leave the id.
StartSignal(s) ==
    /\ Goto(s, "idle", "signalling")
    /\ current' = None
    /\ UNCHANGED <<row, clock, ackFile, check, ack, named, granted, lasting>>

WriteCurrent(s) ==
    /\ Goto(s, "signalling", "idle")
    /\ \E content \in Written(current, s) : current' = content
    /\ UNCHANGED <<row, clock, ackFile, check, ack, named, granted, lasting>>

\* A hook or command is killed, or a file cannot be opened. A gate that fails
\* does not stop the tool call.
Fail(s) ==
    /\ pc[s] # "idle"
    /\ pc' = [pc EXCEPT ![s] = "idle"]
    /\ check' = [check EXCEPT ![s] = Idle]
    /\ ack' = [ack EXCEPT ![s] = NoAck]
    /\ named' = named \ {s}
    /\ UNCHANGED <<row, clock, ackFile, current, granted, lasting>>

\* A record reaches the ledger and the index follows (see Lifecycle and Index).
ChangeRow(m, r) ==
    /\ row[m] # r
    /\ row' = [row EXCEPT ![m] = r]
    /\ UNCHANGED <<clock, ackFile, current, pc, check, ack, named, granted, lasting>>

Tick ==
    /\ clock < MaxTime
    /\ clock' = clock + 1
    /\ UNCHANGED <<row, ackFile, current, pc, check, ack, named, granted, lasting>>

-----------------------------------------------------------------------------
Init ==
    /\ row \in [Memories -> UNION {Rows[m] : m \in Memories}]
    /\ \A m \in Memories : row[m] \in Rows[m]
    /\ clock = 0
    /\ ackFile = [m \in Memories |-> NoFile]
    /\ current = None
    /\ pc = [s \in Sessions |-> "idle"]
    /\ check = [s \in Sessions |-> Idle]
    /\ ack = [s \in Sessions |-> NoAck]
    /\ named = {}
    /\ granted = {}
    /\ lasting = {}

Next ==
    \/ \E s \in Sessions, x \in Actions : StartCheck(s, x)
    \/ \E s \in Sessions, m \in Memories, id \in Sessions \cup {None, Garbled} : StartAck(s, m, id)
    \/ \E s \in Sessions :
        \/ CheckAck(s) \/ Render(s)
        \/ TruncateAck(s) \/ WriteAck(s)
        \/ StartSignal(s) \/ WriteCurrent(s)
        \/ Fail(s)
    \/ \E m \in Memories : \E r \in Rows[m] : ChangeRow(m, r)
    \/ Tick

Spec == Init /\ [][Next]_vars

-----------------------------------------------------------------------------
(* Properties.                                                              *)

Files == {NoFile, None, Garbled} \cup Acks

\* The variables have the shape the code gives them; every file holds what its
\* readers can meet (acks.go, sessionid.go).
TypeOK ==
    /\ row \in [Memories -> Row]
    /\ clock \in 0..MaxTime
    /\ ackFile \in [Memories -> Files]
    /\ current \in Sessions \cup {None, Garbled}
    /\ pc \in [Sessions -> {"idle", "checking", "acking", "writing", "signalling"}]
    /\ DOMAIN check = Sessions
    /\ \A s \in Sessions : /\ check[s].now \in 0..clock
                           /\ check[s].cleared \subseteq Memories
                           /\ check[s].blockers \subseteq Memories \ check[s].cleared
                           /\ \A r \in check[s].todo :
                               /\ r.memory \in Memories \ (check[s].cleared \cup check[s].blockers)
                               /\ \A q \in check[s].todo \ {r} : q.memory # r.memory
    /\ ack \in [Sessions -> Acks \cup {NoAck}]
    /\ \A s \in Sessions : pc[s] \in {"acking", "writing"} => ack[s] \in Acks
    /\ named \subseteq Identified
    /\ granted \subseteq [ack : Acks, by : Sessions, named : BOOLEAN]
    /\ lasting \subseteq Sessions \X Memories

\* A requirement lets a session pass only after a whole ack of it was written for
\* that session, or for no session and not yet expired, and then by that session
\* itself, by somebody who chose the session with --session, or by somebody who
\* does not know a session of his own. What a kill, two writers or the ack of
\* another session for itself leave behind opens nothing (acks.go, IsAcked).
ClearedByAck ==
    \A s \in Sessions : \A m \in check[s].cleared :
        \E g \in granted :
            /\ g.ack.memory = m
            /\ g.by = s \/ g.named \/ g.by \notin Identified
            /\ \/ g.ack.session = s
               \/ g.ack.session = None /\ check[s].now < g.ack.expires

\* A session that has acknowledged a memory itself is not blocked by it as long
\* as nobody else acknowledges it: no other hook, record, kill or signal closes
\* the gate again (acks.go; prd.md, requirement acknowledgment).
OwnAckHolds ==
    \A s \in Sessions : \A m \in check[s].blockers : <<s, m>> \notin lasting

\* The gate looks at every requirement that matches, unless max_results other
\* active memories are more precise about the action, or as precise and
\* requirements too (retrieve.go, cap and sortCandidates).
RequirementYields ==
    [][\A s \in Sessions, x \in Actions : StartCheck(s, x) =>
        \A m \in Active(x) : Requires(m) =>
            \/ \E r \in check'[s].todo : r.memory = m
            \/ Cardinality({n \in Active(x) \ {m} :
                   \/ BestSpecificity(n, x) > BestSpecificity(m, x)
                   \/ BestSpecificity(n, x) = BestSpecificity(m, x) /\ Requires(n)})
                 >= Retrieval.maxResults]_vars
=============================================================================

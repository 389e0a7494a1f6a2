---------------------------- MODULE LedgerProofs ----------------------------
(***************************************************************************)
(* Theorems about Ledger, for any number of clones, processes, records,     *)
(* attempts and syncs.                                                      *)
(***************************************************************************)
EXTENDS Ledger, SequenceTheorems, TLAPS

-----------------------------------------------------------------------------
(* The commit graph *)

LEMMA CommitTypes ==
    ASSUME CommitsOK
    PROVE  /\ Len(dag) \in Nat
           /\ 0 \in Refs
           /\ \A i \in Commits : dag[i] \in CommitRecord
           /\ \A i \in Refs : i # 0 => i \in Commits
           /\ \A i \in Refs : Recs(i) \in SUBSET Records /\ Anc(i) \in SUBSET Nat
<1>1. Len(dag) \in Nat
  BY LenProperties DEF CommitsOK
<1>2. \A i \in Commits : dag[i] \in CommitRecord
  BY ElementOfSeq DEF CommitsOK, Commits
<1>3. \A i \in Refs : i # 0 => i \in Commits
  BY <1>1 DEF Refs, Commits
<1>4. \A i \in Commits : dag[i].recs \in SUBSET Records /\ dag[i].anc \in SUBSET Nat
  BY <1>2 DEF CommitRecord
<1> QED
  BY <1>1, <1>2, <1>3, <1>4 DEF Refs, Recs, Anc

\* What commit-tree may build: existing parents, records of the model.
LEMMA NewCommitGrows ==
    ASSUME CommitsOK, NEW records \in SUBSET Records,
           NEW a \in Refs, NEW b \in Refs,
           dag' = NewCommit(records, a, b)
    PROVE  /\ CommitsOK'
           /\ Len(dag') = Len(dag) + 1
           /\ Refs \subseteq Refs'
           /\ Len(dag') \in Refs'
           /\ \A i \in Refs : Recs(i)' = Recs(i) /\ Anc(i)' = Anc(i)
           /\ Recs(Len(dag))' = records
           /\ Anc(Len(dag))' = Anc(a) \cup Anc(b) \cup {Len(dag')}
<1> DEFINE new == [recs |-> records, anc |-> Anc(a) \cup Anc(b) \cup {Len(dag) + 1}]
<1>1. Len(dag) \in Nat /\ Anc(a) \in SUBSET Nat /\ Anc(b) \in SUBSET Nat
  BY CommitTypes
<1>2. new \in CommitRecord
  BY <1>1 DEF CommitRecord
<1>3. dag' = Append(dag, new)
  BY DEF NewCommit
<1>4. new.recs = records /\ new.anc = Anc(a) \cup Anc(b) \cup {Len(dag) + 1}
  OBVIOUS
<1> HIDE DEF new
<1>5. /\ dag' \in Seq(CommitRecord)
      /\ Len(dag') = Len(dag) + 1
      /\ \A i \in 1 .. Len(dag) : dag'[i] = dag[i]
      /\ dag'[Len(dag) + 1] = new
  BY <1>2, <1>3, AppendProperties DEF CommitsOK
<1>6. \A i \in Refs : Recs(i)' = Recs(i) /\ Anc(i)' = Anc(i)
  BY <1>1, <1>5 DEF Recs, Anc, Refs
<1>7. /\ Recs(Len(dag))' = records
      /\ Anc(Len(dag))' = Anc(a) \cup Anc(b) \cup {Len(dag')}
  BY <1>1, <1>4, <1>5 DEF Recs, Anc
<1>8. Refs \subseteq Refs' /\ Len(dag') \in Refs'
  BY <1>1, <1>5 DEF Refs
<1> QED
  BY <1>5, <1>6, <1>7, <1>8 DEF CommitsOK

LEMMA NewCommitHolds ==
    ASSUME CommitsOK, NEW records \in SUBSET Records,
           NEW a \in Refs, NEW b \in Refs,
           dag' = NewCommit(records, a, b)
    PROVE  \E n \in Nat : n = Len(dag') /\ Recs(n)' = records
<1>1. PICK n \in Nat : n = Len(dag) + 1
  BY CommitTypes
<1>2. n = Len(dag') /\ Recs(n)' = records
  BY <1>1, NewCommitGrows
<1> QED
  BY <1>2

LEMMA NewCommitReaches ==
    ASSUME CommitsOK, NEW records \in SUBSET Records,
           NEW a \in Refs, NEW b \in Refs,
           dag' = NewCommit(records, a, b)
    PROVE  \E n \in Nat : n = Len(dag') /\ Anc(b) \subseteq Anc(n)'
<1>1. PICK n \in Nat : n = Len(dag) + 1
  BY CommitTypes
<1>2. n = Len(dag') /\ Anc(b) \subseteq Anc(n)'
  BY <1>1, NewCommitGrows
<1> QED
  BY <1>2

-----------------------------------------------------------------------------
(* Type correctness *)

LEMMA InitType == Init => TypeOK
<1> SUFFICES ASSUME Init PROVE TypeOK
  OBVIOUS
<1>1. Len(dag) = 0 /\ 0 \in Refs
  BY DEF Init, Refs
<1>2. CommitsOK
  BY DEF Init, CommitsOK
<1>3. RefsOK /\ BackgroundOK /\ HistoryOK
  BY <1>1 DEF Init, RefsOK, BackgroundOK, HistoryOK
<1>4. ProcessesOK
  BY <1>1, LedgerAssumption DEF Init, ProcessesOK, PcValues
<1> QED
  BY <1>2, <1>3, <1>4 DEF TypeOK

\* Refs that named a commit go on naming it when a commit is added.
LEMMA RefsGrow ==
    ASSUME TypeOK, Len(dag) \in Nat, Len(dag') = Len(dag) + 1
    PROVE  /\ Refs \subseteq Refs'
           /\ Len(dag') \in Refs'
           /\ PushRecord \subseteq PushRecord'
BY DEF Refs, PushRecord

LEMMA ExitType ==
    ASSUME ProcessesOK, NEW p \in Processes, Exit(p), 0 \in Refs', Refs \subseteq Refs'
    PROVE  ProcessesOK'
BY LedgerAssumption DEF ProcessesOK, Exit, PcValues

LEMMA RetryType ==
    ASSUME ProcessesOK, NEW p \in Processes, Retry(p), 0 \in Refs, Refs' = Refs
    PROVE  ProcessesOK'
BY DEF ProcessesOK, Retry, Goto, PcValues

\* Steps that leave the commits, the detached processes and the history alone.
LEMMA QuietType ==
    ASSUME TypeOK, UNCHANGED <<dag, bgVars, history>>, RefsOK', ProcessesOK'
    PROVE  TypeOK'
BY DEF TypeOK, CommitsOK, BackgroundOK, HistoryOK, PushRecord, Refs, bgVars, history

LEMMA UnchangedRefsType ==
    ASSUME RefsOK, UNCHANGED <<dag, refVars>>
    PROVE  RefsOK'
BY DEF RefsOK, Refs, refVars

LEMMA UnchangedProcsType ==
    ASSUME ProcessesOK, UNCHANGED <<dag, procVars>>
    PROVE  ProcessesOK'
BY DEF ProcessesOK, Refs, procVars

\* The attempt counter: no attempts when idle, one to spare when the next begins,
\* and the one that is running is counted.
AttemptsLeft ==
    \A p \in Processes :
        /\ pc[p] = "idle" => attempt[p] = 0
        /\ pc[p] = "revParse" => attempt[p] < MaxSyncAttempts
        /\ pc[p] \in {"fetch", "reconcile", "fastForward", "installMerge", "push", "pushing"}
              => attempt[p] > 0

LEMMA ExitSyncedType ==
    ASSUME HistoryOK, NEW p \in Processes, CloneOf[p] \in Clones, ExitSynced(p)
    PROVE  HistoryOK' /\ Exit(p)
BY DEF HistoryOK, ExitSynced

\* Every action keeps the types.
LEMMA NextType ==
    ASSUME TypeOK, AttemptsLeft, [Next]_vars
    PROVE  TypeOK'
<1> USE LedgerAssumption
<1>0. /\ Len(dag) \in Nat
      /\ 0 \in Refs
      /\ CommitsOK /\ RefsOK /\ BackgroundOK /\ ProcessesOK /\ HistoryOK
      /\ \A p \in Processes : CloneOf[p] \in Clones
  BY CommitTypes DEF TypeOK
<1> DEFINE Quiet == UNCHANGED <<dag, bgVars, history>> /\ Refs' = Refs
<1>1. ASSUME NEW p \in Processes, StartInit(p) PROVE TypeOK'
  <2>1. Quiet
    BY <1>1 DEF StartInit, Refs, bgVars, history
  <2>2. RefsOK'
    BY <1>0, <1>1, <2>1 DEF StartInit, RefsOK, ProcessesOK, refVars
  <2>3. ProcessesOK'
    BY <1>0, <1>1, <2>1 DEF StartInit, Goto, ProcessesOK, PcValues, RefsOK
  <2> QED
    BY <2>1, <2>2, <2>3, QuietType
<1>2. ASSUME NEW p \in Processes, StartAdopt(p) PROVE TypeOK'
  <2>1. Quiet
    BY <1>2 DEF StartAdopt, Refs, bgVars, history
  <2>2. RefsOK'
    BY <1>0, <1>2, <2>1 DEF StartAdopt, RefsOK, ProcessesOK, refVars
  <2>3. ProcessesOK'
    BY <1>0, <1>2, <2>1 DEF StartAdopt, Goto, ProcessesOK, PcValues, RefsOK
  <2> QED
    BY <2>1, <2>2, <2>3, QuietType
<1>3. ASSUME NEW p \in Processes, StartSync(p) PROVE TypeOK'
  <2>1. Quiet
    BY <1>3 DEF StartSync, Refs, bgVars, history
  <2>2. RefsOK'
    BY <1>0, <1>3, <2>1 DEF StartSync, RefsOK, ProcessesOK, refVars
  <2>3. ProcessesOK'
    BY <1>0, <1>3, <2>1 DEF StartSync, Goto, ProcessesOK, PcValues, RefsOK
  <2> QED
    BY <2>1, <2>2, <2>3, QuietType
<1>4. ASSUME NEW p \in Processes, ReadTip(p) PROVE TypeOK'
  <2>1. Quiet
    BY <1>4 DEF ReadTip, Refs, bgVars, history
  <2>2. RefsOK'
    BY <1>0, <1>4, <2>1 DEF ReadTip, RefsOK, ProcessesOK, refVars
  <2>3. ProcessesOK'
    BY <1>0, <1>4, <2>1 DEF ReadTip, Goto, ProcessesOK, PcValues, RefsOK
  <2> QED
    BY <2>1, <2>2, <2>3, QuietType
<1>5. ASSUME NEW p \in Processes, RevParse(p) PROVE TypeOK'
  <2>1. Quiet
    BY <1>5 DEF RevParse, Refs, bgVars, history
  <2>2. RefsOK'
    BY <1>0, <1>5, <2>1 DEF RevParse, RefsOK, ProcessesOK, refVars
  <2>3. ProcessesOK'
    BY <1>0, <1>5, <2>1 DEF RevParse, Goto, ProcessesOK, PcValues, RefsOK, AttemptsLeft
  <2> QED
    BY <2>1, <2>2, <2>3, QuietType
<1>6. ASSUME NEW p \in Processes, Fetch(p) PROVE TypeOK'
  <2>1. Quiet
    BY <1>6 DEF Fetch, Refs, bgVars, history
  <2>2. RefsOK'
    BY <1>0, <1>6, <2>1 DEF Fetch, RefsOK, ProcessesOK, refVars
  <2>3. ProcessesOK'
    BY <1>0, <1>6, <2>1 DEF Fetch, Goto, ProcessesOK, PcValues, RefsOK
  <2> QED
    BY <2>1, <2>2, <2>3, QuietType
<1>7. ASSUME NEW p \in Processes, FetchFails(p) PROVE TypeOK'
  <2>1. Quiet
    BY <1>7 DEF FetchFails, Refs, bgVars, history
  <2>2. RefsOK'
    BY <1>0, <1>7, <2>1 DEF FetchFails, RefsOK, ProcessesOK, refVars
  <2>3. ProcessesOK'
    BY <1>0, <1>7, <2>1 DEF FetchFails, Goto, ProcessesOK, PcValues, RefsOK
  <2> QED
    BY <2>1, <2>2, <2>3, QuietType
<1>8. ASSUME NEW p \in Processes, Behind(p) PROVE TypeOK'
  <2>1. Quiet
    BY <1>8 DEF Behind, Refs, bgVars, history
  <2>2. RefsOK'
    BY <1>0, <1>8, <2>1 DEF Behind, RefsOK, ProcessesOK, refVars
  <2>3. ProcessesOK'
    BY <1>0, <1>8, <2>1 DEF Behind, Goto, ProcessesOK, PcValues, RefsOK
  <2> QED
    BY <2>1, <2>2, <2>3, QuietType
<1>9. ASSUME NEW p \in Processes, Ahead(p) PROVE TypeOK'
  <2>1. Quiet
    BY <1>9 DEF Ahead, Refs, bgVars, history
  <2>2. RefsOK'
    BY <1>0, <1>9, <2>1 DEF Ahead, RefsOK, ProcessesOK, refVars
  <2>3. ProcessesOK'
    BY <1>0, <1>9, <2>1 DEF Ahead, Goto, ProcessesOK, PcValues, RefsOK
  <2> QED
    BY <2>1, <2>2, <2>3, QuietType
<1>10. ASSUME NEW p \in Processes, InstallMerge(p) PROVE TypeOK'
  <2>1. Quiet
    BY <1>10 DEF InstallMerge, Refs, bgVars, history
  <2>2. RefsOK'
    BY <1>0, <1>10, <2>1 DEF InstallMerge, RefsOK, ProcessesOK, refVars
  <2>3. ProcessesOK'
    BY <1>0, <1>10, <2>1 DEF InstallMerge, Goto, ProcessesOK, PcValues, RefsOK
  <2> QED
    BY <2>1, <2>2, <2>3, QuietType
<1>11. ASSUME NEW p \in Processes, PushStart(p) PROVE TypeOK'
  <2>1. Quiet
    BY <1>11 DEF PushStart, Refs, bgVars, history
  <2>2. RefsOK'
    BY <1>0, <1>11, <2>1 DEF PushStart, RefsOK, ProcessesOK, refVars
  <2>3. ProcessesOK'
    BY <1>0, <1>11, <2>1 DEF PushStart, Goto, ProcessesOK, PcValues, RefsOK
  <2> QED
    BY <2>1, <2>2, <2>3, QuietType
<1>12. ASSUME NEW p \in Processes, PushRejected(p) PROVE TypeOK'
  <2>1. Quiet
    BY <1>12 DEF PushRejected, Refs, bgVars, history
  <2>2. RefsOK'
    BY <1>0, <1>12, <2>1 DEF PushRejected, RefsOK, ProcessesOK, refVars
  <2>3. ProcessesOK'
    BY <1>0, <1>12, <2>1, RetryType DEF PushRejected
  <2> QED
    BY <2>1, <2>2, <2>3, QuietType
<1>13. ASSUME NEW p \in Processes, NEW r \in Records, StartAppend(p, r) PROVE TypeOK'
  <2>1. Quiet
    BY <1>13 DEF StartAppend, Refs, bgVars, history
  <2>2. RefsOK'
    BY <1>0, <1>13, <2>1 DEF StartAppend, RefsOK, refVars
  <2>3. ProcessesOK'
    BY <1>0, <1>13, <2>1 DEF StartAppend, Goto, ProcessesOK, PcValues
  <2> QED
    BY <2>1, <2>2, <2>3, QuietType
<1>14. ASSUME NEW p \in Processes, Adopt(p) PROVE TypeOK'
  <2>1. Quiet
    BY <1>14 DEF Adopt, Refs, bgVars, history
  <2>2. RefsOK'
    BY <1>0, <1>14, <2>1 DEF Adopt, RefsOK, ProcessesOK, refVars
  <2>3. ProcessesOK'
    BY <1>0, <1>14, <2>1, ExitType DEF Adopt
  <2> QED
    BY <2>1, <2>2, <2>3, QuietType
<1>15. ASSUME NEW p \in Processes, PushReplyLost(p) PROVE TypeOK'
  <2>1. Quiet
    BY <1>15 DEF PushReplyLost, Refs, bgVars, history
  <2>2. RefsOK'
    BY <1>0, <1>15, <2>1 DEF PushReplyLost, RefsOK, ProcessesOK, refVars
  <2>3. ProcessesOK'
    BY <1>0, <1>15, <2>1, ExitType, RetryType DEF PushReplyLost
  <2> QED
    BY <2>1, <2>2, <2>3, QuietType
<1>16. ASSUME NEW p \in Processes, GiveUp(p) PROVE TypeOK'
  <2>1. Quiet
    BY <1>16 DEF GiveUp, Refs, bgVars, history
  <2>2. RefsOK'
    BY <1>0, <1>16, <2>1 DEF GiveUp, RefsOK, ProcessesOK, refVars
  <2>3. ProcessesOK'
    BY <1>0, <1>16, <2>1, ExitType DEF GiveUp
  <2> QED
    BY <2>1, <2>2, <2>3, QuietType
<1>17. ASSUME NEW p \in Processes, PushFails(p) PROVE TypeOK'
  <2>1. Quiet
    BY <1>17 DEF PushFails, Refs, bgVars, history
  <2>2. RefsOK'
    BY <1>0, <1>17, <2>1 DEF PushFails, RefsOK, ProcessesOK, refVars
  <2>3. ProcessesOK'
    BY <1>0, <1>17, <2>1, ExitType DEF PushFails
  <2> QED
    BY <2>1, <2>2, <2>3, QuietType
<1>18. ASSUME NEW p \in Processes, Crash(p) PROVE TypeOK'
  <2>1. Quiet
    BY <1>18 DEF Crash, Refs, bgVars, history
  <2>2. RefsOK'
    BY <1>0, <1>18, <2>1 DEF Crash, RefsOK, ProcessesOK, refVars
  <2>3. ProcessesOK'
    BY <1>0, <1>18, <2>1, ExitType DEF Crash
  <2> QED
    BY <2>1, <2>2, <2>3, QuietType
<1>19. ASSUME NEW p \in Processes, UpToDate(p) PROVE TypeOK'
  <2>1. UNCHANGED <<dag, bgVars>> /\ Refs' = Refs
    BY <1>19 DEF UpToDate, Refs, bgVars
  <2>2. HistoryOK' /\ Exit(p)
    BY <1>0, <1>19, ExitSyncedType DEF UpToDate
  <2>3. RefsOK'
    BY <1>0, <1>19, <2>1 DEF UpToDate, RefsOK, ProcessesOK, refVars
  <2>4. ProcessesOK'
    BY <1>0, <2>1, <2>2, ExitType
  <2> QED
    BY <2>1, <2>2, <2>3, <2>4 DEF TypeOK, CommitsOK, BackgroundOK, PushRecord, bgVars
<1>20. ASSUME NEW p \in Processes, FastForward(p) PROVE TypeOK'
  <2>1. UNCHANGED <<dag, bgVars>> /\ Refs' = Refs
    BY <1>20 DEF FastForward, Refs, bgVars
  <2>2. HistoryOK' /\ Exit(p)
    BY <1>0, <1>20, ExitSyncedType DEF FastForward
  <2>3. RefsOK'
    BY <1>0, <1>20, <2>1 DEF FastForward, RefsOK, ProcessesOK, refVars
  <2>4. ProcessesOK'
    BY <1>0, <2>1, <2>2, ExitType
  <2> QED
    BY <2>1, <2>2, <2>3, <2>4 DEF TypeOK, CommitsOK, BackgroundOK, PushRecord, bgVars
<1>21. ASSUME NEW p \in Processes, PushAccepted(p) PROVE TypeOK'
  <2>1. UNCHANGED <<dag, bgVars>> /\ Refs' = Refs
    BY <1>21 DEF PushAccepted, Refs, bgVars
  <2>2. HistoryOK' /\ Exit(p)
    BY <1>0, <1>21, ExitSyncedType DEF PushAccepted
  <2>3. RefsOK'
    BY <1>0, <1>21, <2>1 DEF PushAccepted, RefsOK, ProcessesOK, refVars
  <2>4. ProcessesOK'
    BY <1>0, <2>1, <2>2, ExitType
  <2> QED
    BY <2>1, <2>2, <2>3, <2>4 DEF TypeOK, CommitsOK, BackgroundOK, PushRecord, bgVars
<1>22. ASSUME NEW p \in Processes, Commit(p) PROVE TypeOK'
  <2> DEFINE new == Recs(base[p]) \cup ({rec[p]} \ {Seed})
  <2>1. new \in SUBSET Records /\ base[p] \in Refs
    BY <1>0, CommitTypes DEF ProcessesOK
  <2>2. CommitsOK' /\ Len(dag') = Len(dag) + 1 /\ Refs \subseteq Refs' /\ Len(dag') \in Refs'
    BY <1>0, <1>22, <2>1, NewCommitGrows DEF Commit
  <2>3. RefsOK'
    BY <1>0, <1>22, <2>2 DEF Commit, RefsOK
  <2>6. BackgroundOK'
    BY <1>0, <1>22, <2>2 DEF Commit, BackgroundOK, PushRecord, ProcessesOK
  <2>7. ProcessesOK'
    BY <1>0, <1>22, <2>2, ExitType DEF Commit
  <2>8. HistoryOK'
    BY <1>0, <1>22 DEF Commit, HistoryOK, ProcessesOK
  <2> QED
    BY <2>2, <2>3, <2>6, <2>7, <2>8 DEF TypeOK
<1>23. ASSUME NEW p \in Processes, Diverged(p) PROVE TypeOK'
  <2> DEFINE tip == fetchHead[CloneOf[p]]
  <2>1. /\ Recs(base[p]) \cup Recs(tip) \in SUBSET Records
        /\ base[p] \in Refs /\ tip \in Refs
    BY <1>0, CommitTypes DEF ProcessesOK, RefsOK
  <2>2. CommitsOK' /\ Len(dag') = Len(dag) + 1 /\ Refs \subseteq Refs' /\ Len(dag') \in Refs'
    BY <1>0, <1>23, <2>1, NewCommitGrows DEF Diverged
  <2>3. RefsOK'
    BY <1>0, <1>23, <2>2 DEF Diverged, RefsOK, refVars
  <2>4. BackgroundOK'
    BY <1>0, <1>23, <2>2 DEF Diverged, BackgroundOK, PushRecord, bgVars
  <2>5. ProcessesOK'
    BY <1>0, <1>23, <2>1, <2>2 DEF Diverged, Goto, ProcessesOK, PcValues
  <2>6. HistoryOK'
    BY <1>0, <1>23 DEF Diverged, HistoryOK, history
  <2> QED
    BY <2>2, <2>3, <2>4, <2>5, <2>6 DEF TypeOK
<1>24. ASSUME NEW c \in Clones, DetachedPushStart(c) PROVE TypeOK'
  <2>1. UNCHANGED <<dag, procVars, history>> /\ Refs' = Refs
    BY <1>24 DEF DetachedPushStart, Refs
  <2>2. RefsOK'
    BY <1>0, <1>24, <2>1 DEF DetachedPushStart, RefsOK, BackgroundOK, PushRecord, refVars
  <2>3. BackgroundOK'
    BY <1>0, <1>24, <2>1 DEF DetachedPushStart, RefsOK, BackgroundOK, PushRecord
  <2> QED
    BY <1>0, <2>1, <2>2, <2>3, UnchangedProcsType DEF TypeOK, CommitsOK, HistoryOK, history
<1>25. ASSUME DetachedPushAccepted PROVE TypeOK'
  <2>1. UNCHANGED <<dag, procVars, history>> /\ Refs' = Refs
    BY <1>25 DEF DetachedPushAccepted, Refs
  <2>2. RefsOK'
    BY <1>0, <1>25, <2>1 DEF DetachedPushAccepted, RefsOK, BackgroundOK, PushRecord, refVars
  <2>3. BackgroundOK'
    BY <1>0, <1>25, <2>1 DEF DetachedPushAccepted, RefsOK, BackgroundOK, PushRecord
  <2> QED
    BY <1>0, <2>1, <2>2, <2>3, UnchangedProcsType DEF TypeOK, CommitsOK, HistoryOK, history
<1>26. ASSUME DetachedPushLost PROVE TypeOK'
  <2>1. UNCHANGED <<dag, procVars, history>> /\ Refs' = Refs
    BY <1>26 DEF DetachedPushLost, Refs
  <2>2. RefsOK'
    BY <1>0, <1>26, <2>1 DEF DetachedPushLost, RefsOK, BackgroundOK, PushRecord, refVars
  <2>3. BackgroundOK'
    BY <1>0, <1>26, <2>1 DEF DetachedPushLost, RefsOK, BackgroundOK, PushRecord
  <2> QED
    BY <1>0, <2>1, <2>2, <2>3, UnchangedProcsType DEF TypeOK, CommitsOK, HistoryOK, history
<1>27. ASSUME NEW c \in Clones, DetachedFetch(c) PROVE TypeOK'
  <2>1. UNCHANGED <<dag, procVars, history>> /\ Refs' = Refs
    BY <1>27 DEF DetachedFetch, Refs
  <2>2. RefsOK'
    BY <1>0, <1>27, <2>1 DEF DetachedFetch, RefsOK, BackgroundOK, PushRecord, refVars
  <2>3. BackgroundOK'
    BY <1>0, <1>27, <2>1 DEF DetachedFetch, RefsOK, BackgroundOK, PushRecord
  <2> QED
    BY <1>0, <2>1, <2>2, <2>3, UnchangedProcsType DEF TypeOK, CommitsOK, HistoryOK, history
<1>28. ASSUME NEW c \in Clones, DetachedFetchDone(c) PROVE TypeOK'
  <2>1. UNCHANGED <<dag, procVars, history>> /\ Refs' = Refs
    BY <1>28 DEF DetachedFetchDone, Refs
  <2>2. RefsOK'
    BY <1>0, <1>28, <2>1 DEF DetachedFetchDone, RefsOK, BackgroundOK, PushRecord, refVars
  <2>3. BackgroundOK'
    BY <1>0, <1>28, <2>1 DEF DetachedFetchDone, RefsOK, BackgroundOK, PushRecord
  <2> QED
    BY <1>0, <2>1, <2>2, <2>3, UnchangedProcsType DEF TypeOK, CommitsOK, HistoryOK, history
<1>29. ASSUME UNCHANGED vars PROVE TypeOK'
  BY <1>0, <1>29, QuietType, UnchangedRefsType, UnchangedProcsType DEF vars, bgVars, history
<1> QED
  BY <1>1, <1>2, <1>3, <1>4, <1>5, <1>6, <1>7, <1>8, <1>9, <1>10, <1>11, <1>12, <1>13, <1>14, <1>15, <1>16, <1>17, <1>18, <1>19, <1>20, <1>21, <1>22, <1>23, <1>24, <1>25, <1>26, <1>27, <1>28, <1>29
  DEF Next, Detached, Start, Step

LEMMA NextAttempts ==
    ASSUME TypeOK, AttemptsLeft, [Next]_vars
    PROVE  AttemptsLeft'
<1> USE LedgerAssumption DEF TypeOK, ProcessesOK, AttemptsLeft
<1>1. ASSUME NEW p \in Processes, Start(p) PROVE AttemptsLeft'
  BY <1>1 DEF Start, StartInit, StartAdopt, StartSync, StartAppend, Goto
<1>2. ASSUME NEW p \in Processes, Crash(p) PROVE AttemptsLeft'
  BY <1>2 DEF Crash, Exit
<1>3. ASSUME NEW p \in Processes,
             \/ ReadTip(p) \/ RevParse(p) \/ Fetch(p) \/ FetchFails(p) \/ Behind(p)
             \/ Ahead(p) \/ Diverged(p) \/ InstallMerge(p) \/ PushStart(p)
             \/ PushRejected(p)
      PROVE  AttemptsLeft'
  BY <1>3 DEF ReadTip, RevParse, Fetch, FetchFails, Behind, Ahead, Diverged,
     InstallMerge, PushStart, PushRejected, Retry, Goto
<1>4. ASSUME NEW p \in Processes,
             \/ Commit(p) \/ Adopt(p) \/ UpToDate(p) \/ FastForward(p) \/ PushAccepted(p)
             \/ PushReplyLost(p) \/ GiveUp(p) \/ PushFails(p)
      PROVE  AttemptsLeft'
  BY <1>4 DEF Commit, Adopt, UpToDate, FastForward, PushAccepted, PushReplyLost,
     GiveUp, PushFails, ExitSynced, Exit, Retry, Goto
<1>5. CASE Detached \/ UNCHANGED vars
  BY <1>5 DEF Detached, DetachedPushStart, DetachedPushAccepted, DetachedPushLost,
     DetachedFetch, DetachedFetchDone, procVars, vars
<1> QED
  BY <1>1, <1>2, <1>3, <1>4, <1>5 DEF Next, Step

\* Refs always name commits that exist, every command variable has its type, and
\* Sync's attempt counter stays within maxSyncAttempts (sync.go:38).
THEOREM TypeCorrect == Spec => []TypeOK
<1>1. Init => TypeOK /\ AttemptsLeft
  BY InitType, LedgerAssumption DEF Init, AttemptsLeft
<1>2. TypeOK /\ AttemptsLeft /\ [Next]_vars => (TypeOK /\ AttemptsLeft)'
  BY NextType, NextAttempts
<1> QED
  BY <1>1, <1>2, PTL DEF Spec

-----------------------------------------------------------------------------
(* Ancestors: what a ref reaches, it holds *)

\* A commit reaches itself and only older commits, reaches whatever its
\* ancestors reach and has all their records.
HistoryClosed ==
    \A i \in Refs :
        /\ Anc(i) \subseteq 1 .. i
        /\ i # 0 => i \in Anc(i)
        /\ \A a \in Anc(i) : Anc(a) \subseteq Anc(i) /\ Recs(a) \subseteq Recs(i)

LEMMA NewCommitClosed ==
    ASSUME CommitsOK, HistoryClosed, NEW records \in SUBSET Records,
           NEW a \in Refs, NEW b \in Refs,
           Recs(a) \cup Recs(b) \subseteq records,
           dag' = NewCommit(records, a, b)
    PROVE  HistoryClosed'
<1>0. PICK n \in Nat : n = Len(dag) + 1
  BY CommitTypes
<1>1. /\ Len(dag) \in Nat
      /\ Len(dag') = n
      /\ \A i \in Refs : Recs(i)' = Recs(i) /\ Anc(i)' = Anc(i)
      /\ Recs(n)' = records
      /\ Anc(n)' = Anc(a) \cup Anc(b) \cup {n}
  BY <1>0, NewCommitGrows, CommitTypes
<1>2. Refs' = Refs \cup {n}
  BY <1>0, <1>1 DEF Refs
<1>3. \A i \in Refs : Anc(i) \subseteq Refs
  BY <1>1 DEF HistoryClosed, Refs
<1>4. Anc(a) \subseteq 1 .. n /\ Anc(b) \subseteq 1 .. n /\ n # 0
  BY <1>0, <1>1 DEF HistoryClosed, Refs
<1>5. ASSUME NEW i \in Refs
      PROVE  /\ Anc(i)' \subseteq 1 .. i
             /\ i # 0 => i \in Anc(i)'
             /\ \A x \in Anc(i)' : Anc(x)' \subseteq Anc(i)' /\ Recs(x)' \subseteq Recs(i)'
  BY <1>1, <1>3 DEF HistoryClosed
<1>6. /\ Anc(n)' \subseteq 1 .. n
      /\ n \in Anc(n)'
  BY <1>0, <1>1, <1>4
<1>7. \A x \in Anc(n)' : Anc(x)' \subseteq Anc(n)' /\ Recs(x)' \subseteq Recs(n)'
  <2>1. \A x \in Anc(a) \cup Anc(b) :
           /\ x \in Refs
           /\ Anc(x) \subseteq Anc(a) \cup Anc(b)
           /\ Recs(x) \subseteq records
    BY <1>3 DEF HistoryClosed
  <2>2. \A x \in Anc(a) \cup Anc(b) : Anc(x)' \subseteq Anc(n)' /\ Recs(x)' \subseteq Recs(n)'
    BY <1>1, <2>1
  <2> QED
    BY <1>1, <2>2
<1> QED
  BY <1>2, <1>5, <1>6, <1>7 DEF HistoryClosed

\* The only steps that add a commit are appends and union merges, and the commit
\* has the records of its parents.
LEMMA CommitSteps ==
    ASSUME TypeOK, [Next]_vars
    PROVE  \/ dag' = dag
           \/ /\ remote' = remote
              /\ \E records \in SUBSET Records, a, b \in Refs :
                     /\ Recs(a) \cup Recs(b) \subseteq records
                     /\ dag' = NewCommit(records, a, b)
<1> USE LedgerAssumption
<1>0. /\ CommitsOK /\ RefsOK /\ ProcessesOK /\ 0 \in Refs
      /\ \A i \in Refs : Recs(i) \in SUBSET Records
      /\ Recs(0) = {}
      /\ \A p \in Processes : CloneOf[p] \in Clones
  BY CommitTypes DEF TypeOK, Recs
<1>1. ASSUME NEW p \in Processes, Commit(p)
      PROVE  /\ remote' = remote
             /\ \E records \in SUBSET Records, a, b \in Refs :
                     /\ Recs(a) \cup Recs(b) \subseteq records
                     /\ dag' = NewCommit(records, a, b)
  <2> DEFINE new == Recs(base[p]) \cup ({rec[p]} \ {Seed})
  <2>1. new \in SUBSET Records /\ base[p] \in Refs
    BY <1>0 DEF ProcessesOK
  <2> QED
    BY <1>0, <1>1, <2>1 DEF Commit
<1>2. ASSUME NEW p \in Processes, Diverged(p)
      PROVE  /\ remote' = remote
             /\ \E records \in SUBSET Records, a, b \in Refs :
                     /\ Recs(a) \cup Recs(b) \subseteq records
                     /\ dag' = NewCommit(records, a, b)
  <2> DEFINE tip == fetchHead[CloneOf[p]]
  <2>1. Recs(base[p]) \cup Recs(tip) \in SUBSET Records /\ base[p] \in Refs /\ tip \in Refs
    BY <1>0 DEF ProcessesOK, RefsOK
  <2> QED
    BY <1>2, <2>1 DEF Diverged, refVars
<1>3. ASSUME NEW p \in Processes, Start(p) \/ Crash(p) PROVE dag' = dag
  BY <1>3 DEF Start, StartInit, StartAdopt, StartSync, StartAppend, Crash
<1>4. ASSUME NEW p \in Processes, Step(p), ~Commit(p), ~Diverged(p) PROVE dag' = dag
  BY <1>4 DEF Step, ReadTip, Adopt, RevParse, Fetch, FetchFails, UpToDate, Behind,
     Ahead, FastForward, InstallMerge, PushStart, PushAccepted, PushReplyLost,
     PushRejected, GiveUp, PushFails
<1>5. CASE Detached \/ UNCHANGED vars
  BY <1>5 DEF Detached, DetachedPushStart, DetachedPushAccepted, DetachedPushLost,
     DetachedFetch, DetachedFetchDone, vars
<1> QED
  BY <1>1, <1>2, <1>3, <1>4, <1>5 DEF Next

LEMMA NextHistory ==
    ASSUME TypeOK, HistoryClosed, [Next]_vars
    PROVE  HistoryClosed'
<1>1. CASE dag' = dag
  BY <1>1 DEF HistoryClosed, Refs, Recs, Anc
<1>2. CASE dag' # dag
  BY <1>2, CommitSteps, NewCommitClosed DEF TypeOK
<1> QED
  BY <1>1, <1>2

\* The ledger's history is append-only whatever races: every commit holds the
\* records of all its ancestors (commitFiles, unionMerge).
THEOREM HistoryKept == Spec => []HistoryKeepsRecords
<1>1. Init => HistoryClosed
  BY DEF Init, HistoryClosed, Refs, Anc, Recs
<1>2. TypeOK /\ HistoryClosed /\ [Next]_vars => HistoryClosed'
  BY NextHistory
<1>3. TypeOK /\ HistoryClosed => HistoryKeepsRecords
  BY CommitTypes DEF TypeOK, HistoryClosed, HistoryKeepsRecords, Commits, Refs, Anc
<1> QED
  BY <1>1, <1>2, <1>3, TypeCorrect, PTL DEF Spec

-----------------------------------------------------------------------------
(* The remote branch *)

\* The remote moves only by a push it accepts.
LEMMA RemoteSteps ==
    ASSUME TypeOK, [Next]_vars
    PROVE  \/ remote' = remote
           \/ /\ dag' = dag
              /\ \E v \in Refs : Accepts(v, remote) /\ remote' = v
<1> USE DEF TypeOK, ProcessesOK, BackgroundOK, PushRecord, Accepts
<1>1. ASSUME NEW p \in Processes, PushAccepted(p) \/ PushReplyLost(p)
      PROVE  dag' = dag /\ \E v \in Refs : Accepts(v, remote) /\ remote' = v
  BY <1>1 DEF PushAccepted, PushReplyLost
<1>2. ASSUME DetachedPushAccepted
      PROVE  dag' = dag /\ \E v \in Refs : Accepts(v, remote) /\ remote' = v
  BY <1>2 DEF DetachedPushAccepted
<1>3. ASSUME NEW p \in Processes, Start(p) \/ Crash(p) PROVE remote' = remote
  BY <1>3 DEF Start, StartInit, StartAdopt, StartSync, StartAppend, Crash, refVars
<1>4. ASSUME NEW p \in Processes, Step(p), ~PushAccepted(p), ~PushReplyLost(p)
      PROVE  remote' = remote
  BY <1>4 DEF Step, ReadTip, Commit, Adopt, RevParse, Fetch, FetchFails, UpToDate,
     Behind, Ahead, Diverged, FastForward, InstallMerge, PushStart, PushRejected,
     GiveUp, PushFails, refVars
<1>5. ASSUME Detached, ~DetachedPushAccepted PROVE remote' = remote
  BY <1>5 DEF Detached, DetachedPushStart, DetachedPushLost, DetachedFetch,
     DetachedFetchDone, refVars
<1>6. CASE UNCHANGED vars
  BY <1>6 DEF vars, refVars
<1> QED
  BY <1>1, <1>2, <1>3, <1>4, <1>5, <1>6 DEF Next

\* What a ref reaches and holds does not depend on when one looks.
LEMMA CommitsImmutable ==
    ASSUME TypeOK, [Next]_vars
    PROVE  \A i \in Refs : i \in Refs' /\ Recs(i)' = Recs(i) /\ Anc(i)' = Anc(i)
<1>1. CASE dag' = dag
  BY <1>1 DEF Refs, Recs, Anc
<1>2. CASE dag' # dag
  BY <1>2, CommitSteps, NewCommitGrows DEF TypeOK
<1> QED
  BY <1>1, <1>2

LEMMA RemoteGrows ==
    ASSUME TypeOK, HistoryClosed, [Next]_vars
    PROVE  /\ Recs(remote) \subseteq Recs(remote)'
           /\ Anc(remote) \subseteq Anc(remote)'
<1>1. CASE remote' = remote
  BY <1>1, CommitsImmutable DEF TypeOK, RefsOK
<1>2. ASSUME dag' = dag, NEW v \in Refs, Accepts(v, remote), remote' = v
      PROVE  /\ Recs(remote) \subseteq Recs(remote)'
             /\ Anc(remote) \subseteq Anc(remote)'
  <2>1. Recs(remote)' = Recs(v) /\ Anc(remote)' = Anc(v)
    BY <1>2 DEF Recs, Anc
  <2>2. CASE remote = 0
    BY <2>1, <2>2 DEF Recs, Anc
  <2>3. CASE remote \in Anc(v)
    BY <2>1, <2>3 DEF HistoryClosed
  <2> QED
    BY <1>2, <2>2, <2>3 DEF Accepts, IsAncestor
<1> QED
  BY <1>1, <1>2, RemoteSteps

\* No interleaving of commands, detached pushes and fetches, lost answers and
\* crashes, in one clone or many, ever takes a record off the remote branch.
THEOREM RemoteNeverLoses == Spec => RemoteOnlyGrows
<1>1. Init => HistoryClosed
  BY DEF Init, HistoryClosed, Refs, Anc, Recs
<1>2. TypeOK /\ HistoryClosed /\ [Next]_vars => HistoryClosed'
  BY NextHistory
<1>3. TypeOK /\ HistoryClosed /\ [Next]_vars => [Recs(remote) \subseteq Recs(remote)']_vars
  BY RemoteGrows
<1> QED
  BY <1>1, <1>2, <1>3, TypeCorrect, PTL DEF Spec, RemoteOnlyGrows

-----------------------------------------------------------------------------
(* One command per clone: acknowledged and synced records *)

\* FETCH_HEAD and the tip a sync works with were remote tips once, so the remote
\* still reaches them.
FetchedIsRemote ==
    /\ \A c \in Clones : fetchHead[c] \in {0} \cup Anc(remote)
    /\ \A p \in Processes : seen[p] \in {0} \cup Anc(remote)

\* The commit a running command read, built or is pushing already has every
\* acknowledged record of its clone.
BaseKeeps ==
    \A p \in Processes :
        pc[p] \in {"commit", "fetch", "reconcile", "installMerge", "pushing"}
            => acked[CloneOf[p]] \subseteq Recs(base[p])
TipKeeps ==
    \A p \in Processes :
        /\ pc[p] = "fastForward" => acked[CloneOf[p]] \subseteq Recs(seen[p])
        /\ pc[p] = "adopt" => acked[CloneOf[p]] = {}

AckInv == AcknowledgedKept /\ BaseKeeps /\ TipKeeps

LEMMA NextFetched ==
    ASSUME TypeOK, HistoryClosed, FetchedIsRemote, [Next]_vars
    PROVE  FetchedIsRemote'
<1> USE LedgerAssumption
<1>0. /\ Anc(remote) \subseteq Anc(remote)'
      /\ remote \in {0} \cup Anc(remote)
      /\ \A p \in Processes : CloneOf[p] \in Clones
      /\ fetchHead \in [Clones -> Refs]
      /\ seen \in [Processes -> Refs]
  BY RemoteGrows DEF TypeOK, RefsOK, ProcessesOK, HistoryClosed
<1> SUFFICES /\ \A c \in Clones : fetchHead'[c] \in {0, remote} \cup Anc(remote)
             /\ \A p \in Processes : seen'[p] \in {0, remote} \cup Anc(remote)
  BY <1>0 DEF FetchedIsRemote
<1> USE <1>0 DEF FetchedIsRemote
<1>1. ASSUME NEW p \in Processes, Start(p) \/ Crash(p)
      PROVE  /\ \A c \in Clones : fetchHead'[c] \in {0, remote} \cup Anc(remote)
             /\ \A q \in Processes : seen'[q] \in {0, remote} \cup Anc(remote)
  BY <1>1 DEF Start, StartInit, StartAdopt, StartSync, StartAppend, Crash, Exit, refVars
<1>2. ASSUME NEW p \in Processes,
             \/ ReadTip(p) \/ RevParse(p) \/ Fetch(p) \/ FetchFails(p) \/ Behind(p)
             \/ Ahead(p) \/ Diverged(p) \/ InstallMerge(p) \/ PushStart(p)
             \/ PushRejected(p)
      PROVE  /\ \A c \in Clones : fetchHead'[c] \in {0, remote} \cup Anc(remote)
             /\ \A q \in Processes : seen'[q] \in {0, remote} \cup Anc(remote)
  BY <1>2 DEF ReadTip, RevParse, Fetch, FetchFails, Behind, Ahead, Diverged,
     InstallMerge, PushStart, PushRejected, Retry, refVars
<1>3. ASSUME NEW p \in Processes,
             \/ Commit(p) \/ Adopt(p) \/ UpToDate(p) \/ FastForward(p) \/ PushAccepted(p)
             \/ PushReplyLost(p) \/ GiveUp(p) \/ PushFails(p)
      PROVE  /\ \A c \in Clones : fetchHead'[c] \in {0, remote} \cup Anc(remote)
             /\ \A q \in Processes : seen'[q] \in {0, remote} \cup Anc(remote)
  BY <1>3 DEF Commit, Adopt, UpToDate, FastForward, PushAccepted, PushReplyLost,
     GiveUp, PushFails, ExitSynced, Exit, Retry, refVars
<1>4. CASE Detached \/ UNCHANGED vars
  BY <1>4 DEF Detached, DetachedPushStart, DetachedPushAccepted, DetachedPushLost,
     DetachedFetch, DetachedFetchDone, procVars, refVars, vars
<1> QED
  BY <1>1, <1>2, <1>3, <1>4 DEF Next, Step

\* Steps that change no commit, no branch and no acknowledgement only have to
\* justify what the stepping process itself knows.
LEMMA NextAck ==
    ASSUME TypeOK, HistoryClosed, AckInv, OneCommandPerClone, [Next]_vars
    PROVE  AckInv'
<1> USE LedgerAssumption
<1>0. /\ \A p \in Processes : CloneOf[p] \in Clones
      /\ \A p, q \in Processes : CloneOf[p] = CloneOf[q] => p = q
      /\ local \in [Clones -> Refs]
      /\ acked \in [Clones -> SUBSET Records]
      /\ pc \in [Processes -> PcValues]
      /\ rec \in [Processes -> Records \cup {Seed}]
      /\ base \in [Processes -> Refs]
      /\ seen \in [Processes -> Refs]
      /\ fetchHead \in [Clones -> Refs]
      /\ hookFetch \in [Clones -> Refs]
      /\ \A i, j \in Refs : IsAncestor(i, j) => Recs(i) \subseteq Recs(j)
      /\ \A i \in Refs : Recs(i)' = Recs(i)
      /\ 0 \in Refs /\ Recs(0) = {}
  BY CommitsImmutable, CommitTypes DEF TypeOK, RefsOK, ProcessesOK, HistoryOK,
     BackgroundOK, OneCommandPerClone, HistoryClosed, IsAncestor, Recs
<1> USE <1>0 DEF AckInv, AcknowledgedKept, BaseKeeps, TipKeeps
<1>1. ASSUME NEW p \in Processes, StartInit(p) PROVE AckInv'
  BY <1>1 DEF StartInit, Goto, refVars, history
<1>2. ASSUME NEW p \in Processes, StartAdopt(p) PROVE AckInv'
  BY <1>2 DEF StartAdopt, Goto, refVars, history
<1>3. ASSUME NEW p \in Processes, StartSync(p) PROVE AckInv'
  BY <1>3 DEF StartSync, Goto, refVars, history
<1>4. ASSUME NEW p \in Processes, ReadTip(p) PROVE AckInv'
  BY <1>4 DEF ReadTip, Goto, refVars, history
<1>5. ASSUME NEW p \in Processes, RevParse(p) PROVE AckInv'
  BY <1>5 DEF RevParse, Goto, refVars, history
<1>6. ASSUME NEW p \in Processes, Fetch(p) PROVE AckInv'
  BY <1>6 DEF Fetch, Goto, refVars, history
<1>7. ASSUME NEW p \in Processes, FetchFails(p) PROVE AckInv'
  BY <1>7 DEF FetchFails, Goto, refVars, history
<1>8. ASSUME NEW p \in Processes, Behind(p) PROVE AckInv'
  BY <1>8 DEF Behind, Goto, refVars, history
<1>9. ASSUME NEW p \in Processes, Ahead(p) PROVE AckInv'
  BY <1>9 DEF Ahead, Goto, refVars, history
<1>10. ASSUME NEW p \in Processes, PushStart(p) PROVE AckInv'
  BY <1>10 DEF PushStart, Goto, refVars, history
<1>11. ASSUME NEW p \in Processes, InstallMerge(p) PROVE AckInv'
  BY <1>11 DEF InstallMerge, Goto, refVars, history
<1>12. ASSUME NEW p \in Processes, PushRejected(p) PROVE AckInv'
  BY <1>12 DEF PushRejected, Retry, Goto, refVars, history
<1>13. ASSUME NEW p \in Processes, NEW r \in Records, StartAppend(p, r) PROVE AckInv'
  BY <1>13 DEF StartAppend, Goto, refVars, history
<1>14. ASSUME NEW p \in Processes, Adopt(p) PROVE AckInv'
  BY <1>14 DEF Adopt, Exit, refVars, history
<1>15. ASSUME NEW p \in Processes, PushReplyLost(p) PROVE AckInv'
  <2>1. UNCHANGED <<dag, local, history>>
    BY <1>15 DEF PushReplyLost, history
  <2>2. CASE Exit(p)
    BY <2>1, <2>2 DEF Exit, history
  <2>3. CASE Retry(p)
    BY <2>1, <2>3 DEF Retry, Goto, history
  <2> QED
    BY <1>15, <2>2, <2>3 DEF PushReplyLost
<1>16. ASSUME NEW p \in Processes, GiveUp(p) PROVE AckInv'
  BY <1>16 DEF GiveUp, Exit, refVars, history
<1>17. ASSUME NEW p \in Processes, PushFails(p) PROVE AckInv'
  BY <1>17 DEF PushFails, Exit, refVars, history
<1>18. ASSUME NEW p \in Processes, Crash(p) PROVE AckInv'
  BY <1>18 DEF Crash, Exit, refVars, history
<1>19. ASSUME NEW p \in Processes, UpToDate(p) PROVE AckInv'
  BY <1>19 DEF UpToDate, ExitSynced, Exit, refVars, history
<1>20. ASSUME NEW p \in Processes, FastForward(p) PROVE AckInv'
  BY <1>20 DEF FastForward, ExitSynced, Exit, refVars, history
<1>21. ASSUME NEW p \in Processes, PushAccepted(p) PROVE AckInv'
  BY <1>21 DEF PushAccepted, ExitSynced, Exit, refVars, history
<1>22. ASSUME NEW p \in Processes, Commit(p) PROVE AckInv'
  <2> DEFINE new == Recs(base[p]) \cup ({rec[p]} \ {Seed})
  <2>0. new \in SUBSET Records /\ base[p] \in Refs /\ 0 \in Refs
    BY CommitTypes DEF TypeOK
  <2>1. dag' = NewCommit(new, base[p], 0) /\ CommitsOK
    BY <1>22 DEF Commit, TypeOK
  <2>2. PICK n \in Nat : n = Len(dag') /\ Recs(n)' = new
    BY <2>0, <2>1, NewCommitHolds
  <2>3. /\ local' = [local EXCEPT ![CloneOf[p]] = n]
        /\ acked' = [acked EXCEPT ![CloneOf[p]] = @ \cup ({rec[p]} \ {Seed})]
        /\ pc' = [pc EXCEPT ![p] = "idle"]
        /\ base' = [base EXCEPT ![p] = 0]
        /\ seen' = [seen EXCEPT ![p] = 0]
    BY <1>22, <2>2 DEF Commit, Exit
  <2>a. pc[p] = "commit"
    BY <1>22 DEF Commit
  <2>b. acked[CloneOf[p]] \subseteq Recs(base[p])
    BY <2>a
  <2>4. \A c \in Clones \ {CloneOf[p]} : acked'[c] = acked[c] /\ local'[c] = local[c]
    BY <2>3
  <2>5. AcknowledgedKept'
    BY <2>2, <2>3, <2>b, <2>4
  <2>6. BaseKeeps' /\ TipKeeps'
    BY <2>3, <2>4
  <2> QED
    BY <2>5, <2>6
<1>23. ASSUME NEW p \in Processes, Diverged(p) PROVE AckInv'
  <2> DEFINE tip == fetchHead[CloneOf[p]]
  <2>0. Recs(base[p]) \cup Recs(tip) \in SUBSET Records /\ base[p] \in Refs /\ tip \in Refs
    BY CommitTypes DEF TypeOK
  <2>1. dag' = NewCommit(Recs(base[p]) \cup Recs(tip), base[p], tip) /\ CommitsOK
    BY <1>23 DEF Diverged, TypeOK
  <2>2. PICK n \in Nat : n = Len(dag') /\ Recs(n)' = Recs(base[p]) \cup Recs(tip)
    BY <2>0, <2>1, NewCommitHolds
  <2>3. /\ UNCHANGED <<local, acked>>
        /\ pc' = [pc EXCEPT ![p] = "installMerge"]
        /\ base' = [base EXCEPT ![p] = n]
        /\ seen' = [seen EXCEPT ![p] = tip]
        /\ acked[CloneOf[p]] \subseteq Recs(base[p])
        /\ Recs(n)' = Recs(base[p]) \cup Recs(tip)
    BY <1>23, <2>2 DEF Diverged, Goto, refVars, history
  <2> HIDE DEF tip
  <2>4. AcknowledgedKept'
    BY <2>3
  <2>5. BaseKeeps' /\ TipKeeps'
    BY <2>3
  <2> QED
    BY <2>4, <2>5
<1>24. ASSUME NEW c \in Clones, DetachedPushStart(c) PROVE AckInv'
  BY <1>24 DEF DetachedPushStart, refVars, procVars, history
<1>25. ASSUME DetachedPushAccepted PROVE AckInv'
  BY <1>25 DEF DetachedPushAccepted, refVars, procVars, history
<1>26. ASSUME DetachedPushLost PROVE AckInv'
  BY <1>26 DEF DetachedPushLost, refVars, procVars, history
<1>27. ASSUME NEW c \in Clones, DetachedFetch(c) PROVE AckInv'
  BY <1>27 DEF DetachedFetch, refVars, procVars, history
<1>28. ASSUME NEW c \in Clones, DetachedFetchDone(c) PROVE AckInv'
  BY <1>28 DEF DetachedFetchDone, refVars, procVars, history
<1>29. ASSUME UNCHANGED vars PROVE AckInv'
  BY <1>29 DEF vars, refVars, procVars, history
<1> QED
  BY <1>1, <1>2, <1>3, <1>4, <1>5, <1>6, <1>7, <1>8, <1>9, <1>10, <1>11, <1>12, <1>13, <1>14, <1>15, <1>16, <1>17, <1>18, <1>19, <1>20, <1>21, <1>22, <1>23, <1>24, <1>25, <1>26, <1>27, <1>28, <1>29
  DEF Next, Detached, Start, Step

\* In a clone that runs one command at a time, a record whose append returned
\* success never leaves the clone's own ledger branch: not through stale
\* appends, background fetches, union merges, failed syncs or crashes.
THEOREM AcknowledgedStays ==
    ASSUME OneCommandPerClone
    PROVE  Spec => []AcknowledgedKept
<1>1. Init => HistoryClosed /\ AckInv
  BY DEF Init, HistoryClosed, Refs, Anc, Recs, AckInv, AcknowledgedKept, BaseKeeps,
     TipKeeps
<1>2. TypeOK /\ HistoryClosed /\ AckInv /\ [Next]_vars => (HistoryClosed /\ AckInv)'
  BY NextHistory, NextAck
<1>3. AckInv => AcknowledgedKept
  BY DEF AckInv
<1> QED
  BY <1>1, <1>2, <1>3, TypeCorrect, PTL DEF Spec

\* What a step may do to the promises made: nothing, acknowledge one record, or
\* vouch for a clone's records once the remote has them.
LEMMA PromiseSteps ==
    ASSUME TypeOK, HistoryClosed, FetchedIsRemote, AckInv, [Next]_vars
    PROVE  \/ UNCHANGED history
           \/ \E c \in Clones, r \in Records :
                 /\ acked' = [acked EXCEPT ![c] = @ \cup {r}]
                 /\ UNCHANGED <<remote, reported>>
           \/ \E c \in Clones :
                 /\ acked[c] \subseteq Recs(remote)'
                 /\ reported' = [reported EXCEPT ![c] = acked[c]]
                 /\ UNCHANGED acked
<1> USE LedgerAssumption
<1>0. /\ \A p \in Processes : CloneOf[p] \in Clones
      /\ acked \in [Clones -> SUBSET Records]
      /\ rec \in [Processes -> Records \cup {Seed}]
      /\ base \in [Processes -> Refs] /\ seen \in [Processes -> Refs]
      /\ fetchHead \in [Clones -> Refs]
      /\ \A i \in {0} \cup Anc(remote) : Recs(i) \subseteq Recs(remote)
      /\ \A i \in Refs : Recs(i)' = Recs(i)
      /\ Recs(remote) \subseteq Recs(remote)'
  BY CommitsImmutable, RemoteGrows
     DEF TypeOK, RefsOK, ProcessesOK, HistoryOK, HistoryClosed, Recs
<1> USE <1>0
<1>1. ASSUME NEW p \in Processes, Commit(p)
      PROVE  \/ UNCHANGED history
             \/ \E c \in Clones, r \in Records :
                   /\ acked' = [acked EXCEPT ![c] = @ \cup {r}]
                   /\ UNCHANGED <<remote, reported>>
  <2>1. CASE rec[p] = Seed
    BY <1>1, <2>1 DEF Commit, history
  <2>2. CASE rec[p] \in Records
    BY <1>1, <2>2 DEF Commit
  <2> QED
    BY <2>1, <2>2
<1>2. ASSUME NEW p \in Processes, UpToDate(p)
      PROVE  acked[CloneOf[p]] \subseteq Recs(remote)' /\ ExitSynced(p)
  BY <1>2 DEF UpToDate, AckInv, BaseKeeps, FetchedIsRemote
<1>3. ASSUME NEW p \in Processes, FastForward(p)
      PROVE  acked[CloneOf[p]] \subseteq Recs(remote)' /\ ExitSynced(p)
  BY <1>3 DEF FastForward, AckInv, TipKeeps, FetchedIsRemote
<1>4. ASSUME NEW p \in Processes, PushAccepted(p)
      PROVE  acked[CloneOf[p]] \subseteq Recs(remote)' /\ ExitSynced(p)
  BY <1>4 DEF PushAccepted, AckInv, BaseKeeps
<1>5. ASSUME NEW p \in Processes, UpToDate(p) \/ FastForward(p) \/ PushAccepted(p)
      PROVE  \E c \in Clones :
                 /\ acked[c] \subseteq Recs(remote)'
                 /\ reported' = [reported EXCEPT ![c] = acked[c]]
                 /\ UNCHANGED acked
  BY <1>2, <1>3, <1>4, <1>5 DEF ExitSynced
<1>6. ASSUME NEW p \in Processes, Start(p) \/ Crash(p) PROVE UNCHANGED history
  BY <1>6 DEF Start, StartInit, StartAdopt, StartSync, StartAppend, Crash
<1>7. ASSUME NEW p \in Processes,
             \/ ReadTip(p) \/ Adopt(p) \/ RevParse(p) \/ Fetch(p) \/ FetchFails(p)
             \/ Behind(p) \/ Ahead(p) \/ Diverged(p) \/ InstallMerge(p) \/ PushStart(p)
             \/ PushReplyLost(p) \/ PushRejected(p) \/ GiveUp(p) \/ PushFails(p)
      PROVE  UNCHANGED history
  BY <1>7 DEF ReadTip, Adopt, RevParse, Fetch, FetchFails, Behind, Ahead, Diverged,
     InstallMerge, PushStart, PushReplyLost, PushRejected, GiveUp, PushFails
<1>8. CASE Detached \/ UNCHANGED vars
  BY <1>8 DEF Detached, DetachedPushStart, DetachedPushAccepted, DetachedPushLost,
     DetachedFetch, DetachedFetchDone, vars
<1> QED
  BY <1>1, <1>5, <1>6, <1>7, <1>8 DEF Next, Step

\* Everything the ledger promises with one command per clone.
LedgerInv == HistoryClosed /\ FetchedIsRemote /\ AckInv /\ SyncedIsShared

LEMMA InitLedgerInv == Init => LedgerInv
BY DEF Init, LedgerInv, HistoryClosed, FetchedIsRemote, AckInv, AcknowledgedKept,
   BaseKeeps, TipKeeps, SyncedIsShared, Refs, Anc, Recs

LEMMA NextLedgerInv ==
    ASSUME OneCommandPerClone, TypeOK, LedgerInv, [Next]_vars
    PROVE  LedgerInv'
<1>1. HistoryClosed' /\ FetchedIsRemote' /\ AckInv'
  BY NextHistory, NextFetched, NextAck DEF LedgerInv
<1>2. Recs(remote) \subseteq Recs(remote)'
  BY RemoteGrows DEF LedgerInv
<1>3. reported \in [Clones -> SUBSET Records]
  BY DEF TypeOK, HistoryOK
<1>4. ASSUME UNCHANGED reported PROVE SyncedIsShared'
  BY <1>2, <1>4 DEF LedgerInv, SyncedIsShared
<1>5. ASSUME NEW c \in Clones, acked[c] \subseteq Recs(remote)',
             reported' = [reported EXCEPT ![c] = acked[c]]
      PROVE  SyncedIsShared'
  BY <1>2, <1>3, <1>5 DEF LedgerInv, SyncedIsShared
<1> QED
  BY <1>1, <1>4, <1>5, PromiseSteps DEF LedgerInv, history, SyncedIsShared

\* When a sync reports success, by whichever of its five outcomes, every record
\* acknowledged in its clone is on the remote branch, and stays there.
THEOREM SyncedStaysShared ==
    ASSUME OneCommandPerClone
    PROVE  Spec => []SyncedIsShared
<1>1. TypeOK /\ LedgerInv /\ [Next]_vars => LedgerInv'
  BY NextLedgerInv
<1>2. LedgerInv => SyncedIsShared
  BY DEF LedgerInv
<1> QED
  BY <1>1, <1>2, InitLedgerInv, TypeCorrect, PTL DEF Spec

-----------------------------------------------------------------------------
(* Refinement *)

LEMMA InitRefines == Init => Shared!SharedInit
BY DEF Init, Shared!SharedInit, Recs

LEMMA NextRefines ==
    ASSUME TypeOK, TypeOK', LedgerInv, [Next]_vars
    PROVE  [Shared!SharedNext]_Shared!sharedVars
<1>1. /\ Recs(remote) \subseteq Recs(remote)'
      /\ Recs(remote)' \in SUBSET Records
  <2>1. CommitsOK' /\ RefsOK'
    BY DEF TypeOK
  <2>2. Len(dag') \in Nat /\ \A i \in 1 .. Len(dag') : dag'[i] \in CommitRecord
    BY <2>1, LenProperties, ElementOfSeq DEF CommitsOK
  <2>3. remote' \in 0 .. Len(dag')
    BY <2>1 DEF RefsOK, Refs
  <2>4. Recs(remote)' \in SUBSET Records
    BY <2>2, <2>3 DEF Recs, CommitRecord
  <2> QED
    BY <2>4, RemoteGrows DEF LedgerInv
<1>2. CASE UNCHANGED history
  BY <1>1, <1>2 DEF history, Shared!SharedNext, Shared!Publish, Shared!sharedVars
<1>3. ASSUME NEW c \in Clones, NEW r \in Records,
             acked' = [acked EXCEPT ![c] = @ \cup {r}],
             UNCHANGED <<remote, reported>>
      PROVE  Shared!SharedNext
  <2>1. Recs(remote)' = Recs(remote)
    BY <1>3, CommitsImmutable DEF TypeOK, RefsOK
  <2> QED
    BY <1>3, <2>1 DEF Shared!SharedNext, Shared!Record
<1>4. ASSUME NEW c \in Clones,
             acked[c] \subseteq Recs(remote)',
             reported' = [reported EXCEPT ![c] = acked[c]],
             UNCHANGED acked
      PROVE  Shared!SharedNext
  BY <1>1, <1>4 DEF Shared!SharedNext, Shared!Report
<1> QED
  BY <1>2, <1>3, <1>4, PromiseSteps DEF LedgerInv

\* With one command per clone, commits, refs, fetches, merges and pushes
\* implement a shared set of records that only grows.
THEOREM LedgerRefinesShared ==
    ASSUME OneCommandPerClone
    PROVE  Spec => RefinesShared
<1>1. TypeOK /\ LedgerInv /\ [Next]_vars => LedgerInv'
  BY NextLedgerInv
<1>2. TypeOK /\ TypeOK' /\ LedgerInv /\ [Next]_vars
         => [Shared!SharedNext]_Shared!sharedVars
  BY NextRefines
<1> QED
  BY <1>1, <1>2, InitLedgerInv, InitRefines, TypeCorrect, PTL
     DEF Spec, RefinesShared, Shared!SharedSpec

-----------------------------------------------------------------------------
(* Lost races *)

\* What a sync attempt knows of the branches: the commit it read is one the
\* clone's branch descends from, what it will push descends from what it
\* fetched, and so does what the remote advertised to it.
RaceInv ==
    \A p \in Processes :
        /\ pc[p] \in {"fetch", "reconcile"} => base[p] \in {0} \cup Anc(local[CloneOf[p]])
        /\ pc[p] = "fetch" => seen[p] = 0
        /\ pc[p] = "push" => seen[p] \in {0} \cup Anc(local[CloneOf[p]])
        /\ pc[p] = "installMerge" => seen[p] \in {0} \cup Anc(base[p])
        /\ pc[p] = "pushing" =>
              /\ seen[p] \in {0} \cup (Anc(base[p]) \cap Anc(advert[p]))
              /\ advert[p] \in {0} \cup Anc(remote)

\* The union commit a sync builds descends from the tip it fetched.
LEMMA DivergedReaches ==
    ASSUME TypeOK, HistoryClosed, NEW p \in Processes, Diverged(p)
    PROVE  \E n \in Nat, tip \in Refs :
              /\ tip \in {0} \cup Anc(n)'
              /\ base' = [base EXCEPT ![p] = n]
              /\ seen' = [seen EXCEPT ![p] = tip]
<1>1. PICK tip \in Refs, b \in Refs : tip = fetchHead[CloneOf[p]] /\ b = base[p]
  BY LedgerAssumption DEF TypeOK, RefsOK, ProcessesOK
<1>2. CommitsOK /\ Recs(b) \cup Recs(tip) \in SUBSET Records
  BY CommitTypes DEF TypeOK
<1>3. dag' = NewCommit(Recs(b) \cup Recs(tip), b, tip)
  BY <1>1 DEF Diverged
<1>4. PICK n \in Nat : n = Len(dag') /\ Anc(tip) \subseteq Anc(n)'
  BY <1>2, <1>3, NewCommitReaches
<1>5. tip \in {0} \cup Anc(tip)
  BY DEF HistoryClosed
<1>6. /\ base' = [base EXCEPT ![p] = n]
      /\ seen' = [seen EXCEPT ![p] = tip]
  BY <1>1, <1>4 DEF Diverged
<1> QED
  BY <1>4, <1>5, <1>6

LEMMA NextRace ==
    ASSUME TypeOK, HistoryClosed, FetchedIsRemote, RaceInv, OneCommandPerClone,
           [Next]_vars
    PROVE  RaceInv'
<1> USE LedgerAssumption
<1>0. /\ \A p \in Processes : CloneOf[p] \in Clones
      /\ \A p, q \in Processes : CloneOf[p] = CloneOf[q] => p = q
      /\ local \in [Clones -> Refs]
      /\ pc \in [Processes -> PcValues]
      /\ base \in [Processes -> Refs]
      /\ seen \in [Processes -> Refs]
      /\ advert \in [Processes -> Refs]
      /\ fetchHead \in [Clones -> Refs]
      /\ hookFetch \in [Clones -> Refs]
      /\ \A i, j \in Refs : i \in Anc(j) => Anc(i) \subseteq Anc(j)
      /\ \A i \in Refs : i \in {0} \cup Anc(i)
      /\ \A i \in Refs : Anc(i)' = Anc(i)
      /\ remote \in Refs
      /\ Anc(remote) \subseteq Anc(remote)'
      /\ 0 \in Refs /\ Anc(0) = {}
  BY CommitsImmutable, CommitTypes, RemoteGrows DEF TypeOK, RefsOK, ProcessesOK,
     BackgroundOK, OneCommandPerClone, HistoryClosed, Anc
<1>a. /\ \A c \in Clones : fetchHead[c] \in {0} \cup Anc(remote)
      /\ \A p \in Processes : seen[p] \in {0} \cup Anc(remote)
  BY DEF FetchedIsRemote
<1> USE <1>0, <1>a DEF RaceInv
<1>1. ASSUME NEW p \in Processes, StartInit(p) PROVE RaceInv'
  BY <1>1 DEF StartInit, Goto, refVars
<1>2. ASSUME NEW p \in Processes, StartAdopt(p) PROVE RaceInv'
  BY <1>2 DEF StartAdopt, Goto, refVars
<1>3. ASSUME NEW p \in Processes, StartSync(p) PROVE RaceInv'
  BY <1>3 DEF StartSync, Goto, refVars
<1>4. ASSUME NEW p \in Processes, ReadTip(p) PROVE RaceInv'
  BY <1>4 DEF ReadTip, Goto, refVars
<1>5. ASSUME NEW p \in Processes, RevParse(p) PROVE RaceInv'
  BY <1>5 DEF RevParse, Goto, refVars
<1>6. ASSUME NEW p \in Processes, Fetch(p) PROVE RaceInv'
  BY <1>6 DEF Fetch, Goto, refVars
<1>7. ASSUME NEW p \in Processes, FetchFails(p) PROVE RaceInv'
  BY <1>7 DEF FetchFails, Goto, refVars
<1>8. ASSUME NEW p \in Processes, Behind(p) PROVE RaceInv'
  BY <1>8 DEF Behind, IsAncestor, Goto, refVars
<1>9. ASSUME NEW p \in Processes, Ahead(p) PROVE RaceInv'
  BY <1>9 DEF Ahead, IsAncestor, Goto, refVars
<1>10. ASSUME NEW p \in Processes, PushStart(p) PROVE RaceInv'
  BY <1>10 DEF PushStart, Goto, refVars
<1>11. ASSUME NEW p \in Processes, InstallMerge(p) PROVE RaceInv'
  BY <1>11 DEF InstallMerge, Goto, refVars
<1>12. ASSUME NEW p \in Processes, PushRejected(p) PROVE RaceInv'
  BY <1>12 DEF PushRejected, Retry, Goto, refVars
<1>13. ASSUME NEW p \in Processes, NEW r \in Records, StartAppend(p, r) PROVE RaceInv'
  BY <1>13 DEF StartAppend, Goto, refVars
<1>14. ASSUME NEW p \in Processes, Adopt(p) PROVE RaceInv'
  BY <1>14 DEF Adopt, Exit, refVars
<1>15. ASSUME NEW p \in Processes, PushReplyLost(p) PROVE RaceInv'
  BY <1>15 DEF PushReplyLost, Exit, Retry, Goto, refVars
<1>16. ASSUME NEW p \in Processes, GiveUp(p) PROVE RaceInv'
  BY <1>16 DEF GiveUp, Exit, refVars
<1>17. ASSUME NEW p \in Processes, PushFails(p) PROVE RaceInv'
  BY <1>17 DEF PushFails, Exit, refVars
<1>18. ASSUME NEW p \in Processes, Crash(p) PROVE RaceInv'
  BY <1>18 DEF Crash, Exit, refVars
<1>19. ASSUME NEW p \in Processes, UpToDate(p) PROVE RaceInv'
  BY <1>19 DEF UpToDate, ExitSynced, Exit, refVars
<1>20. ASSUME NEW p \in Processes, FastForward(p) PROVE RaceInv'
  BY <1>20 DEF FastForward, ExitSynced, Exit, refVars
<1>21. ASSUME NEW p \in Processes, PushAccepted(p) PROVE RaceInv'
  BY <1>21 DEF PushAccepted, ExitSynced, Exit, refVars
<1>22. ASSUME NEW p \in Processes, Commit(p) PROVE RaceInv'
  <2>1. /\ local' = [local EXCEPT ![CloneOf[p]] = Len(dag')]
        /\ pc' = [pc EXCEPT ![p] = "idle"]
        /\ base' = [base EXCEPT ![p] = 0]
        /\ seen' = [seen EXCEPT ![p] = 0]
        /\ advert' = [advert EXCEPT ![p] = 0]
    BY <1>22 DEF Commit, Exit
  <2>2. \A q \in Processes \ {p} : local'[CloneOf[q]] = local[CloneOf[q]]
    BY <2>1
  <2> QED
    BY <2>1, <2>2
<1>23. ASSUME NEW p \in Processes, Diverged(p) PROVE RaceInv'
  <2>1. PICK n \in Nat, tip \in Refs :
           /\ tip \in {0} \cup Anc(n)'
           /\ base' = [base EXCEPT ![p] = n]
           /\ seen' = [seen EXCEPT ![p] = tip]
    BY <1>23, DivergedReaches
  <2>2. /\ UNCHANGED <<local, remote, advert>>
        /\ pc' = [pc EXCEPT ![p] = "installMerge"]
    BY <1>23 DEF Diverged, Goto, refVars
  <2>3. /\ pc'[p] = "installMerge"
        /\ seen'[p] \in {0} \cup Anc(base[p])'
    BY <2>1, <2>2
  <2>4. \A q \in Processes \ {p} :
           /\ pc'[q] = pc[q] /\ base'[q] = base[q]
           /\ seen'[q] = seen[q] /\ advert'[q] = advert[q]
    BY <2>1, <2>2
  <2> QED
    BY <2>2, <2>3, <2>4
<1>24. ASSUME NEW c \in Clones, DetachedPushStart(c) PROVE RaceInv'
  BY <1>24 DEF DetachedPushStart, refVars, procVars
<1>25. ASSUME DetachedPushAccepted PROVE RaceInv'
  BY <1>25 DEF DetachedPushAccepted, refVars, procVars
<1>26. ASSUME DetachedPushLost PROVE RaceInv'
  BY <1>26 DEF DetachedPushLost, refVars, procVars
<1>27. ASSUME NEW c \in Clones, DetachedFetch(c) PROVE RaceInv'
  BY <1>27 DEF DetachedFetch, refVars, procVars
<1>28. ASSUME NEW c \in Clones, DetachedFetchDone(c) PROVE RaceInv'
  BY <1>28 DEF DetachedFetchDone, IsAncestor, refVars, procVars
<1>29. ASSUME UNCHANGED vars PROVE RaceInv'
  BY <1>29 DEF vars, refVars, procVars
<1> QED
  BY <1>1, <1>2, <1>3, <1>4, <1>5, <1>6, <1>7, <1>8, <1>9, <1>10, <1>11, <1>12, <1>13, <1>14, <1>15, <1>16, <1>17, <1>18, <1>19, <1>20, <1>21, <1>22, <1>23, <1>24, <1>25, <1>26, <1>27, <1>28, <1>29
  DEF Next, Detached, Start, Step

\* The advertised tip is between what the attempt saw and the remote, and the
\* pushed commit descends from what it saw.
LEMMA RacedFits ==
    ASSUME TypeOK, HistoryClosed, RaceInv, NEW p \in Processes, pc[p] = "pushing",
           seen[p] # 0, seen[p] = remote
    PROVE  Accepts(base[p], advert[p])
<1>1. /\ seen[p] \in Anc(base[p]) \cap Anc(advert[p])
      /\ advert[p] \in {0} \cup Anc(remote)
      /\ seen[p] \in Refs /\ advert[p] \in Refs /\ remote \in Refs
      /\ \A i \in Refs : i \in Nat /\ Anc(i) \subseteq 1 .. i
      /\ Anc(0) = {}
  BY CommitTypes DEF RaceInv, TypeOK, ProcessesOK, RefsOK, HistoryClosed, Refs, Anc
<1>2. remote \in Anc(base[p]) /\ remote \in Anc(advert[p]) /\ advert[p] \in Anc(remote)
  BY <1>1
<1>3. remote <= advert[p] /\ advert[p] <= remote
  BY <1>1, <1>2
<1>4. remote = advert[p]
  BY <1>1, <1>3
<1> QED
  BY <1>2, <1>4 DEF Accepts, IsAncestor

\* With one command per clone, what a sync pushes after a fetch that worked is a
\* fast-forward of the remote as long as the remote is where that attempt found
\* it: only another writer's push can get in its way, so every race that is lost
\* is one the next fetch mends (sync.go:93, doPush and the reconciliation).
THEOREM ReconciledPushesFit ==
    ASSUME OneCommandPerClone
    PROVE  Spec => []ReconciledFits
<1> DEFINE RInv == HistoryClosed /\ FetchedIsRemote /\ RaceInv
<1>1. Init => RInv
  BY DEF Init, HistoryClosed, FetchedIsRemote, RaceInv, Refs, Anc, Recs
<1>2. TypeOK /\ RInv /\ [Next]_vars => RInv'
  BY NextHistory, NextFetched, NextRace
<1>3. TypeOK /\ RInv => ReconciledFits
  BY RacedFits DEF ReconciledFits
<1> QED
  BY <1>1, <1>2, <1>3, TypeCorrect, PTL DEF Spec
-----------------------------------------------------------------------------
(* Commands end *)

\* The Git calls before the next rev-parse of a sync, or before the command ends.
CallsInAttempt(at) ==
    CASE at \in {"idle", "revParse"}                         -> 0
      [] at \in {"commit", "adopt", "fastForward", "pushing"} -> 1
      [] at \in {"readTip", "push"}                          -> 2
      [] at = "installMerge"                                 -> 3
      [] at = "reconcile"                                    -> 4
      [] at = "fetch"                                        -> 5

Syncing(at) == at \notin {"idle", "readTip", "commit", "adopt"}

\* A bound on the Git calls that p's command still makes: an attempt of Sync
\* makes six at most.
CallsLeft(p) ==
    CallsInAttempt(pc[p])
        + IF Syncing(pc[p]) THEN 6 * (MaxSyncAttempts - attempt[p]) ELSE 0

\* A call of p brings its command closer to the end, whatever the others did
\* before: no race it loses gives it calls back.
LEMMA CallShrinks ==
    ASSUME TypeOK, AttemptsLeft, NEW p \in Processes, Step(p)
    PROVE  CallsLeft(p)' < CallsLeft(p)
<1> USE LedgerAssumption DEF CallsLeft, CallsInAttempt, Syncing
<1>1. /\ pc \in [Processes -> PcValues] /\ attempt \in [Processes -> 0 .. MaxSyncAttempts]
      /\ attempt[p] \in 0 .. MaxSyncAttempts
      /\ pc[p] = "revParse" => attempt[p] < MaxSyncAttempts
      /\ MaxSyncAttempts \in Nat
  BY DEF TypeOK, ProcessesOK, AttemptsLeft, LedgerAssumption
<1>2. CASE RevParse(p)
  <2>1. /\ pc[p] = "revParse" /\ pc'[p] = "fetch" /\ attempt'[p] = attempt[p] + 1
    BY <1>1, <1>2 DEF RevParse, Goto
  <2> QED
    BY <1>1, <2>1
<1>3. CASE \/ ReadTip(p) \/ Fetch(p) \/ FetchFails(p) \/ Behind(p) \/ Ahead(p) \/ Diverged(p)
           \/ InstallMerge(p) \/ PushStart(p) \/ PushRejected(p)
  <2>1. /\ attempt' = attempt
        /\ \/ pc[p] = "readTip" /\ pc'[p] = "commit"
           \/ pc[p] = "fetch" /\ pc'[p] \in {"reconcile", "push"}
           \/ pc[p] = "reconcile" /\ pc'[p] \in {"fastForward", "push", "installMerge"}
           \/ pc[p] = "installMerge" /\ pc'[p] = "push"
           \/ pc[p] = "push" /\ pc'[p] = "pushing"
           \/ pc[p] = "pushing" /\ pc'[p] = "revParse"
    BY <1>1, <1>3 DEF ReadTip, Fetch, FetchFails, Behind, Ahead, Diverged, InstallMerge,
       PushStart, PushRejected, Retry, Goto
  <2> QED
    BY <1>1, <2>1
<1>5. CASE PushReplyLost(p)
  <2>1. /\ pc[p] = "pushing"
        /\ pc'[p] = "idle" \/ (pc'[p] = "revParse" /\ attempt'[p] = attempt[p])
    BY <1>1, <1>5 DEF PushReplyLost, Exit, Retry, Goto
  <2> QED
    BY <1>1, <2>1
<1>4. CASE \/ Commit(p) \/ Adopt(p) \/ UpToDate(p) \/ FastForward(p) \/ PushAccepted(p)
           \/ GiveUp(p) \/ PushFails(p)
  <2>1. /\ pc[p] \in {"commit", "adopt", "reconcile", "fastForward", "pushing"}
        /\ pc'[p] = "idle"
    BY <1>1, <1>4 DEF Commit, Adopt, UpToDate, FastForward, PushAccepted, GiveUp,
       PushFails, ExitSynced, Exit
  <2> QED
    BY <1>1, <2>1
<1> QED
  BY <1>2, <1>3, <1>4, <1>5 DEF Step

\* No command makes more than MaxSyncAttempts times six calls, and one that has
\* none left has ended.
CallsCounted ==
    \A p \in Processes :
        /\ CallsLeft(p) \in 0 .. 6 * MaxSyncAttempts
        /\ CallsLeft(p) = 0 <=> pc[p] = "idle"

LEMMA CallsAreCounted == TypeOK /\ AttemptsLeft => CallsCounted
<1> SUFFICES ASSUME TypeOK, AttemptsLeft, NEW p \in Processes
             PROVE  /\ CallsLeft(p) \in 0 .. 6 * MaxSyncAttempts
                    /\ CallsLeft(p) = 0 <=> pc[p] = "idle"
  BY DEF CallsCounted
<1>1. /\ pc[p] \in PcValues /\ attempt[p] \in 0 .. MaxSyncAttempts
      /\ MaxSyncAttempts \in Nat \ {0}
      /\ pc[p] = "revParse" => attempt[p] < MaxSyncAttempts
      /\ pc[p] \in {"fetch", "reconcile", "fastForward", "installMerge", "push", "pushing"}
            => attempt[p] > 0
  BY LedgerAssumption DEF TypeOK, ProcessesOK, AttemptsLeft, LedgerAssumption
<1> QED
  BY <1>1 DEF CallsLeft, CallsInAttempt, Syncing, PcValues

\* A step of another process, or of a detached one, leaves p where it is.
LEMMA OthersLeaveIt ==
    ASSUME TypeOK, NEW p \in Processes, NEW q \in Processes \ {p}, Start(q) \/ Step(q) \/ Crash(q)
    PROVE  pc'[p] = pc[p] /\ attempt'[p] = attempt[p]
<1> USE DEF TypeOK, ProcessesOK
<1>1. CASE Start(q)
  BY <1>1 DEF Start, StartInit, StartAdopt, StartSync, StartAppend, Goto
<1>2. CASE \/ ReadTip(q) \/ RevParse(q) \/ Fetch(q) \/ FetchFails(q) \/ Behind(q)
           \/ Ahead(q) \/ Diverged(q) \/ InstallMerge(q) \/ PushStart(q) \/ PushRejected(q)
  BY <1>2 DEF ReadTip, RevParse, Fetch, FetchFails, Behind, Ahead, Diverged,
     InstallMerge, PushStart, PushRejected, Retry, Goto
<1>3. CASE \/ Commit(q) \/ Adopt(q) \/ UpToDate(q) \/ FastForward(q) \/ PushAccepted(q)
           \/ PushReplyLost(q) \/ GiveUp(q) \/ PushFails(q) \/ Crash(q)
  BY <1>3 DEF Commit, Adopt, UpToDate, FastForward, PushAccepted, PushReplyLost,
     GiveUp, PushFails, Crash, ExitSynced, Exit, Retry, Goto
<1> QED
  BY <1>1, <1>2, <1>3 DEF Step

\* Nothing but a start gives a process calls to make.
LEMMA NoCallsComeBack ==
    ASSUME TypeOK, AttemptsLeft, CallsCounted, CallsCounted', [Next]_vars,
           NEW p \in Processes, ~Start(p)
    PROVE  CallsLeft(p)' <= CallsLeft(p)
<1>1. CallsLeft(p) \in Nat /\ CallsLeft(p)' \in Nat
  BY LedgerAssumption DEF LedgerAssumption, CallsCounted
<1>2. CASE Step(p)
  BY <1>1, <1>2, CallShrinks
<1>3. CASE Crash(p)
  <2>1. pc'[p] = "idle"
    BY <1>3 DEF Crash, Exit, TypeOK, ProcessesOK
  <2>2. CallsLeft(p)' = 0
    BY <2>1 DEF CallsLeft, CallsInAttempt, Syncing
  <2> QED
    BY <1>1, <2>2
<1>4. CASE pc'[p] = pc[p] /\ attempt'[p] = attempt[p]
  BY <1>1, <1>4 DEF CallsLeft
<1>5. CASE Detached \/ UNCHANGED vars
  BY <1>4, <1>5 DEF Detached, DetachedPushStart, DetachedPushAccepted, DetachedPushLost,
     DetachedFetch, DetachedFetchDone, procVars, vars
<1>6. CASE \E q \in Processes \ {p} : Start(q) \/ Step(q) \/ Crash(q)
  BY <1>4, <1>6, OthersLeaveIt
<1> QED
  BY <1>2, <1>3, <1>5, <1>6 DEF Next

\* A command makes a bounded number of Git calls, however many races it loses
\* (sync.go:38): at most six in each attempt of Sync, each of its calls leaves
\* fewer to make, nothing anybody else does gives it calls back, and when none
\* is left it has ended. What CommandsEnd adds is that the next call is made.
THEOREM CommandsAreBounded ==
    Spec => /\ []CallsCounted
            /\ [][\A p \in Processes :
                     /\ Step(p) => CallsLeft(p)' < CallsLeft(p)
                     /\ ~Start(p) => CallsLeft(p)' <= CallsLeft(p)]_vars
<1>1. Init => TypeOK /\ AttemptsLeft
  BY InitType, LedgerAssumption DEF Init, AttemptsLeft
<1>2. TypeOK /\ AttemptsLeft /\ [Next]_vars => (TypeOK /\ AttemptsLeft)'
  BY NextType, NextAttempts
<1>3. TypeOK /\ AttemptsLeft /\ CallsCounted /\ CallsCounted' /\ [Next]_vars =>
         [\A p \in Processes :
             /\ Step(p) => CallsLeft(p)' < CallsLeft(p)
             /\ ~Start(p) => CallsLeft(p)' <= CallsLeft(p)]_vars
  BY CallShrinks, NoCallsComeBack
<1> QED
  BY <1>1, <1>2, <1>3, CallsAreCounted, PTL DEF Spec
=============================================================================

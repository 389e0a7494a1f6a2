---------------------------- MODULE IndexProofs ----------------------------
(***************************************************************************)
(* Theorems about Index, for any memories, records, policy versions,        *)
(* processes and number of files.                                           *)
(***************************************************************************)
EXTENDS Index, DeriveProofs, SequenceTheorems

-----------------------------------------------------------------------------
(* Rows, tips and commits *)

\* d holds what c holds, and perhaps more.
UpTo(c, d) ==
    /\ c.mems \subseteq d.mems
    /\ c.obs \subseteq d.obs
    /\ c.version <= d.version

\* The rows of a file with this tip, as StaleRowsAreDue wants them.
Covers(rows, tip, b) ==
    tip.version = b.version =>
       \A m \in b.mems \ FanOut(Named(tip, b), b.obs) :
          m \in DOMAIN rows /\ rows[m] = Replay(b)[m]

\* Replays of two commits agree on what the later one leaves alone.
LEMMA ReplaysAgree ==
    ASSUME NEW c, NEW b, UpTo(c, b), c.version = b.version, OnLedger(b.mems, b.obs),
           NEW m \in c.mems, m \notin FanOut(Named(c, b), b.obs)
    PROVE  Replay(b)[m] = Replay(c)[m]
<1>1. m \notin FanOut(Touched(c.mems, c.obs, b.mems, b.obs), b.obs)
  BY DEF Named, Touched
<1>2. \A p : Derived(m, b.mems, b.obs, p) = Derived(m, c.mems, c.obs, p)
  BY <1>1, OnlyFanOutChanges DEF UpTo
<1>3. m \in b.mems
  BY DEF UpTo
<1>4. Replay(b)[m] = Derived(m, b.mems, b.obs, Policies[b.version])
  BY <1>3 DEF Replay
<1>5. Replay(c)[m] = Derived(m, c.mems, c.obs, Policies[c.version])
  BY DEF Replay
<1> QED
  BY <1>2, <1>4, <1>5

\* More named memories, more affected ones.
LEMMA FanOutGrows ==
    ASSUME NEW A, NEW B, A \subseteq B, NEW P, NEW Q, P \subseteq Q
    PROVE  FanOut(A, P) \subseteq FanOut(B, Q)
  BY DEF FanOut, OfKind

LEMMA NamedSplits ==
    ASSUME NEW c, NEW d, NEW b, UpTo(c, d), UpTo(d, b)
    PROVE  /\ Named(c, b) = Named(c, d) \cup Named(d, b)
           /\ Named(d, b) \subseteq Named(c, b)
<1>1. Named(c, d) \subseteq Named(c, b)
  BY DEF Named, UpTo
<1>2. Named(d, b) \subseteq Named(c, b)
  BY DEF Named, UpTo
<1>3. Named(c, b) \subseteq Named(c, d) \cup Named(d, b)
  BY DEF Named, UpTo
<1> QED
  BY <1>1, <1>2, <1>3

\* A memory not named since a commit is in it.
LEMMA UnnamedIsIn ==
    ASSUME NEW c, NEW b, NEW m \in b.mems, m \notin FanOut(Named(c, b), b.obs)
    PROVE  m \in c.mems
  BY DEF FanOut, Named

\* Rows stay covered while the branch grows.
LEMMA GrowthCovered ==
    ASSUME NEW rows, NEW tip, NEW b, NEW c, UpTo(tip, b), UpTo(b, c),
           tip.version \in Nat, b.version \in Nat, c.version \in Nat,
           OnLedger(c.mems, c.obs), Covers(rows, tip, b)
    PROVE  Covers(rows, tip, c)
<1> SUFFICES ASSUME tip.version = c.version,
                    NEW m \in c.mems \ FanOut(Named(tip, c), c.obs)
             PROVE  m \in DOMAIN rows /\ rows[m] = Replay(c)[m]
  BY DEF Covers
<1>1. tip.version = b.version /\ b.version = c.version
  BY DEF UpTo
<1>2. m \in tip.mems /\ m \in b.mems
  BY UnnamedIsIn DEF UpTo
<1>3. Named(tip, b) \subseteq Named(tip, c) /\ Named(b, c) \subseteq Named(tip, c)
  BY NamedSplits
<1>4. m \notin FanOut(Named(tip, b), b.obs) /\ m \notin FanOut(Named(b, c), c.obs)
  BY <1>3, FanOutGrows DEF UpTo
<1>5. m \in DOMAIN rows /\ rows[m] = Replay(b)[m]
  BY <1>1, <1>2, <1>4 DEF Covers
<1>6. Replay(c)[m] = Replay(b)[m]
  BY <1>1, <1>2, <1>4, ReplaysAgree
<1> QED
  BY <1>5, <1>6

\* The rows a full replay writes are covered.
LEMMA RebuildCovered ==
    ASSUME NEW tip, NEW b, UpTo(tip, b), OnLedger(b.mems, b.obs)
    PROVE  Covers(Replay(tip), tip, b)
<1> SUFFICES ASSUME tip.version = b.version,
                    NEW m \in b.mems \ FanOut(Named(tip, b), b.obs)
             PROVE  m \in DOMAIN Replay(tip) /\ Replay(tip)[m] = Replay(b)[m]
  BY DEF Covers
<1>1. m \in tip.mems
  BY UnnamedIsIn
<1>2. m \in DOMAIN Replay(tip)
  BY <1>1 DEF Replay
<1> QED
  BY <1>1, <1>2, ReplaysAgree

\* The rows an incremental update writes are covered: those it derived from what
\* it had read (g), those it left alone because nothing named them between the
\* tip it found (c) and the tip it stores (d), the branch having moved on (b).
LEMMA UpdateCovered ==
    ASSUME NEW c, NEW d, NEW g, NEW b, UpTo(c, d), UpTo(d, g), UpTo(g, b),
           c.version = d.version, d.version \in Nat, g.version \in Nat, b.version \in Nat,
           OnLedger(b.mems, b.obs), NEW rows, Covers(rows, c, b),
           NEW A, A = FanOut(Named(c, d), g.obs) \cap b.mems
    PROVE  Covers([m \in DOMAIN rows \cup A |-> IF m \in A THEN Replay(g)[m] ELSE rows[m]],
                  d, b)
<1> DEFINE written == [m \in DOMAIN rows \cup A |->
                          IF m \in A THEN Replay(g)[m] ELSE rows[m]]
<1> SUFFICES ASSUME d.version = b.version,
                    NEW m \in b.mems \ FanOut(Named(d, b), b.obs)
             PROVE  m \in DOMAIN written /\ written[m] = Replay(b)[m]
  BY DEF Covers
<1>1. c.version = b.version /\ g.version = b.version
  BY DEF UpTo
<1>2. UpTo(d, b) /\ m \in d.mems /\ m \in g.mems
  BY UnnamedIsIn DEF UpTo
<1>3. m \notin FanOut(Named(g, b), b.obs)
  BY <1>2, NamedSplits, FanOutGrows
<1>4. CASE m \in A
  <2>1. Replay(g)[m] = Replay(b)[m]
    BY <1>1, <1>2, <1>3, ReplaysAgree
  <2> QED
    BY <1>4, <2>1
<1>5. CASE m \notin A
  <2>1. m \notin FanOut(Named(c, d), g.obs) /\ m \notin FanOut(Named(d, b), b.obs)
    BY <1>5
  <2>2. Named(c, b) = Named(c, d) \cup Named(d, b)
    BY <1>2, NamedSplits
  <2>3. \A o \in b.obs : o \notin g.obs => o.target \in Named(d, b)
    BY DEF Named, UpTo
  <2>4. m \notin Named(c, b)
    BY <2>1, <2>2 DEF FanOut
  <2>5. ASSUME NEW o \in b.obs, o.kind = "supersede", o.ref = m
        PROVE  o.target \notin Named(c, b)
    BY <2>1, <2>2, <2>3, <2>5 DEF FanOut, OfKind
  <2>6. ASSUME NEW o \in b.obs, o.kind = "mark_duplicate", o.target = m
        PROVE  o.ref \notin Named(c, b)
    BY <2>1, <2>2, <2>3, <2>6 DEF FanOut, OfKind
  <2>7. m \notin FanOut(Named(c, b), b.obs)
    BY <2>4, <2>5, <2>6 DEF FanOut, OfKind
  <2>8. m \in DOMAIN rows /\ rows[m] = Replay(b)[m]
    BY <1>1, <2>7 DEF Covers
  <2> QED
    BY <1>5, <2>8
<1> QED
  BY <1>4, <1>5
-----------------------------------------------------------------------------
(* Type correctness *)

File(R) == [readable : BOOLEAN, tip : Commit \cup {Unset}, rows : R]

\* The files are a sequence of records, and what was read is on the branch.
TypeInv ==
    /\ TypeOK
    /\ \E R : files \in Seq(File(R))
    /\ \A p \in Processes : got[p].mems \subseteq branch.mems

\* One file is replaced.
LEMMA FileReplaced ==
    ASSUME NEW R, files \in Seq(File(R)), NEW f \in 1 .. Len(files),
           NEW Q, NEW file \in File(Q), files' = [files EXCEPT ![f] = file]
    PROVE  /\ \E T : files' \in Seq(File(T))
           /\ Len(files') = Len(files)
           /\ DOMAIN files = 1 .. Len(files) /\ DOMAIN files' = DOMAIN files
           /\ files'[f] = file
           /\ \A g \in DOMAIN files : g # f => files'[g] = files[g]
<1> DEFINE T == R \cup Q
<1>1. File(R) \subseteq File(T) /\ file \in File(T)
  BY DEF File
<1> HIDE DEF T
<1>2. files \in Seq(File(T))
  BY <1>1, SeqMonotonic
<1>3. /\ files' \in Seq(File(T))
      /\ Len(files') = Len(files)
      /\ \A g \in 1 .. Len(files) : files'[g] = IF g = f THEN file ELSE files[g]
  BY <1>1, <1>2, ExceptSeq
<1>4. DOMAIN files = 1 .. Len(files) /\ DOMAIN files' = 1 .. Len(files')
  BY <1>2, <1>3, LenProperties
<1> QED
  BY <1>3, <1>4

\* One file is created.
LEMMA FileAppended ==
    ASSUME NEW R, files \in Seq(File(R)), NEW Q, NEW file \in File(Q),
           files' = Append(files, file)
    PROVE  /\ \E T : files' \in Seq(File(T))
           /\ Len(files) \in Nat /\ Len(files') = Len(files) + 1
           /\ DOMAIN files = 1 .. Len(files) /\ DOMAIN files' = 1 .. Len(files')
           /\ files'[Len(files')] = file
           /\ \A g \in DOMAIN files : files'[g] = files[g]
<1> DEFINE T == R \cup Q
<1>1. File(R) \subseteq File(T) /\ file \in File(T)
  BY DEF File
<1> HIDE DEF T
<1>2. files \in Seq(File(T))
  BY <1>1, SeqMonotonic
<1>3. files' \in Seq(File(T)) /\ Len(files) \in Nat
  BY <1>1, <1>2, LenProperties
<1>4. /\ Len(files') = Len(files) + 1
      /\ files'[Len(files) + 1] = file
      /\ \A g \in 1 .. Len(files) : files'[g] = files[g]
  BY <1>1, <1>2
<1>5. DOMAIN files = 1 .. Len(files) /\ DOMAIN files' = 1 .. Len(files')
  BY <1>2, <1>3, LenProperties
<1> QED
  BY <1>3, <1>4, <1>5

LEMMA InitTypes == Init => TypeInv
<1> SUFFICES ASSUME Init PROVE TypeInv
  OBVIOUS
<1>1. NoCommit \in Commit /\ 1 \in 1 .. Len(Policies)
  BY IndexAssumption DEF NoCommit, Commit
<1>2. files \in Seq(File({})) /\ Len(files) = 0 /\ DOMAIN files = {}
  <2>1. files \in Seq(File({})) /\ Len(files) = 0
    BY EmptySeq DEF Init
  <2>2. DOMAIN files = 1 .. Len(files)
    BY <2>1, LenProperties
  <2> QED
    BY <2>1, <2>2
<1>3. \A f \in DOMAIN files : FALSE
  BY <1>2
<1>4. TypeOK
  BY <1>1, <1>2, <1>3 DEF Init, TypeOK, PcValues
<1>5. \A p \in Processes : got[p].mems \subseteq branch.mems
  BY DEF Init
<1> QED
  BY <1>2, <1>4, <1>5 DEF TypeInv

LEMMA AdvanceTypes ==
    ASSUME TypeInv, Advance
    PROVE  TypeInv' /\ UpTo(branch, branch') /\ branch' \in Commit
<1>1. UNCHANGED <<files, pc, handle, opening, old, new, got>>
  BY DEF Advance, locals
<1>2. branch \in Commit
  BY DEF TypeInv, TypeOK
<1>3. branch' \in Commit /\ UpTo(branch, branch')
  <2>1. ASSUME NEW m \in Memories, branch' = [branch EXCEPT !.mems = @ \cup {m}]
        PROVE  branch' \in Commit /\ UpTo(branch, branch')
    BY <1>2, <2>1 DEF Commit, UpTo
  <2>2. ASSUME NEW o \in Feed, branch' = [branch EXCEPT !.obs = @ \cup {o}]
        PROVE  branch' \in Commit /\ UpTo(branch, branch')
    BY <1>2, <2>2 DEF Commit, UpTo
  <2>3. ASSUME branch.version < Len(Policies), branch' = [branch EXCEPT !.version = @ + 1]
        PROVE  branch' \in Commit /\ UpTo(branch, branch')
    BY <1>2, <2>3, IndexAssumption DEF Commit, UpTo
  <2> QED
    BY <2>1, <2>2, <2>3 DEF Advance
<1>4. \A f \in DOMAIN files : DOMAIN files[f].rows \subseteq branch'.mems
  BY <1>3 DEF TypeInv, TypeOK, UpTo
<1>5. \A p \in Processes : got[p].mems \subseteq branch'.mems
  BY <1>3 DEF TypeInv, UpTo
<1>6. TypeOK'
  BY <1>1, <1>3, <1>4 DEF TypeInv, TypeOK, Commit
<1> QED
  BY <1>1, <1>3, <1>5, <1>6 DEF TypeInv

\* A file becomes readable or unreadable.
LEMMA FileMarked ==
    ASSUME TypeInv, NEW n \in 1 .. Len(files), NEW good \in BOOLEAN,
           files' = [files EXCEPT ![n].readable = good]
    PROVE  /\ \E T : files' \in Seq(File(T))
           /\ Len(files') = Len(files) /\ DOMAIN files' = DOMAIN files
           /\ \A f \in DOMAIN files : /\ files'[f].tip = files[f].tip
                                      /\ files'[f].rows = files[f].rows
                                      /\ files'[f].readable \in BOOLEAN
<1>1. PICK R : files \in Seq(File(R))
  BY DEF TypeInv
<1> DEFINE file == [files[n] EXCEPT !.readable = good]
<1>2. files[n] \in File(R)
  BY <1>1, ElementOfSeq
<1>3. /\ file \in File(R) /\ file.readable = good
      /\ file.tip = files[n].tip /\ file.rows = files[n].rows
  BY <1>2 DEF File
<1>4. files' = [files EXCEPT ![n] = file]
  OBVIOUS
<1> HIDE DEF file
<1>5. /\ \E T : files' \in Seq(File(T))
      /\ Len(files') = Len(files)
      /\ DOMAIN files = 1 .. Len(files) /\ DOMAIN files' = DOMAIN files
      /\ files'[n] = file
      /\ \A g \in DOMAIN files : g # n => files'[g] = files[g]
  BY <1>1, <1>3, <1>4, FileReplaced
<1> QED
  BY <1>3, <1>5 DEF TypeInv, TypeOK

\* There are as many files as the sequence is long.
LEMMA FilesCounted ==
    ASSUME TypeInv
    PROVE  /\ Len(files) \in Nat /\ DOMAIN files = 1 .. Len(files)
           /\ files # <<>> <=> Len(files) # 0
<1>1. PICK R : files \in Seq(File(R))
  BY DEF TypeInv
<1> QED
  BY <1>1, EmptySeq, LenProperties

LEMMA DamageTypes ==
    ASSUME TypeInv, Damage
    PROVE  /\ TypeInv'
           /\ UNCHANGED <<branch, pc, handle, opening, old, new, got>>
           /\ DOMAIN files' = DOMAIN files
           /\ \A f \in DOMAIN files : /\ files'[f].tip = files[f].tip
                                      /\ files'[f].rows = files[f].rows
<1>1. UNCHANGED <<branch, pc, handle, opening, old, new, got>>
  BY DEF Damage, locals
<1>2. Len(files) \in 1 .. Len(files) /\ files # <<>>
  BY FilesCounted DEF Damage, FoundGood
<1>3. files' = [files EXCEPT ![Len(files)].readable = FALSE]
  BY DEF Damage
<1>4. /\ \E T : files' \in Seq(File(T))
      /\ Len(files') = Len(files) /\ DOMAIN files' = DOMAIN files
      /\ \A f \in DOMAIN files : /\ files'[f].tip = files[f].tip
                                 /\ files'[f].rows = files[f].rows
                                 /\ files'[f].readable \in BOOLEAN
  BY <1>2, <1>3, FileMarked
<1>5. files' # <<>>
  BY <1>2, <1>4, FilesCounted, EmptySeq
<1>6. TypeOK'
  BY <1>1, <1>4, <1>5 DEF TypeInv, TypeOK
<1> QED
  BY <1>1, <1>4, <1>6 DEF TypeInv

\* A running process has a file of the sequence open.
LEMMA HandleInFiles ==
    ASSUME TypeInv, NEW p \in Processes, pc[p] \notin {"idle", "remove", "create"}
    PROVE  /\ handle[p] \in 1 .. Len(files) /\ handle[p] \in DOMAIN files
           /\ files[handle[p]].tip \in Commit \cup {Unset}
<1>1. PICK R : files \in Seq(File(R))
  BY DEF TypeInv
<1>2. Len(files) \in Nat /\ DOMAIN files = 1 .. Len(files)
  BY <1>1, LenProperties
<1>3. handle[p] \in 0 .. Len(files) /\ handle[p] # 0
  BY DEF TypeInv, TypeOK
<1> QED
  BY <1>2, <1>3 DEF TypeInv, TypeOK

\* The steps that write no file.
Reads(p) ==
    \/ OpenExisting(p) \/ OpenBad(p) \/ CreateFile(p) \/ UpdateAgain(p) \/ StoredTip(p)
    \/ UpToDate(p) \/ PolicyChanged(p) \/ ChangedSince(p) \/ ReadMemories(p)
    \/ ReadObservations(p) \/ ReadPolicy(p) \/ ReadTip(p) \/ Abort(p)

LEMMA ReadTypes ==
    ASSUME TypeInv, NEW p \in Processes, Reads(p)
    PROVE  TypeInv' /\ UNCHANGED <<branch, files>>
<1> USE DEF Goto
<1>1. NoCommit \in Commit
  BY IndexAssumption DEF NoCommit, Commit
<1>2. UNCHANGED <<branch, files>>
  BY DEF Reads, OpenExisting, OpenBad, CreateFile, UpdateAgain, StoredTip, UpToDate, PolicyChanged,
         ChangedSince, ReadMemories, ReadObservations, ReadPolicy, ReadTip, Abort
<1>3. branch \in Commit /\ \A c \in Commit : /\ [c EXCEPT !.mems = branch.mems] \in Commit
                                            /\ [c EXCEPT !.obs = branch.obs] \in Commit
                                            /\ [c EXCEPT !.version = branch.version] \in Commit
  BY DEF TypeInv, TypeOK, Commit
<1> DEFINE Locals == /\ pc \in [Processes -> PcValues]
                     /\ handle \in [Processes -> 0 .. Len(files)]
                     /\ \A r \in Processes :
                           /\ pc[r] \notin {"idle", "remove", "create"} => handle[r] # 0
                           /\ pc[r] = "create" => files # <<>>
                     /\ opening \in [Processes -> BOOLEAN]
                     /\ old \in [Processes -> Commit \cup {Unset}]
                     /\ new \in [Processes -> Commit \cup {Unset}]
                     /\ got \in [Processes -> Commit]
                     /\ \A r \in Processes : got[r].mems \subseteq branch.mems
<1>4. Locals
  BY DEF TypeInv, TypeOK
<1>5. Locals'
  <2> USE <1>2, <1>4 DEF PcValues
  <2>1. CASE OpenExisting(p)
    <3>1. Len(files) \in Nat \ {0}
      BY <2>1, FilesCounted DEF OpenExisting, FoundGood
    <3> QED
      BY <2>1, <3>1 DEF OpenExisting
  <2>2. CASE OpenBad(p)
    BY <2>2 DEF OpenBad
  <2>12. CASE CreateFile(p)
    <3>1. Len(files) \in Nat \ {0}
      BY <2>12, FilesCounted DEF CreateFile
    <3> QED
      BY <2>12, <3>1 DEF CreateFile
  <2>3. CASE UpdateAgain(p)
    BY <2>3 DEF UpdateAgain
  <2>4. CASE StoredTip(p)
    <3>1. files[handle[p]].tip \in Commit \cup {Unset}
      BY <2>4, HandleInFiles DEF StoredTip
    <3> QED
      BY <2>4, <3>1 DEF StoredTip
  <2>5. CASE PolicyChanged(p)
    BY <2>5 DEF PolicyChanged
  <2>6. CASE ChangedSince(p)
    BY <1>3, <2>6 DEF ChangedSince
  <2>7. CASE ReadMemories(p)
    <3>1. got'[p] = [got[p] EXCEPT !.mems = branch.mems]
      BY <2>7 DEF ReadMemories
    <3>2. got'[p].mems = branch.mems
      BY <3>1 DEF Commit
    <3>3. got' \in [Processes -> Commit]
      BY <1>3, <2>7 DEF ReadMemories
    <3>4. \A r \in Processes : got'[r].mems \subseteq branch.mems
      BY <2>7, <3>2 DEF ReadMemories
    <3> QED
      BY <2>7, <3>3, <3>4 DEF ReadMemories
  <2>8. CASE ReadObservations(p)
    <3>1. got'[p] = [got[p] EXCEPT !.obs = branch.obs]
      BY <2>8 DEF ReadObservations
    <3>2. got'[p].mems = got[p].mems
      BY <3>1 DEF Commit
    <3>3. got' \in [Processes -> Commit]
      BY <1>3, <2>8 DEF ReadObservations
    <3>4. \A r \in Processes : got'[r].mems \subseteq branch.mems
      BY <2>8, <3>2 DEF ReadObservations
    <3> QED
      BY <2>8, <3>3, <3>4 DEF ReadObservations
  <2>9. CASE ReadPolicy(p)
    <3>1. got'[p] = [got[p] EXCEPT !.version = branch.version]
      BY <2>9 DEF ReadPolicy
    <3>2. got'[p].mems = got[p].mems
      BY <3>1 DEF Commit
    <3>3. got' \in [Processes -> Commit]
      BY <1>3, <2>9 DEF ReadPolicy
    <3>4. \A r \in Processes : got'[r].mems \subseteq branch.mems
      BY <2>9, <3>2 DEF ReadPolicy
    <3> QED
      BY <2>9, <3>3, <3>4 DEF ReadPolicy
  <2>10. CASE ReadTip(p)
    BY <1>3, <2>10 DEF ReadTip
  <2>11. CASE Return(p)
    <3>1. NoCommit.mems = {}
      BY DEF NoCommit
    <3> QED
      BY <1>1, <2>11, <3>1 DEF Return
  <2> QED
    BY <2>1, <2>2, <2>3, <2>4, <2>5, <2>6, <2>7, <2>8, <2>9, <2>10, <2>11, <2>12
       DEF Reads, UpToDate, Abort
<1>6. TypeOK'
  BY <1>2, <1>5 DEF TypeInv, TypeOK
<1> QED
  BY <1>2, <1>5, <1>6 DEF TypeInv

LEMMA RemoveTypes ==
    ASSUME TypeInv, NEW p \in Processes, RemoveFile(p)
    PROVE  /\ TypeInv'
           /\ UNCHANGED <<branch, old, new, got>>
           /\ Len(files) \in Nat /\ Len(files') = Len(files) + 1
           /\ DOMAIN files = 1 .. Len(files) /\ DOMAIN files' = 1 .. Len(files')
           /\ files'[Len(files')] = NewFile
           /\ \A f \in DOMAIN files : files'[f] = files[f]
<1> USE DEF Goto
<1>1. PICK R : files \in Seq(File(R))
  BY DEF TypeInv
<1>2. NewFile \in File({<<>>}) /\ files' = Append(files, NewFile)
  BY DEF NewFile, File, RemoveFile
<1>3. /\ \E T : files' \in Seq(File(T))
      /\ Len(files) \in Nat /\ Len(files') = Len(files) + 1
      /\ DOMAIN files = 1 .. Len(files) /\ DOMAIN files' = 1 .. Len(files')
      /\ files'[Len(files')] = NewFile
      /\ \A f \in DOMAIN files : files'[f] = files[f]
  BY <1>1, <1>2, FileAppended
<1>4. UNCHANGED <<branch, old, new, got>>
  BY DEF RemoveFile
<1>5. /\ NewFile.readable \in BOOLEAN
      /\ NewFile.tip \in Commit \cup {Unset}
      /\ DOMAIN NewFile.rows = {}
  <2>1. <<>> \in Seq({}) /\ Len(<<>>) = 0
    BY EmptySeq
  <2>2. DOMAIN <<>> = 1 .. 0
    BY <2>1, LenProperties
  <2>3. DOMAIN <<>> = {}
    BY <2>2
  <2> QED
    BY <2>3 DEF NewFile
<1>6. \A f \in DOMAIN files' : /\ files'[f].readable \in BOOLEAN
                              /\ files'[f].tip \in Commit \cup {Unset}
                              /\ DOMAIN files'[f].rows \subseteq branch.mems
  <2>1. \A f \in DOMAIN files' : f \in DOMAIN files \/ f = Len(files')
    BY <1>3
  <2> QED
    BY <1>3, <1>5, <2>1 DEF TypeInv, TypeOK
<1>7. /\ pc' \in [Processes -> PcValues]
      /\ handle' \in [Processes -> 0 .. Len(files')]
      /\ \A r \in Processes : pc'[r] \notin {"idle", "remove", "create"} => handle'[r] # 0
      /\ opening' \in [Processes -> BOOLEAN]
  BY <1>3 DEF TypeInv, TypeOK, PcValues, RemoveFile
<1>8. files' # <<>>
  BY <1>3, EmptySeq
<1>9. TypeOK'
  BY <1>4, <1>6, <1>7, <1>8 DEF TypeInv, TypeOK
<1> QED
  BY <1>3, <1>4, <1>9 DEF TypeInv

LEMMA SchemaTypes ==
    ASSUME TypeInv, NEW p \in Processes, CreateSchema(p)
    PROVE  /\ TypeInv'
           /\ UNCHANGED <<branch, handle, old, new, got>>
           /\ DOMAIN files' = DOMAIN files
           /\ \A f \in DOMAIN files : /\ files'[f].tip = files[f].tip
                                      /\ files'[f].rows = files[f].rows
<1> USE DEF Goto
<1>1. handle[p] \in 1 .. Len(files) /\ files # <<>>
  BY HandleInFiles, FilesCounted DEF CreateSchema
<1>2. files' = [files EXCEPT ![handle[p]].readable = TRUE]
  BY DEF CreateSchema
<1>3. /\ \E T : files' \in Seq(File(T))
      /\ Len(files') = Len(files) /\ DOMAIN files' = DOMAIN files
      /\ \A f \in DOMAIN files : /\ files'[f].tip = files[f].tip
                                 /\ files'[f].rows = files[f].rows
                                 /\ files'[f].readable \in BOOLEAN
  BY <1>1, <1>2, FileMarked
<1>4. files' # <<>>
  BY <1>1, <1>3, FilesCounted, EmptySeq
<1>5. /\ UNCHANGED <<branch, handle, old, new, got>>
      /\ pc' \in [Processes -> PcValues]
      /\ opening' \in [Processes -> BOOLEAN]
      /\ \A r \in Processes : pc'[r] \notin {"idle", "remove", "create"} => handle'[r] # 0
  BY <1>1 DEF CreateSchema, TypeInv, TypeOK, PcValues
<1>6. TypeOK'
  BY <1>3, <1>4, <1>5 DEF TypeInv, TypeOK
<1> QED
  BY <1>3, <1>5, <1>6 DEF TypeInv

\* What the two transactions have in common.
LEMMA WriteTypes ==
    ASSUME TypeInv, NEW p \in Processes, pc[p] \in {"write", "rebuild"},
           NEW rows, DOMAIN rows \subseteq branch.mems,
           files' = [files EXCEPT ![handle[p]] =
                        [readable |-> TRUE, tip |-> new[p], rows |-> rows]],
           UNCHANGED <<branch, handle>>,
           pc' = [pc EXCEPT ![p] = pc'[p]], pc'[p] \in {"idle", "update"},
           old' = [old EXCEPT ![p] = Unset], new' = [new EXCEPT ![p] = Unset],
           got' = [got EXCEPT ![p] = NoCommit], opening' = [opening EXCEPT ![p] = FALSE]
    PROVE  /\ TypeInv'
           /\ DOMAIN files' = DOMAIN files /\ handle[p] \in DOMAIN files
           /\ files'[handle[p]] = [readable |-> TRUE, tip |-> new[p], rows |-> rows]
           /\ \A f \in DOMAIN files : f # handle[p] => files'[f] = files[f]
<1>1. PICK R : files \in Seq(File(R))
  BY DEF TypeInv
<1>2. handle[p] \in 1 .. Len(files) /\ handle[p] \in DOMAIN files
  BY HandleInFiles
<1> DEFINE file == [readable |-> TRUE, tip |-> new[p], rows |-> rows]
<1>3. file \in File({rows})
  BY DEF File, TypeInv, TypeOK
<1>4. file.readable = TRUE /\ file.tip = new[p] /\ file.rows = rows
  OBVIOUS
<1> HIDE DEF file
<1>5. files' = [files EXCEPT ![handle[p]] = file]
  BY DEF file
<1>6. /\ \E T : files' \in Seq(File(T))
      /\ Len(files') = Len(files)
      /\ DOMAIN files' = DOMAIN files
      /\ files'[handle[p]] = file
      /\ \A f \in DOMAIN files : f # handle[p] => files'[f] = files[f]
  BY <1>1, <1>2, <1>3, <1>5, FileReplaced
<1>7. \A f \in DOMAIN files' : /\ files'[f].readable \in BOOLEAN
                              /\ files'[f].tip \in Commit \cup {Unset}
                              /\ DOMAIN files'[f].rows \subseteq branch.mems
  BY <1>4, <1>6 DEF TypeInv, TypeOK
<1>8. NoCommit \in Commit /\ NoCommit.mems = {}
  BY IndexAssumption DEF NoCommit, Commit
<1>9. /\ pc' \in [Processes -> PcValues]
      /\ \A r \in Processes : /\ pc'[r] \notin {"idle", "remove", "create"} => handle'[r] # 0
                              /\ pc'[r] = "create" => files' # <<>>
      /\ opening' \in [Processes -> BOOLEAN]
      /\ old' \in [Processes -> Commit \cup {Unset}]
      /\ new' \in [Processes -> Commit \cup {Unset}]
      /\ got' \in [Processes -> Commit]
      /\ \A r \in Processes : got'[r].mems \subseteq branch.mems
  <2>1. files' # <<>>
    <3>1. files # <<>> /\ Len(files) # 0
      BY <1>2, FilesCounted
    <3> QED
      BY <1>6, <3>1, EmptySeq
  <2>2. pc' \in [Processes -> PcValues] /\ opening' \in [Processes -> BOOLEAN]
    BY DEF TypeInv, TypeOK, PcValues
  <2>3. \A r \in Processes : pc'[r] \notin {"idle", "remove", "create"} => handle'[r] # 0
    BY DEF TypeInv, TypeOK
  <2>4. /\ old' \in [Processes -> Commit \cup {Unset}]
        /\ new' \in [Processes -> Commit \cup {Unset}]
        /\ got' \in [Processes -> Commit]
        /\ \A r \in Processes : got'[r].mems \subseteq branch.mems
    BY <1>8 DEF TypeInv, TypeOK
  <2> QED
    BY <2>1, <2>2, <2>3, <2>4
<1>10. TypeOK'
  BY <1>6, <1>7, <1>9 DEF TypeInv, TypeOK
<1> QED
  BY <1>2, <1>6, <1>9, <1>10 DEF TypeInv, file

LEMMA WriteRowsTypes ==
    ASSUME TypeInv, NEW p \in Processes, WriteRows(p)
    PROVE  LET rows == [m \in DOMAIN files[handle[p]].rows \cup Affected(p) |->
                          IF m \in Affected(p) THEN Replay(got[p])[m]
                          ELSE files[handle[p]].rows[m]]
           IN  /\ TypeInv' /\ UNCHANGED branch
               /\ DOMAIN files' = DOMAIN files /\ handle[p] \in DOMAIN files
               /\ files'[handle[p]] = [readable |-> TRUE, tip |-> new[p], rows |-> rows]
               /\ \A f \in DOMAIN files : f # handle[p] => files'[f] = files[f]
<1> DEFINE rows == [m \in DOMAIN files[handle[p]].rows \cup Affected(p) |->
                      IF m \in Affected(p) THEN Replay(got[p])[m]
                      ELSE files[handle[p]].rows[m]]
<1>1. files' = [files EXCEPT ![handle[p]] = [readable |-> TRUE, tip |-> new[p], rows |-> rows]]
  BY DEF WriteRows
<1>2. DOMAIN rows \subseteq branch.mems
  <2>1. handle[p] \in DOMAIN files
    BY HandleInFiles DEF WriteRows
  <2>2. DOMAIN files[handle[p]].rows \subseteq branch.mems
    BY <2>1 DEF TypeInv, TypeOK
  <2> QED
    BY <2>2 DEF Affected
<1>3. /\ pc[p] = "write" /\ UNCHANGED <<branch, handle>>
      /\ pc' = [pc EXCEPT ![p] = "idle"]
      /\ old' = [old EXCEPT ![p] = Unset] /\ new' = [new EXCEPT ![p] = Unset]
      /\ got' = [got EXCEPT ![p] = NoCommit] /\ opening' = [opening EXCEPT ![p] = FALSE]
  BY DEF WriteRows, Return, Goto
<1>4. pc'[p] = "idle"
  BY <1>3 DEF TypeInv, TypeOK
<1> HIDE DEF rows
<1>5. /\ TypeInv'
      /\ DOMAIN files' = DOMAIN files /\ handle[p] \in DOMAIN files
      /\ files'[handle[p]] = [readable |-> TRUE, tip |-> new[p], rows |-> rows]
      /\ \A f \in DOMAIN files : f # handle[p] => files'[f] = files[f]
  BY <1>1, <1>2, <1>3, <1>4, WriteTypes
<1> QED
  BY <1>3, <1>5 DEF rows

LEMMA RebuildTypes ==
    ASSUME TypeInv, NEW p \in Processes, Rebuild(p)
    PROVE  /\ TypeInv' /\ UNCHANGED branch
           /\ DOMAIN files' = DOMAIN files /\ handle[p] \in DOMAIN files
           /\ files'[handle[p]] = [readable |-> TRUE, tip |-> new[p], rows |-> Replay(got[p])]
           /\ \A f \in DOMAIN files : f # handle[p] => files'[f] = files[f]
<1> DEFINE rows == Replay(got[p])
<1>1. files' = [files EXCEPT ![handle[p]] = [readable |-> TRUE, tip |-> new[p], rows |-> rows]]
  BY DEF Rebuild
<1>2. DOMAIN rows \subseteq branch.mems
  BY DEF Replay, TypeInv
<1>3. /\ pc[p] = "rebuild" /\ UNCHANGED <<branch, handle>>
      /\ \/ pc' = [pc EXCEPT ![p] = "idle"]
         \/ pc' = [pc EXCEPT ![p] = "update"]
      /\ old' = [old EXCEPT ![p] = Unset] /\ new' = [new EXCEPT ![p] = Unset]
      /\ got' = [got EXCEPT ![p] = NoCommit] /\ opening' = [opening EXCEPT ![p] = FALSE]
  BY DEF Rebuild, Return, Goto
<1>4. pc' = [pc EXCEPT ![p] = pc'[p]] /\ pc'[p] \in {"idle", "update"}
  BY <1>3 DEF TypeInv, TypeOK
<1> HIDE DEF rows
<1>5. /\ TypeInv'
      /\ DOMAIN files' = DOMAIN files /\ handle[p] \in DOMAIN files
      /\ files'[handle[p]] = [readable |-> TRUE, tip |-> new[p], rows |-> rows]
      /\ \A f \in DOMAIN files : f # handle[p] => files'[f] = files[f]
  BY <1>1, <1>2, <1>3, <1>4, WriteTypes
<1> QED
  BY <1>3, <1>5 DEF rows

LEMMA NextTypes ==
    ASSUME TypeInv, [Next]_vars
    PROVE  TypeInv'
<1>1. CASE UNCHANGED vars
  BY <1>1 DEF vars, locals, TypeInv, TypeOK
<1>2. ASSUME NEW p \in Processes, Step(p) PROVE TypeInv'
  BY <1>2, ReadTypes, RemoveTypes, SchemaTypes, WriteRowsTypes, RebuildTypes DEF Step, Reads
<1> QED
  BY <1>1, <1>2, AdvanceTypes, DamageTypes DEF Next

LEMMA TypeInvariant == Spec => []TypeInv
<1>1. TypeInv /\ [Next]_vars => TypeInv'
  BY NextTypes
<1> QED
  BY InitTypes, <1>1, PTL DEF Spec

\* Every variable keeps its type, a running process has a file open, and a file
\* holds rows of memories on the branch only, whatever processes race.
THEOREM TypeCorrect == Spec => []TypeOK
<1>1. TypeInv => TypeOK
  BY DEF TypeInv
<1> QED
  BY TypeInvariant, <1>1, PTL
-----------------------------------------------------------------------------
(* Updates one at a time, replays on a resting branch *)

\* What a process knows of the branch, at every point of Open and Update.
Progress(p) ==
    /\ pc[p] \in {"idle", "remove", "create", "schema", "update", "changed", "tip"} => new[p] = Unset
    /\ pc[p] \in {"write", "rebuild"} => new[p] # Unset
    /\ pc[p] = "changed" => old[p] # Unset /\ files[handle[p]].tip = old[p]
    \* An incremental update.
    /\ (new[p] # Unset /\ pc[p] # "rebuild") =>
          /\ old[p] # Unset /\ files[handle[p]].tip = old[p]
          /\ old[p].version = new[p].version
          /\ UpTo(old[p], new[p]) /\ UpTo(new[p], branch)
          /\ pc[p] # "observations" =>
                new[p].obs \subseteq got[p].obs /\ got[p].obs \subseteq branch.obs
          /\ pc[p] \in {"memories", "write"} =>
                new[p].version <= got[p].version /\ got[p].version <= branch.version
          /\ pc[p] = "write" => new[p].mems \subseteq got[p].mems
    \* A replay.
    /\ Replaying(p) =>
          /\ got[p].mems = branch.mems
          /\ pc[p] # "observations" => got[p].obs = branch.obs
          /\ pc[p] = "tip" => got[p].version = branch.version
    /\ pc[p] = "rebuild" => got[p] = new[p] /\ UpTo(new[p], branch)

BranchInv == Ranked(branch.obs) /\ \A o \in branch.obs : o.target \in branch.mems

FilesInv ==
    \A f \in DOMAIN files :
       files[f].tip # Unset => /\ UpTo(files[f].tip, branch)
                               /\ Covers(files[f].rows, files[f].tip, branch)

Alone == \A p, q \in Processes : pc[p] # "idle" /\ pc[q] # "idle" => p = q

IInv ==
    /\ TypeInv
    /\ BranchInv
    /\ FilesInv
    /\ Alone
    /\ \A p \in Processes : Progress(p)

LEMMA BranchOnLedger ==
    ASSUME TypeOK, BranchInv
    PROVE  OnLedger(branch.mems, branch.obs)
<1>1. branch.obs \subseteq Feed
  BY DEF TypeOK, Commit
<1> QED
  BY <1>1, IndexAssumption DEF OnLedger, BranchInv

LEMMA CommitTypes ==
    ASSUME NEW c \in Commit
    PROVE  /\ c # Unset /\ c.version \in Nat
           /\ c.mems \in SUBSET Memories /\ c.obs \in SUBSET Feed
           /\ c = [mems |-> c.mems, obs |-> c.obs, version |-> c.version]
  BY IndexAssumption DEF Commit

LEMMA InitIndex == Init => IInv
<1> SUFFICES ASSUME Init PROVE IInv
  OBVIOUS
<1>1. TypeInv
  BY InitTypes
<1>2. BranchInv
  BY DEF Init, NoCommit, BranchInv, Ranked
<1>3. FilesInv
  <2>1. DOMAIN files = 1 .. 0
    BY EmptySeq, LenProperties DEF Init
  <2> QED
    BY <2>1 DEF FilesInv
<1>4. Alone /\ \A p \in Processes : Progress(p)
  BY DEF Init, Alone, Progress, Replaying
<1> QED
  BY <1>1, <1>2, <1>3, <1>4 DEF IInv

LEMMA AdvanceInv ==
    ASSUME QuietReplay, IInv, Advance
    PROVE  IInv'
<1>1. UNCHANGED <<files, pc, handle, opening, old, new, got>>
  BY DEF Advance, locals
<1>2. TypeInv' /\ UpTo(branch, branch') /\ branch' \in Commit /\ branch \in Commit
  BY AdvanceTypes DEF IInv, TypeInv, TypeOK
<1>3. BranchInv'
  <2>1. PICK n \in Nat : \A o \in branch.obs : o.id \in Nat /\ o.id <= n
    BY DEF IInv, BranchInv, Ranked
  <2>2. CASE branch'.obs = branch.obs
    BY <1>2, <2>1, <2>2 DEF IInv, BranchInv, Ranked, UpTo
  <2>3. ASSUME NEW o \in Feed, o.target \in branch.mems,
               branch' = [branch EXCEPT !.obs = @ \cup {o}]
        PROVE  BranchInv'
    <3>1. branch'.obs = branch.obs \cup {o} /\ branch'.mems = branch.mems
      BY <1>2, <2>3 DEF Commit
    <3>2. o.id \in Nat
      BY IndexAssumption
    <3>3. PICK k \in Nat : n <= k /\ o.id <= k
      BY <3>2
    <3>4. \A x \in branch'.obs : x.id \in Nat /\ x.id <= k
      BY <2>1, <3>1, <3>2, <3>3
    <3> QED
      BY <2>3, <3>1, <3>4 DEF IInv, BranchInv, Ranked
  <2>4. \A m : branch' = [branch EXCEPT !.mems = @ \cup {m}] => branch'.obs = branch.obs
    BY <1>2 DEF Commit
  <2>5. branch' = [branch EXCEPT !.version = @ + 1] => branch'.obs = branch.obs
    BY <1>2 DEF Commit
  <2> QED
    BY <2>2, <2>3, <2>4, <2>5 DEF Advance
<1>4. OnLedger(branch'.mems, branch'.obs)
  <2>1. \A o \in branch'.obs : o \in Feed
    BY <1>2 DEF Commit
  <2> QED
    BY <1>3, <2>1, IndexAssumption DEF OnLedger, BranchInv, Ranked
<1>5. FilesInv'
  <2>1. SUFFICES ASSUME NEW f \in DOMAIN files, files[f].tip # Unset
                 PROVE  /\ UpTo(files[f].tip, branch')
                        /\ Covers(files[f].rows, files[f].tip, branch')
    BY <1>1 DEF FilesInv
  <2>2. /\ UpTo(files[f].tip, branch)
        /\ Covers(files[f].rows, files[f].tip, branch)
        /\ files[f].tip \in Commit
    BY <2>1 DEF IInv, FilesInv, TypeInv, TypeOK
  <2>3. files[f].tip.version \in Nat /\ branch.version \in Nat /\ branch'.version \in Nat
    BY <1>2, <2>2, CommitTypes
  <2>4. UpTo(files[f].tip, branch')
    BY <1>2, <2>2, <2>3 DEF UpTo
  <2> QED
    BY <1>2, <1>4, <2>2, <2>3, <2>4, GrowthCovered
<1>6. ASSUME NEW p \in Processes PROVE Progress(p)'
  <2>1. Progress(p) /\ ~Replaying(p)
    BY DEF IInv, Advance
  <2>2. new[p] # Unset => new[p].version \in Nat
    BY CommitTypes DEF IInv, TypeInv, TypeOK
  <2>3. branch.version \in Nat /\ branch'.version \in Nat /\ got[p].version \in Nat
    BY <1>2, CommitTypes DEF IInv, TypeInv, TypeOK
  <2> QED
    BY <1>1, <1>2, <2>1, <2>2, <2>3 DEF Progress, Replaying, UpTo
<1>7. Alone'
  BY <1>1 DEF IInv, Alone
<1> QED
  BY <1>2, <1>3, <1>5, <1>6, <1>7 DEF IInv

LEMMA DamageInv ==
    ASSUME IInv, Damage
    PROVE  IInv'
<1>1. /\ TypeInv'
      /\ UNCHANGED <<branch, pc, handle, opening, old, new, got>>
      /\ DOMAIN files' = DOMAIN files
      /\ \A f \in DOMAIN files : /\ files'[f].tip = files[f].tip
                                 /\ files'[f].rows = files[f].rows
  BY DamageTypes DEF IInv
<1>2. BranchInv' /\ FilesInv' /\ Alone'
  BY <1>1 DEF IInv, BranchInv, FilesInv, Alone
<1>3. ASSUME NEW p \in Processes PROVE Progress(p)'
  <2>1. CASE pc[p] \in {"idle", "remove", "create"}
    BY <1>1, <2>1 DEF IInv, Progress, Replaying
  <2>2. CASE pc[p] \notin {"idle", "remove", "create"}
    <3>1. handle[p] \in DOMAIN files
      BY <2>2, HandleInFiles DEF IInv
    <3> QED
      BY <1>1, <3>1 DEF IInv, Progress, Replaying
  <2> QED
    BY <2>1, <2>2
<1> QED
  BY <1>1, <1>2, <1>3 DEF IInv
\* Only p moves: nobody else is at work, and p was alone before.
LEMMA OthersRest ==
    ASSUME Serial, IInv, NEW p \in Processes, MayStart(p) \/ pc[p] # "idle",
           \A q \in Processes \ {p} : pc'[q] = pc[q] /\ new'[q] = new[q]
    PROVE  Alone' /\ \A q \in Processes \ {p} : Progress(q)'
<1>1. \A q \in Processes \ {p} : pc[q] = "idle"
  BY DEF IInv, Alone, MayStart, Updating
<1>2. \A q \in Processes \ {p} : pc'[q] = "idle" /\ new'[q] = Unset
  BY <1>1 DEF IInv, Progress
<1> QED
  BY <1>1, <1>2 DEF Alone, Progress, Replaying

LEMMA ReadInv ==
    ASSUME Serial, IInv, NEW p \in Processes, Reads(p)
    PROVE  IInv'
<1> USE DEF Goto
<1>1. TypeInv' /\ UNCHANGED <<branch, files>>
  BY ReadTypes DEF IInv
<1>2. BranchInv' /\ FilesInv'
  BY <1>1 DEF IInv, BranchInv, FilesInv
<1>3. /\ pc \in [Processes -> PcValues] /\ handle \in [Processes -> 0 .. Len(files)]
      /\ old \in [Processes -> Commit \cup {Unset}] /\ new \in [Processes -> Commit \cup {Unset}]
      /\ got \in [Processes -> Commit] /\ branch \in Commit
      /\ Progress(p)
  BY DEF IInv, TypeInv, TypeOK
<1>4. branch # Unset /\ branch.version \in Nat
      /\ (old[p] # Unset => old[p].version \in Nat)
      /\ (new[p] # Unset => new[p].version \in Nat)
  BY <1>3, CommitTypes
<1>5. /\ Progress(p)'
      /\ MayStart(p) \/ pc[p] # "idle"
      /\ \A q \in Processes \ {p} : pc'[q] = pc[q] /\ new'[q] = new[q]
  <2> USE <1>1, <1>3
  <2>1. CASE OpenExisting(p)
    BY <2>1 DEF OpenExisting, MayStart, Progress, Replaying
  <2>2. CASE OpenBad(p)
    BY <2>2 DEF OpenBad, MayStart, Progress, Replaying
  <2>12. CASE CreateFile(p)
    BY <2>12 DEF CreateFile, Progress, Replaying
  <2>3. CASE UpdateAgain(p)
    BY <2>3 DEF UpdateAgain, MayStart, Progress, Replaying
  <2>4. CASE StoredTip(p)
    BY <2>4 DEF StoredTip, Progress, Replaying
  <2>5. CASE PolicyChanged(p)
    BY <2>5 DEF PolicyChanged, Progress, Replaying
  <2>6. CASE ChangedSince(p)
    <3>1. handle[p] \in DOMAIN files
      BY <2>6, HandleInFiles DEF ChangedSince, IInv
    <3>2. old[p] # Unset /\ files[handle[p]].tip = old[p]
      BY <2>6 DEF ChangedSince, Progress
    <3>3. UpTo(old[p], branch)
      BY <3>1, <3>2 DEF IInv, FilesInv
    <3>4. UpTo(branch, branch)
      BY <1>4 DEF UpTo
    <3> QED
      BY <1>4, <2>6, <3>2, <3>3, <3>4 DEF ChangedSince, Progress, Replaying
  <2>7. CASE ReadMemories(p)
    <3>1. /\ got'[p].mems = branch.mems /\ got'[p].obs = got[p].obs
          /\ got'[p].version = got[p].version
      BY <2>7 DEF ReadMemories, Commit
    <3>2. /\ pc'[p] = IF new[p] = Unset THEN "observations" ELSE "write"
          /\ pc[p] = "memories" /\ new' = new /\ old' = old /\ handle' = handle
      BY <2>7 DEF ReadMemories
    <3> QED
      BY <2>7, <3>1, <3>2 DEF ReadMemories, Progress, Replaying, UpTo
  <2>8. CASE ReadObservations(p)
    <3>1. /\ got'[p].obs = branch.obs /\ got'[p].mems = got[p].mems
          /\ got'[p].version = got[p].version
      BY <2>8 DEF ReadObservations, Commit
    <3>2. /\ pc'[p] = "policy" /\ pc[p] = "observations"
          /\ new' = new /\ old' = old /\ handle' = handle
      BY <2>8 DEF ReadObservations
    <3> QED
      BY <2>8, <3>1, <3>2 DEF ReadObservations, Progress, Replaying, UpTo
  <2>9. CASE ReadPolicy(p)
    <3>1. /\ got'[p].version = branch.version /\ got'[p].mems = got[p].mems
          /\ got'[p].obs = got[p].obs
      BY <2>9 DEF ReadPolicy, Commit
    <3>2. /\ pc'[p] = IF new[p] = Unset THEN "tip" ELSE "memories"
          /\ pc[p] = "policy" /\ new' = new /\ old' = old /\ handle' = handle
      BY <2>9 DEF ReadPolicy
    <3> QED
      BY <1>4, <2>9, <3>1, <3>2 DEF ReadPolicy, Progress, Replaying, UpTo
  <2>10. CASE ReadTip(p)
    <3>1. new'[p] = branch /\ got'[p] = got[p] /\ pc'[p] = "rebuild" /\ pc[p] = "tip"
      BY <2>10 DEF ReadTip
    <3>2. got[p].mems = branch.mems /\ got[p].obs = branch.obs /\ got[p].version = branch.version
      BY <3>1 DEF Progress, Replaying
    <3>3. got[p] = branch
      BY <3>2, CommitTypes
    <3>4. UpTo(branch, branch)
      BY <1>4 DEF UpTo
    <3>5. Progress(p)'
      BY <1>4, <3>1, <3>3, <3>4 DEF Progress, Replaying
    <3> QED
      BY <2>10, <3>1, <3>5 DEF ReadTip
  <2>11. CASE UpToDate(p) \/ Abort(p)
    <3>1. pc[p] # "idle" /\ Return(p)
      BY <2>11 DEF UpToDate, Abort
    <3> QED
      BY <3>1 DEF Return, Progress, Replaying
  <2> QED
    BY <2>1, <2>2, <2>3, <2>4, <2>5, <2>6, <2>7, <2>8, <2>9, <2>10, <2>11, <2>12 DEF Reads
<1>6. Alone' /\ \A q \in Processes \ {p} : Progress(q)'
  BY <1>5, OthersRest
<1> QED
  BY <1>1, <1>2, <1>5, <1>6 DEF IInv

LEMMA RemoveInv ==
    ASSUME Serial, IInv, NEW p \in Processes, RemoveFile(p)
    PROVE  IInv'
<1> USE DEF Goto
<1>1. /\ TypeInv' /\ UNCHANGED <<branch, old, new, got>>
      /\ Len(files) \in Nat /\ Len(files') = Len(files) + 1
      /\ DOMAIN files = 1 .. Len(files) /\ DOMAIN files' = 1 .. Len(files')
      /\ files'[Len(files')] = NewFile
      /\ \A f \in DOMAIN files : files'[f] = files[f]
  BY RemoveTypes DEF IInv
<1>2. BranchInv'
  BY <1>1 DEF IInv, BranchInv
<1>3. FilesInv'
  <2>1. \A f \in DOMAIN files' : f \in DOMAIN files \/ f = Len(files')
    BY <1>1
  <2>2. NewFile.tip = Unset
    BY DEF NewFile
  <2> QED
    BY <1>1, <2>1, <2>2 DEF IInv, FilesInv
<1>4. /\ pc[p] = "remove" /\ pc'[p] = "create"
      /\ \A q \in Processes \ {p} : pc'[q] = pc[q]
  BY DEF IInv, TypeInv, TypeOK, RemoveFile
<1>5. Progress(p)'
  BY <1>1, <1>4 DEF IInv, Progress, Replaying
<1>6. Alone' /\ \A q \in Processes \ {p} : Progress(q)'
  BY <1>1, <1>4, OthersRest
<1> QED
  BY <1>1, <1>2, <1>3, <1>5, <1>6 DEF IInv

LEMMA SchemaInv ==
    ASSUME Serial, IInv, NEW p \in Processes, CreateSchema(p)
    PROVE  IInv'
<1> USE DEF Goto
<1>1. /\ TypeInv'
      /\ UNCHANGED <<branch, handle, old, new, got>>
      /\ DOMAIN files' = DOMAIN files
      /\ \A f \in DOMAIN files : /\ files'[f].tip = files[f].tip
                                 /\ files'[f].rows = files[f].rows
  BY SchemaTypes DEF IInv
<1>2. BranchInv' /\ FilesInv'
  BY <1>1 DEF IInv, BranchInv, FilesInv
<1>3. /\ pc[p] = "schema" /\ pc'[p] = "memories"
      /\ \A q \in Processes \ {p} : pc'[q] = pc[q]
  BY DEF IInv, TypeInv, TypeOK, CreateSchema
<1>4. Progress(p)'
  BY <1>1, <1>3 DEF IInv, Progress, Replaying
<1>5. Alone' /\ \A q \in Processes \ {p} : Progress(q)'
  BY <1>1, <1>3, OthersRest
<1> QED
  BY <1>1, <1>2, <1>4, <1>5 DEF IInv

\* A transaction with covered rows keeps the invariant.
LEMMA WriteInv ==
    ASSUME Serial, IInv, NEW p \in Processes, pc[p] # "idle",
           TypeInv', UNCHANGED branch, DOMAIN files' = DOMAIN files,
           \A f \in DOMAIN files : f # handle[p] => files'[f] = files[f],
           UpTo(new[p], branch),
           NEW rows, files'[handle[p]] = [readable |-> TRUE, tip |-> new[p], rows |-> rows],
           Covers(rows, new[p], branch),
           pc'[p] \in {"idle", "update"}, new'[p] = Unset,
           \A q \in Processes \ {p} : pc'[q] = pc[q] /\ new'[q] = new[q]
    PROVE  IInv'
<1>1. BranchInv'
  BY DEF IInv, BranchInv
<1>2. FilesInv'
  <2>1. /\ files'[handle[p]].tip = new[p] /\ files'[handle[p]].rows = rows
    OBVIOUS
  <2> QED
    BY <2>1 DEF IInv, FilesInv
<1>3. Progress(p)'
  BY DEF Progress, Replaying
<1>4. Alone' /\ \A q \in Processes \ {p} : Progress(q)'
  BY OthersRest
<1> QED
  BY <1>1, <1>2, <1>3, <1>4 DEF IInv

LEMMA WriteRowsInv ==
    ASSUME Serial, IInv, NEW p \in Processes, WriteRows(p)
    PROVE  IInv'
<1> DEFINE rows == [m \in DOMAIN files[handle[p]].rows \cup Affected(p) |->
                      IF m \in Affected(p) THEN Replay(got[p])[m]
                      ELSE files[handle[p]].rows[m]]
<1>1. /\ TypeInv' /\ UNCHANGED branch
      /\ DOMAIN files' = DOMAIN files /\ handle[p] \in DOMAIN files
      /\ files'[handle[p]] = [readable |-> TRUE, tip |-> new[p], rows |-> rows]
      /\ \A f \in DOMAIN files : f # handle[p] => files'[f] = files[f]
  BY WriteRowsTypes DEF IInv
<1>2. pc[p] = "write" /\ Return(p)
  BY DEF WriteRows
<1>3. /\ new[p] # Unset /\ old[p] # Unset /\ files[handle[p]].tip = old[p]
      /\ old[p].version = new[p].version
      /\ UpTo(old[p], new[p]) /\ UpTo(new[p], branch)
      /\ new[p].obs \subseteq got[p].obs /\ got[p].obs \subseteq branch.obs
      /\ new[p].version <= got[p].version /\ got[p].version <= branch.version
      /\ new[p].mems \subseteq got[p].mems /\ got[p].mems \subseteq branch.mems
  BY <1>2 DEF IInv, Progress, TypeInv
<1>4. UpTo(new[p], got[p]) /\ UpTo(got[p], branch)
  BY <1>3 DEF UpTo
<1>5. new[p].version \in Nat /\ got[p].version \in Nat /\ branch.version \in Nat
  BY <1>3, CommitTypes DEF IInv, TypeInv, TypeOK
<1>6. OnLedger(branch.mems, branch.obs)
  BY BranchOnLedger DEF IInv, TypeInv
<1>7. Covers(files[handle[p]].rows, old[p], branch)
  BY <1>1, <1>3 DEF IInv, FilesInv
<1>8. Affected(p) = FanOut(Named(old[p], new[p]), got[p].obs) \cap branch.mems
  BY DEF Affected
<1>9. Covers(rows, new[p], branch)
  <2> DEFINE A == Affected(p)
             found == files[handle[p]].rows
  <2>1. A = FanOut(Named(old[p], new[p]), got[p].obs) \cap branch.mems
    BY <1>8
  <2>2. Covers(found, old[p], branch)
    BY <1>7
  <2>3. rows = [m \in DOMAIN found \cup A |-> IF m \in A THEN Replay(got[p])[m] ELSE found[m]]
    OBVIOUS
  <2> HIDE DEF A, found, rows
  <2>4. Covers([m \in DOMAIN found \cup A |->
                  IF m \in A THEN Replay(got[p])[m] ELSE found[m]], new[p], branch)
    BY <1>3, <1>4, <1>5, <1>6, <2>1, <2>2, UpdateCovered
  <2> QED
    BY <2>3, <2>4
<1>10. /\ pc'[p] \in {"idle", "update"} /\ new'[p] = Unset
       /\ \A q \in Processes \ {p} : pc'[q] = pc[q] /\ new'[q] = new[q]
  BY <1>2 DEF Return, Goto, IInv, TypeInv, TypeOK
<1> HIDE DEF rows
<1> QED
  BY <1>1, <1>2, <1>3, <1>9, <1>10, WriteInv

LEMMA RebuildInv ==
    ASSUME Serial, IInv, NEW p \in Processes, Rebuild(p)
    PROVE  IInv'
<1>1. /\ TypeInv' /\ UNCHANGED branch
      /\ DOMAIN files' = DOMAIN files /\ handle[p] \in DOMAIN files
      /\ files'[handle[p]] = [readable |-> TRUE, tip |-> new[p], rows |-> Replay(got[p])]
      /\ \A f \in DOMAIN files : f # handle[p] => files'[f] = files[f]
  BY RebuildTypes DEF IInv
<1>2. pc[p] = "rebuild"
  BY DEF Rebuild
<1>3. got[p] = new[p] /\ UpTo(new[p], branch)
  BY <1>2 DEF IInv, Progress
<1>4. OnLedger(branch.mems, branch.obs)
  BY BranchOnLedger DEF IInv, TypeInv
<1>5. Covers(Replay(got[p]), new[p], branch)
  BY <1>3, <1>4, RebuildCovered
<1>6. /\ pc'[p] \in {"idle", "update"} /\ new'[p] = Unset
      /\ \A q \in Processes \ {p} : pc'[q] = pc[q] /\ new'[q] = new[q]
  BY DEF Rebuild, Return, Goto, IInv, TypeInv, TypeOK
<1> QED
  BY <1>1, <1>2, <1>3, <1>5, <1>6, WriteInv

LEMMA NextIndex ==
    ASSUME Serial, QuietReplay, IInv, [Next]_vars
    PROVE  IInv'
<1>1. CASE UNCHANGED vars
  <2>1. TypeInv'
    BY <1>1, NextTypes DEF IInv
  <2> QED
    BY <1>1, <2>1 DEF vars, locals, IInv, BranchInv, FilesInv, Alone, Progress, Replaying
<1>2. ASSUME NEW p \in Processes, Step(p) PROVE IInv'
  BY <1>2, ReadInv, RemoveInv, SchemaInv, WriteRowsInv, RebuildInv DEF Step, Reads
<1> QED
  BY <1>1, <1>2, AdvanceInv, DamageInv DEF Next

\* While processes update the index one at a time and the branch rests during a
\* replay, whatever is appended or fetched between the reads of an incremental
\* update, wherever updates are cut off and whichever files are damaged and made
\* anew: a row that a full replay would give otherwise belongs to a memory that
\* the next Update derives again.
THEOREM IncrementalLosesNothing ==
    ASSUME Serial, QuietReplay
    PROVE  Spec => []StaleRowsAreDue
<1>1. IInv /\ [Next]_vars => IInv'
  BY NextIndex
<1>2. IInv => StaleRowsAreDue
  BY DEF IInv, FilesInv, Covers, StaleRowsAreDue
<1> QED
  BY InitIndex, <1>1, <1>2, PTL DEF Spec
=============================================================================

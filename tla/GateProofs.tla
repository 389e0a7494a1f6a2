----------------------------- MODULE GateProofs -----------------------------
(***************************************************************************)
(* Theorems about Gate: what opens the gate, what keeps it open, and which  *)
(* requirements it looks at.                                                *)
(***************************************************************************)
EXTENDS Gate, FiniteSetTheorems, TLAPS

LEMMA RetrieveType == \A x : Retrieve(x) \subseteq Memories
BY DEF Retrieve, Cap, Active, Provisional, Found

-----------------------------------------------------------------------------
(* Type correctness.                                                        *)

LEMMA TypeStep == TypeOK /\ [Next]_vars => TypeOK'
<1> SUFFICES ASSUME TypeOK, [Next]_vars PROVE TypeOK'
  OBVIOUS
<1> USE GateAssumption
<1>1. ASSUME NEW s \in Sessions, NEW x \in Actions, StartCheck(s, x) PROVE TypeOK'
  <2>1. /\ check' = [check EXCEPT ![s] = check'[s]]
        /\ check'[s].now = clock /\ check'[s].cleared = {} /\ check'[s].blockers = {}
        /\ \A r \in check'[s].todo :
              r.memory \in Memories /\ r = [memory |-> r.memory, key |-> RankKey(r.memory, x)]
    BY <1>1, RetrieveType DEF StartCheck, TypeOK
  <2>2. \A r, q \in check'[s].todo : q.memory = r.memory => q = r
    BY <2>1
  <2> QED BY <1>1, <2>1, <2>2 DEF StartCheck, Goto, TypeOK
<1>2. ASSUME NEW s \in Sessions, CheckAck(s) PROVE TypeOK'
  <2>1. PICK r \in check[s].todo :
           check' = [check EXCEPT ![s] = Judged(check[s], r, IsAcked(r.memory, s, check[s].now))]
    BY <1>2 DEF CheckAck
  <2>2. /\ check'[s].now = check[s].now
        /\ check'[s].cleared \subseteq Memories
        /\ check'[s].blockers \subseteq Memories \ check'[s].cleared
    BY <2>1 DEF Judged, TypeOK
  <2>3. /\ check'[s].todo = check[s].todo \ {r}
        /\ check'[s].cleared \cup check'[s].blockers
              = check[s].cleared \cup check[s].blockers \cup {r.memory}
    BY <2>1 DEF Judged, TypeOK
  <2>4. \A q \in check'[s].todo :
           /\ q.memory \in Memories \ (check'[s].cleared \cup check'[s].blockers)
           /\ \A t \in check'[s].todo \ {q} : t.memory # q.memory
    BY <2>3 DEF TypeOK
  <2> QED BY <1>2, <2>1, <2>2, <2>4 DEF CheckAck, TypeOK
<1>3. ASSUME NEW s \in Sessions, Render(s) PROVE TypeOK'
  BY <1>3 DEF Render, Goto, Idle, TypeOK
<1>4. ASSUME NEW s \in Sessions, NEW m \in Memories, NEW id \in Sessions \cup {None, Garbled},
             StartAck(s, m, id)
      PROVE  TypeOK'
  <2>1. AckOf(m, id, 0) \in Acks
    BY DEF AckOf, Acks
  <2>2. named' \subseteq Identified
    BY <1>4 DEF StartAck, TypeOK
  <2> QED BY <1>4, <2>1, <2>2 DEF StartAck, Goto, TypeOK
<1>5. ASSUME NEW s \in Sessions, TruncateAck(s) PROVE TypeOK'
  <2>1. /\ ack[s] \in Acks
        /\ ack' = [ack EXCEPT ![s] = ack'[s]]
        /\ ack'[s] \in Acks
    <3>1. ack[s] \in Acks /\ clock + TTL \in 0..(MaxTime + TTL) /\ 0 \in 0..(MaxTime + TTL)
      BY <1>5 DEF TruncateAck, Goto, TypeOK
    <3> QED BY <1>5, <3>1 DEF TruncateAck, TypeOK, Acks
  <2> QED BY <1>5, <2>1 DEF TruncateAck, Goto, TypeOK, Files
<1>6. ASSUME NEW s \in Sessions, WriteAck(s) PROVE TypeOK'
  <2>1. ack[s] \in Acks /\ ack[s].memory \in Memories
    BY <1>6 DEF WriteAck, Goto, TypeOK, Acks
  <2>2. ackFile' \in [Memories -> Files]
    BY <1>6, <2>1 DEF WriteAck, TypeOK, Written, Files
  <2>3. granted' \subseteq [ack : Acks, by : Sessions, named : BOOLEAN] /\ lasting' \subseteq Sessions \X Memories
    <3>1. (s \in named) \in BOOLEAN
      OBVIOUS
    <3>2. [ack |-> ack[s], by |-> s, named |-> s \in named]
             \in [ack : Acks, by : Sessions, named : BOOLEAN]
      BY <2>1, <3>1
    <3>3. ack[s].session = s => <<s, ack[s].memory>> \in Sessions \X Memories
      BY <2>1
    <3> QED BY <1>6, <3>2, <3>3 DEF WriteAck, TypeOK
  <2> QED BY <1>6, <2>2, <2>3 DEF WriteAck, Goto, TypeOK
<1>7. ASSUME NEW s \in Sessions, StartSignal(s) PROVE TypeOK'
  BY <1>7 DEF StartSignal, Goto, TypeOK
<1>8. ASSUME NEW s \in Sessions, WriteCurrent(s) PROVE TypeOK'
  BY <1>8 DEF WriteCurrent, Goto, TypeOK, Written
<1>9. ASSUME NEW s \in Sessions, Fail(s) PROVE TypeOK'
  BY <1>9 DEF Fail, Idle, TypeOK
<1>10. ASSUME NEW m \in Memories, NEW r \in Rows[m], ChangeRow(m, r) PROVE TypeOK'
  BY <1>10 DEF ChangeRow, TypeOK
<1>11. CASE Tick
  BY <1>11 DEF Tick, TypeOK
<1>12. CASE UNCHANGED vars
  BY <1>12 DEF vars, TypeOK
<1> QED BY <1>1, <1>2, <1>3, <1>4, <1>5, <1>6, <1>7, <1>8, <1>9, <1>10, <1>11, <1>12 DEF Next

\* The variables always have the shape the code gives them.
THEOREM TypeCorrect == Spec => []TypeOK
<1>1. Init => TypeOK
  BY GateAssumption DEF Init, TypeOK, Idle, Files
<1> QED BY <1>1, TypeStep, PTL DEF Spec

-----------------------------------------------------------------------------
(* What a file says was written by somebody, and whoever knows his session  *)
(* and named no other wrote for that session.                               *)

AtWork(s) == pc[s] \in {"acking", "writing"}

FilesGranted ==
    \A m \in Memories : ackFile[m] \in Acks =>
        ackFile[m].memory = m /\ \E g \in granted : g.ack = ackFile[m]

OwnSession ==
    /\ \A g \in granted : g.by \in Identified /\ ~g.named => g.ack.session = g.by
    /\ \A s \in Identified \ named : AtWork(s) => ack[s].session = s

GrantInv == FilesGranted /\ OwnSession /\ ClearedByAck

LEMMA GrantStep == TypeOK /\ GrantInv /\ [Next]_vars => GrantInv'
<1> SUFFICES ASSUME TypeOK, GrantInv, [Next]_vars PROVE GrantInv'
  OBVIOUS
<1> USE GateAssumption
<1>1. ASSUME NEW s \in Sessions, NEW x \in Actions, StartCheck(s, x) PROVE GrantInv'
  <2>1. ClearedByAck'
    <3> SUFFICES ASSUME NEW t \in Sessions, NEW m \in check'[t].cleared
                 PROVE  t # s /\ check'[t] = check[t]
      BY <1>1 DEF StartCheck, GrantInv, ClearedByAck
    <3> QED BY <1>1 DEF StartCheck, TypeOK
  <2> QED BY <1>1, <2>1 DEF StartCheck, Goto, TypeOK, GrantInv, FilesGranted, OwnSession, AtWork
<1>2. ASSUME NEW s \in Sessions, CheckAck(s) PROVE GrantInv'
  <2>1. PICK r \in check[s].todo :
           check' = [check EXCEPT ![s] = Judged(check[s], r, IsAcked(r.memory, s, check[s].now))]
    BY <1>2 DEF CheckAck
  <2>2. ASSUME IsAcked(r.memory, s, check[s].now)
        PROVE  \E g \in granted :
                  /\ g.ack.memory = r.memory
                  /\ g.by = s \/ g.named \/ g.by \notin Identified
                  /\ \/ g.ack.session = s
                     \/ g.ack.session = None /\ check[s].now < g.ack.expires
    <3>1. r.memory \in Memories
      BY DEF TypeOK
    <3>2. PICK g \in granted : g.ack = ackFile[r.memory] /\ g.ack.memory = r.memory
      BY <2>2, <3>1 DEF IsAcked, GrantInv, FilesGranted
    <3>3. g.by \in Identified /\ ~g.named => g.ack.session = g.by /\ g.ack.session # None
      BY DEF GrantInv, OwnSession
    <3> QED BY <2>2, <3>2, <3>3 DEF IsAcked
  <2>3. ClearedByAck'
    <3> SUFFICES ASSUME NEW t \in Sessions, NEW m \in check'[t].cleared
                 PROVE  \E g \in granted :
                           /\ g.ack.memory = m
                           /\ g.by = t \/ g.named \/ g.by \notin Identified
                           /\ \/ g.ack.session = t
                              \/ g.ack.session = None /\ check'[t].now < g.ack.expires
      BY <1>2 DEF CheckAck, ClearedByAck
    <3>1. check'[t].now = check[t].now
      BY <2>1 DEF Judged, TypeOK
    <3>2. CASE m \in check[t].cleared
      BY <3>1, <3>2 DEF GrantInv, ClearedByAck
    <3>3. CASE m \notin check[t].cleared
      <4>1. t = s /\ m = r.memory /\ IsAcked(r.memory, s, check[s].now)
        BY <2>1, <3>3 DEF Judged, TypeOK
      <4> QED BY <2>2, <3>1, <4>1
    <3> QED BY <3>2, <3>3
  <2> QED BY <1>2, <2>3 DEF CheckAck, GrantInv, FilesGranted, OwnSession, AtWork
<1>3. ASSUME NEW s \in Sessions, Render(s) PROVE GrantInv'
  <2>1. ClearedByAck'
    BY <1>3 DEF Render, Idle, TypeOK, GrantInv, ClearedByAck
  <2> QED BY <1>3, <2>1 DEF Render, Goto, TypeOK, GrantInv, FilesGranted, OwnSession, AtWork
<1>4. ASSUME NEW s \in Sessions, NEW m \in Memories, NEW id \in Sessions \cup {None, Garbled},
             StartAck(s, m, id)
      PROVE  GrantInv'
  <2>1. OwnSession'
    BY <1>4 DEF StartAck, Goto, TypeOK, GrantInv, OwnSession, AtWork, AckOf, Resolve
  <2> QED BY <1>4, <2>1 DEF StartAck, GrantInv, FilesGranted, ClearedByAck
<1>5. ASSUME NEW s \in Sessions, TruncateAck(s) PROVE GrantInv'
  <2>1. FilesGranted'
    BY <1>5 DEF TruncateAck, TypeOK, GrantInv, FilesGranted
  <2>2. \A t \in Sessions : ack'[t].session = ack[t].session
    BY <1>5 DEF TruncateAck, TypeOK, Acks, NoAck, AckOf
  <2>3. OwnSession'
    BY <1>5, <2>2 DEF TruncateAck, Goto, TypeOK, GrantInv, OwnSession, AtWork
  <2> QED BY <1>5, <2>1, <2>3 DEF TruncateAck, GrantInv, ClearedByAck
<1>6. ASSUME NEW s \in Sessions, WriteAck(s) PROVE GrantInv'
  <2> DEFINE new == [ack |-> ack[s], by |-> s, named |-> s \in named]
  <2>1. granted' = granted \cup {new} /\ AtWork(s)
    BY <1>6 DEF WriteAck, Goto, AtWork
  <2>2. FilesGranted'
    <3> SUFFICES ASSUME NEW m \in Memories, ackFile'[m] \in Acks
                 PROVE  ackFile'[m].memory = m /\ \E g \in granted' : g.ack = ackFile'[m]
      BY DEF FilesGranted
    <3>1. CASE m = ack[s].memory
      <4>1. ackFile'[m] = ack[s]
        BY <1>6, <3>1 DEF WriteAck, Written, TypeOK
      <4>2. new \in granted' /\ new.ack = ack[s]
        BY <2>1
      <4> QED BY <3>1, <4>1, <4>2
    <3>2. CASE m # ack[s].memory
      <4>1. ackFile'[m] = ackFile[m]
        BY <1>6, <3>2 DEF WriteAck, TypeOK
      <4> QED BY <2>1, <4>1 DEF GrantInv, FilesGranted
    <3> QED BY <3>1, <3>2
  <2>3. OwnSession'
    <3>1. \A g \in granted' : g.by \in Identified /\ ~g.named => g.ack.session = g.by
      <4>1. new.by = s /\ new.ack = ack[s] /\ new.named = (s \in named)
        OBVIOUS
      <4>2. s \in Identified /\ s \notin named => ack[s].session = s
        BY <2>1 DEF GrantInv, OwnSession
      <4>3. \A g \in granted : g.by \in Identified /\ ~g.named => g.ack.session = g.by
        BY DEF GrantInv, OwnSession
      <4> HIDE DEF new
      <4> QED BY <2>1, <4>1, <4>2, <4>3
    <3> QED BY <1>6, <3>1 DEF WriteAck, Goto, TypeOK, GrantInv, OwnSession, AtWork
  <2>4. ClearedByAck'
    BY <1>6, <2>1 DEF WriteAck, GrantInv, ClearedByAck
  <2> QED BY <2>2, <2>3, <2>4 DEF GrantInv
<1>7. ASSUME NEW s \in Sessions, StartSignal(s) \/ WriteCurrent(s) PROVE GrantInv'
  BY <1>7 DEF StartSignal, WriteCurrent, Goto, TypeOK, GrantInv, FilesGranted, OwnSession, AtWork,
              ClearedByAck
<1>8. ASSUME NEW s \in Sessions, Fail(s) PROVE GrantInv'
  <2>1. ClearedByAck'
    BY <1>8 DEF Fail, Idle, TypeOK, GrantInv, ClearedByAck
  <2> QED BY <1>8, <2>1 DEF Fail, TypeOK, GrantInv, FilesGranted, OwnSession, AtWork
<1>9. CASE UNCHANGED <<ackFile, pc, check, ack, named, granted>>
  BY <1>9 DEF GrantInv, FilesGranted, OwnSession, AtWork, ClearedByAck
<1> QED BY <1>1, <1>2, <1>3, <1>4, <1>5, <1>6, <1>7, <1>8, <1>9 DEF Next, ChangeRow, Tick, vars

\* A requirement lets a session pass only on a whole ack for this session, or for
\* none and in time: its own, one for which somebody chose the session with
\* --session, or one of somebody who knew no session of his own.
THEOREM OnlyAcksOpen == Spec => []ClearedByAck
<1>1. Init => TypeOK /\ GrantInv
  <2>1. Init => TypeOK
    BY GateAssumption DEF Init, TypeOK, Idle, Files
  <2>2. Init => GrantInv
    BY GateAssumption DEF Init, Idle, GrantInv, FilesGranted, OwnSession, AtWork, ClearedByAck
  <2> QED BY <2>1, <2>2
<1>2. GrantInv => ClearedByAck
  BY DEF GrantInv
<1> QED BY <1>1, <1>2, TypeStep, GrantStep, PTL DEF Spec

-----------------------------------------------------------------------------
(* An ack that lasts is in its file, and nobody is about to write another.  *)

Standing ==
    \A s \in Sessions, m \in Memories : <<s, m>> \in lasting =>
        /\ ackFile[m] \in Acks /\ ackFile[m].session = s
        /\ \A t \in Sessions : ~(pc[t] = "writing" /\ ack[t].memory = m)

NoFindings == \A s \in Sessions : pc[s] # "checking" => check[s].blockers = {}

HoldInv == Standing /\ NoFindings /\ OwnAckHolds

LEMMA HoldStep == TypeOK /\ HoldInv /\ [Next]_vars => HoldInv'
<1> SUFFICES ASSUME TypeOK, HoldInv, [Next]_vars PROVE HoldInv'
  OBVIOUS
<1> USE GateAssumption
<1>1. ASSUME NEW s \in Sessions, NEW x \in Actions, StartCheck(s, x) PROVE HoldInv'
  BY <1>1 DEF StartCheck, Goto, TypeOK, HoldInv, Standing, NoFindings, OwnAckHolds
<1>2. ASSUME NEW s \in Sessions, CheckAck(s) PROVE HoldInv'
  <2>1. PICK r \in check[s].todo :
           check' = [check EXCEPT ![s] = Judged(check[s], r, IsAcked(r.memory, s, check[s].now))]
    BY <1>2 DEF CheckAck
  <2>2. OwnAckHolds'
    <3> SUFFICES ASSUME NEW t \in Sessions, NEW m \in check'[t].blockers
                 PROVE  <<t, m>> \notin lasting
      BY <1>2 DEF CheckAck, OwnAckHolds
    <3>1. CASE m \in check[t].blockers
      BY <3>1 DEF HoldInv, OwnAckHolds
    <3>2. CASE m \notin check[t].blockers
      <4>1. t = s /\ m = r.memory /\ m \in Memories /\ ~IsAcked(m, s, check[s].now)
        BY <2>1, <3>2 DEF Judged, TypeOK
      <4> QED BY <4>1 DEF HoldInv, Standing, IsAcked
    <3> QED BY <3>1, <3>2
  <2>3. NoFindings'
    BY <1>2, <2>1 DEF CheckAck, TypeOK, HoldInv, NoFindings
  <2> QED BY <1>2, <2>2, <2>3 DEF CheckAck, HoldInv, Standing
<1>3. ASSUME NEW s \in Sessions, Render(s) PROVE HoldInv'
  BY <1>3 DEF Render, Goto, Idle, TypeOK, HoldInv, Standing, NoFindings, OwnAckHolds
<1>4. ASSUME NEW s \in Sessions, NEW m \in Memories, NEW id \in Sessions \cup {None, Garbled},
             StartAck(s, m, id)
      PROVE  HoldInv'
  BY <1>4 DEF StartAck, Goto, TypeOK, HoldInv, Standing, NoFindings, OwnAckHolds
<1>5. ASSUME NEW s \in Sessions, TruncateAck(s) PROVE HoldInv'
  <2>1. \A t \in Sessions : ack'[t].memory = ack[t].memory
    BY <1>5 DEF TruncateAck, TypeOK, Acks, NoAck, AckOf
  <2>2. lasting' = lasting \ (Sessions \X {ack[s].memory})
    BY <1>5 DEF TruncateAck
  <2>3. Standing'
    <3> SUFFICES ASSUME NEW t \in Sessions, NEW m \in Memories, <<t, m>> \in lasting'
                 PROVE  /\ ackFile'[m] \in Acks /\ ackFile'[m].session = t
                        /\ \A v \in Sessions : ~(pc'[v] = "writing" /\ ack'[v].memory = m)
      BY DEF Standing
    <3>1. <<t, m>> \in lasting /\ m # ack[s].memory
      BY <2>2
    <3>2. ackFile'[m] = ackFile[m]
      BY <1>5, <3>1 DEF TruncateAck, TypeOK
    <3>3. \A v \in Sessions : pc'[v] = "writing" /\ v # s => pc[v] = "writing"
      BY <1>5 DEF TruncateAck, Goto, TypeOK
    <3> QED BY <2>1, <3>1, <3>2, <3>3 DEF HoldInv, Standing
  <2> QED BY <1>5, <2>2, <2>3 DEF TruncateAck, Goto, TypeOK, HoldInv, NoFindings, OwnAckHolds
<1>6. ASSUME NEW s \in Sessions, WriteAck(s) PROVE HoldInv'
  <2> DEFINE m == ack[s].memory
  <2>1. ack[s] \in Acks /\ m \in Memories
    BY <1>6 DEF WriteAck, Goto, TypeOK, Acks
  <2>2. \A t \in Sessions, n \in Memories : <<t, n>> \in lasting' =>
           \/ <<t, n>> \in lasting /\ n # m
           \/ t = s /\ n = m /\ ackFile[m] = None /\ Alone(s, m) /\ ack[s].session = s
    BY <1>6 DEF WriteAck, Goto, HoldInv, Standing
  <2>3. Standing'
    <3> SUFFICES ASSUME NEW t \in Sessions, NEW n \in Memories, <<t, n>> \in lasting'
                 PROVE  /\ ackFile'[n] \in Acks /\ ackFile'[n].session = t
                        /\ \A v \in Sessions : ~(pc'[v] = "writing" /\ ack'[v].memory = n)
      BY DEF Standing
    <3>1. \A v \in Sessions : pc'[v] = "writing" =>
             v # s /\ pc[v] = "writing" /\ ack'[v] = ack[v]
      BY <1>6 DEF WriteAck, Goto, TypeOK
    <3>2. CASE <<t, n>> \in lasting /\ n # m
      <4>1. ackFile'[n] = ackFile[n]
        BY <1>6, <3>2 DEF WriteAck, TypeOK
      <4> QED BY <3>1, <3>2, <4>1 DEF HoldInv, Standing
    <3>3. CASE t = s /\ n = m /\ ackFile[m] = None /\ Alone(s, m) /\ ack[s].session = s
      <4>1. ackFile'[m] = ack[s]
        BY <1>6, <2>1, <3>3 DEF WriteAck, Written, TypeOK
      <4> QED BY <2>1, <3>1, <3>3, <4>1 DEF Alone
    <3> QED BY <2>2, <3>2, <3>3
  <2>4. check[s].blockers = {}
    BY <1>6 DEF WriteAck, Goto, HoldInv, NoFindings
  <2>5. OwnAckHolds'
    BY <1>6, <2>2, <2>4 DEF WriteAck, TypeOK, HoldInv, OwnAckHolds
  <2>6. NoFindings'
    BY <1>6 DEF WriteAck, Goto, TypeOK, HoldInv, NoFindings
  <2> QED BY <2>3, <2>5, <2>6 DEF HoldInv
<1>7. ASSUME NEW s \in Sessions, StartSignal(s) \/ WriteCurrent(s) PROVE HoldInv'
  BY <1>7 DEF StartSignal, WriteCurrent, Goto, TypeOK, HoldInv, Standing, NoFindings, OwnAckHolds
<1>8. ASSUME NEW s \in Sessions, Fail(s) PROVE HoldInv'
  BY <1>8 DEF Fail, Idle, NoAck, AckOf, TypeOK, HoldInv, Standing, NoFindings, OwnAckHolds
<1>9. CASE UNCHANGED <<ackFile, pc, check, ack, lasting>>
  BY <1>9 DEF HoldInv, Standing, NoFindings, OwnAckHolds
<1> QED BY <1>1, <1>2, <1>3, <1>4, <1>5, <1>6, <1>7, <1>8, <1>9 DEF Next, ChangeRow, Tick, vars

\* Nothing but another ack of the same memory takes an acknowledgment from the
\* session that gave it.
THEOREM OwnAckLasts == Spec => []OwnAckHolds
<1>1. Init => TypeOK /\ HoldInv
  <2>1. Init => TypeOK
    BY GateAssumption DEF Init, TypeOK, Idle, Files
  <2>2. Init => HoldInv
    BY DEF Init, Idle, HoldInv, Standing, NoFindings, OwnAckHolds
  <2> QED BY <2>1, <2>2
<1>2. HoldInv => OwnAckHolds
  BY DEF HoldInv
<1> QED BY <1>1, <1>2, TypeStep, HoldStep, PTL DEF Spec

-----------------------------------------------------------------------------
(* Which requirements the gate looks at.                                    *)

\* What outranks a requirement is more precise, or as precise and a requirement.
LEMMA OutranksRequirement ==
    ASSUME TypeOK, NEW x, NEW m \in Active(x), Requires(m),
           NEW n \in Active(x), Above(RankKey(n, x), RankKey(m, x))
    PROVE  \/ BestSpecificity(n, x) > BestSpecificity(m, x)
           \/ BestSpecificity(n, x) = BestSpecificity(m, x) /\ Requires(n)
<1> USE GateAssumption
<1> DEFINE k == RankKey(n, x)
           l == RankKey(m, x)
<1>1. m \in Memories /\ n \in Memories /\ row[m] \in Row /\ row[n] \in Row /\ row[n].status = "active"
  BY DEF Active, Found, TypeOK
<1>2. PICK i \in 1..4 : k[i] > l[i] /\ \A j \in 1..(i - 1) : k[j] = l[j]
  BY DEF Above
<1>3. /\ k[1] = BestSpecificity(n, x) /\ l[1] = BestSpecificity(m, x)
      /\ k[2] = EnfRank[row[n].enforcement] /\ l[2] = 3
      /\ k[3] = ConfRank[row[n].confidence] /\ l[3] = ConfRank[row[m].confidence]
      /\ k[4] = CreatedAt[n] /\ l[4] = CreatedAt[m]
  BY DEF RankKey, Requires, EnfRank
<1>4. k[2] \in 0..3 /\ (k[2] = 3 => Requires(n))
  BY <1>1, <1>3 DEF Row, EnfRank, Requires
<1> HIDE DEF k, l
<1>5. CASE i = 1
  BY <1>2, <1>3, <1>5
<1>6. CASE i = 2
  BY <1>2, <1>3, <1>4, <1>6
<1>7. CASE i \in 3..4
  BY <1>2, <1>3, <1>4, <1>7
<1> QED BY <1>5, <1>6, <1>7

LEMMA YieldStep ==
    ASSUME TypeOK, NEW s \in Sessions, NEW x \in Actions, StartCheck(s, x),
           NEW m \in Active(x), Requires(m), ~\E r \in check'[s].todo : r.memory = m
    PROVE  Cardinality({n \in Active(x) \ {m} :
                \/ BestSpecificity(n, x) > BestSpecificity(m, x)
                \/ BestSpecificity(n, x) = BestSpecificity(m, x) /\ Requires(n)})
              >= Retrieval.maxResults
<1> USE GateAssumption
<1> DEFINE over == {n \in Active(x) \ {m} : Above(RankKey(n, x), RankKey(m, x))}
           rivals == {n \in Active(x) \ {m} :
                        \/ BestSpecificity(n, x) > BestSpecificity(m, x)
                        \/ BestSpecificity(n, x) = BestSpecificity(m, x) /\ Requires(n)}
<1>1. m \notin Retrieve(x)
  <2>1. check'[s].todo = {[memory |-> n, key |-> RankKey(n, x)] :
                             n \in {q \in Retrieve(x) : Requires(q)}}
    BY DEF StartCheck, TypeOK
  <2>2. m \in Retrieve(x) => [memory |-> m, key |-> RankKey(m, x)] \in check'[s].todo
    BY <2>1
  <2> QED BY <2>2
<1>2. ~(Cardinality(over) < Retrieval.maxResults)
  BY <1>1 DEF Retrieve, Cap
<1>3. over \subseteq rivals
  BY OutranksRequirement
<1>4. IsFiniteSet(rivals)
  <2>1. rivals \subseteq Memories
    BY DEF Active, Found
  <2> QED BY <2>1, FS_Subset
<1>5. Cardinality(over) <= Cardinality(rivals) /\ IsFiniteSet(over)
  BY <1>3, <1>4, FS_Subset
<1>6. Cardinality(over) \in Nat /\ Cardinality(rivals) \in Nat
  BY <1>4, <1>5, FS_CardinalityType
<1> HIDE DEF over, rivals
<1>7. Cardinality(rivals) >= Retrieval.maxResults
  BY <1>2, <1>5, <1>6
<1> QED BY <1>7 DEF rivals

\* The gate misses a matching requirement only if the cap gives its place to
\* memories more precise, or as precise and requirements too.
THEOREM OnlyTheCapHides == Spec => RequirementYields
<1>1. TypeOK => [\A s \in Sessions, x \in Actions : StartCheck(s, x) =>
        \A m \in Active(x) : Requires(m) =>
            \/ \E r \in check'[s].todo : r.memory = m
            \/ Cardinality({n \in Active(x) \ {m} :
                   \/ BestSpecificity(n, x) > BestSpecificity(m, x)
                   \/ BestSpecificity(n, x) = BestSpecificity(m, x) /\ Requires(n)})
                 >= Retrieval.maxResults]_vars
  BY YieldStep
<1> QED BY <1>1, TypeCorrect, PTL DEF RequirementYields
=============================================================================

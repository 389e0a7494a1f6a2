-------------------------- MODULE LifecycleProofs --------------------------
(***************************************************************************)
(* Theorems about Lifecycle, for any memories, actors, scopes, policy and   *)
(* number of records.                                                       *)
(***************************************************************************)
EXTENDS Lifecycle, DeriveProofs

-----------------------------------------------------------------------------
(* Type correctness *)

IInv == TypeOK /\ Ranked(obs)

\* The one way a record is added keeps the invariant, if the record is well
\* formed.
LEMMA AppendKeepsInv ==
    ASSUME IInv, NEW o, ObservationOK(o), AppendObservation(o)
    PROVE  IInv'
<1>1. mems' = mems /\ obs' = obs \cup {o} /\ \A x \in obs : x.id # o.id
  BY DEF AppendObservation
<1>2. o.id \in Nat
  BY LifecycleAssumption DEF ObservationOK
<1>3. TypeOK'
  <2>1. \A x \in obs' : ObservationOK(x)'
    BY <1>1 DEF IInv, TypeOK, ObservationOK
  <2>2. \A x, y \in obs' : x.id = y.id => x = y
    BY <1>1 DEF IInv, TypeOK
  <2> QED
    BY <1>1, <2>1, <2>2 DEF IInv, TypeOK
<1>4. Ranked(obs)'
  <2>1. PICK n \in Nat : \A x \in obs : x.id \in Nat /\ x.id <= n
    BY DEF IInv, Ranked
  <2>2. PICK k \in Nat : n <= k /\ o.id <= k
    BY <1>2
  <2> QED
    BY <1>1, <1>2, <2>1, <2>2 DEF Ranked
<1> QED
  BY <1>3, <1>4 DEF IInv

\* What an agent or a human files is well formed.
LEMMA FiledOK ==
    ASSUME IInv, NEW who, NEW t \in mems, NEW i \in Ids,
           NEW kind \in {"confirm", "contradict", "adjust_scope", "mark_stale",
                         "mark_duplicate", "supersede"},
           NEW scope, NEW ref \in mems \cup {Unset}
    PROVE  /\ ObservationOK(Filed(kind, who, t, i))
           /\ ObservationOK([Filed(kind, who, t, i) EXCEPT !.scope = scope])
           /\ ObservationOK([Filed(kind, who, t, i) EXCEPT !.ref = ref])
  BY DEF Filed, ObservationOK, Enforcements, Confidences

LEMMA DecidedOK ==
    ASSUME IInv, NEW t \in mems, NEW i \in Ids,
           NEW e \in EnforcementChoices, NEW c \in ConfidenceChoices
    PROVE  /\ ObservationOK([Decided("approve", t, i) EXCEPT !.enforcement = e, !.confidence = c])
           /\ ObservationOK(Decided("reject", t, i))
  BY LifecycleAssumption DEF Decided, Filed, ObservationOK, Enforcements, Confidences

LEMMA InitInv == Init => IInv
  BY DEF Init, IInv, TypeOK, Ranked

LEMMA NextInv ==
    ASSUME IInv, [Next]_vars
    PROVE  IInv'
<1>1. CASE UNCHANGED vars
  BY <1>1 DEF vars, IInv, TypeOK, ObservationOK, Ranked
<1>2. CASE Next
  <2>1. PICK t \in Memories :
           \/ Propose(t)
           \/ \E i \in Ids, who \in Agents :
                 \/ \E kind \in {"confirm", "contradict", "mark_stale"} : Observe(kind, who, t, i)
                 \/ \E scope \in Scopes : AdjustScope(who, t, scope, i)
                 \/ \E m \in Memories : MarkDuplicate(who, t, m, i) \/ Supersede(who, t, m, i)
           \/ \E i \in Ids :
                 \/ \E e \in EnforcementChoices, c \in ConfidenceChoices : Approve(t, e, c, i)
                 \/ Reject(t, i)
    BY <1>2 DEF Next
  <2>2. CASE Propose(t)
    BY <2>2 DEF Propose, IInv, TypeOK, ObservationOK, Ranked
  <2>3. ASSUME NEW i \in Ids, NEW who \in Agents,
               NEW kind \in {"confirm", "contradict", "mark_stale"}, Observe(kind, who, t, i)
        PROVE  IInv'
    <3>1. Filed(kind, who, t, i).target \in mems
      BY <2>3 DEF Observe, AppendObservation
    <3>2. t \in mems
      BY <3>1 DEF Filed
    <3> QED
      BY <2>3, <3>2, FiledOK, AppendKeepsInv DEF Observe
  <2>4. ASSUME NEW i \in Ids, NEW who \in Agents, NEW scope \in Scopes,
               AdjustScope(who, t, scope, i)
        PROVE  IInv'
    <3> DEFINE o == [Filed("adjust_scope", who, t, i) EXCEPT !.scope = scope]
    <3>1. o.target = t
      BY DEF Filed
    <3>2. AppendObservation(o)
      BY <2>4 DEF AdjustScope
    <3>3. t \in mems
      BY <3>1, <3>2 DEF AppendObservation
    <3>4. ObservationOK(o)
      BY <3>3, FiledOK
    <3> QED
      BY <3>2, <3>4, AppendKeepsInv
  <2>5. ASSUME NEW i \in Ids, NEW who \in Agents, NEW m \in Memories,
               MarkDuplicate(who, t, m, i)
        PROVE  IInv'
    <3> DEFINE o == [Filed("mark_duplicate", who, t, i) EXCEPT !.ref = m]
    <3>1. o.target = t
      BY DEF Filed
    <3>2. m \in mems /\ AppendObservation(o)
      BY <2>5 DEF MarkDuplicate
    <3>3. t \in mems
      BY <3>1, <3>2 DEF AppendObservation
    <3>4. ObservationOK(o)
      BY <3>2, <3>3, FiledOK
    <3> QED
      BY <3>2, <3>4, AppendKeepsInv
  <2>6. ASSUME NEW i \in Ids, NEW who \in Agents, NEW m \in Memories,
               Supersede(who, t, m, i)
        PROVE  IInv'
    <3> DEFINE o == [Filed("supersede", who, t, i) EXCEPT !.ref = m]
    <3>1. o.target = t
      BY DEF Filed
    <3>2. m \in mems /\ AppendObservation(o)
      BY <2>6 DEF Supersede
    <3>3. t \in mems
      BY <3>1, <3>2 DEF AppendObservation
    <3>4. ObservationOK(o)
      BY <3>2, <3>3, FiledOK
    <3> QED
      BY <3>2, <3>4, AppendKeepsInv
  <2>7. ASSUME NEW i \in Ids, NEW e \in EnforcementChoices, NEW c \in ConfidenceChoices,
               Approve(t, e, c, i)
        PROVE  IInv'
    <3> DEFINE o == [Decided("approve", t, i) EXCEPT !.enforcement = e, !.confidence = c]
    <3>1. o.target = t
      BY DEF Decided, Filed
    <3>2. AppendObservation(o)
      BY <2>7 DEF Approve
    <3>3. t \in mems
      BY <3>1, <3>2 DEF AppendObservation
    <3>4. ObservationOK(o)
      BY <3>3, DecidedOK
    <3> QED
      BY <3>2, <3>4, AppendKeepsInv
  <2>8. ASSUME NEW i \in Ids, Reject(t, i)
        PROVE  IInv'
    <3> DEFINE o == Decided("reject", t, i)
    <3>1. o.target = t
      BY DEF Decided, Filed
    <3>2. AppendObservation(o)
      BY <2>8 DEF Reject
    <3>3. t \in mems
      BY <3>1, <3>2 DEF AppendObservation
    <3>4. ObservationOK(o)
      BY <3>3 DEF Decided, Filed, ObservationOK, Enforcements, Confidences
    <3> QED
      BY <3>2, <3>4, AppendKeepsInv
  <2> QED
    BY <2>1, <2>2, <2>3, <2>4, <2>5, <2>6, <2>7, <2>8
<1> QED
  BY <1>1, <1>2

LEMMA Invariant == Spec => []IInv
<1>1. IInv /\ [Next]_vars => IInv'
  BY NextInv
<1> QED
  BY InitInv, <1>1, PTL DEF Spec

\* Every observation on the ledger is well formed and refers to memories that
\* are there, ids are unique, and only a human's approve sets an enforcement.
THEOREM TypeCorrect == Spec => []TypeOK
<1>1. IInv => TypeOK
  BY DEF IInv
<1> QED
  BY Invariant, <1>1, PTL

-----------------------------------------------------------------------------
(* What blocks *)

LEMMA AtLeastIsRisk ==
    ASSUME NEW risk \in Risks, NEW floors \in SUBSET Risks
    PROVE  AtLeast(risk, floors) \in Risks
<1>1. \E r \in {risk} \cup floors : \A f \in {risk} \cup floors : f <= r
  BY DEF Risks
<1> QED
  BY <1>1 DEF AtLeast, Risks

LEMMA RiskIsRisk ==
    ASSUME NEW m \in Memories, NEW scope
    PROVE  RiskForScope(m, scope, Policy) \in Risks
<1>1. BaseRisk(m, Policy) \in Risks
  BY AtLeastIsRisk, LifecycleAssumption DEF BaseRisk, PolicyOK, Risks
<1>2. Bump(BaseRisk(m, Policy)) \in Risks
  BY <1>1 DEF Bump, Risks
<1>3. {s.minRisk : s \in {x \in Policy.sensitive : x.places \cap scope # {}}} \in SUBSET Risks
  BY LifecycleAssumption DEF PolicyOK
<1> QED
  BY <1>1, <1>2, <1>3, AtLeastIsRisk DEF RiskForScope

\* No tier of the policy makes an active memory block by itself.
NoTierBinds == \A r \in Risks : Policy.tiers[r].maxEnforcement # "requirement"

\* While no tier of the policy reaches requirement, a blocking memory was given
\* that enforcement by name in a human's approve, whatever agents filed.
THEOREM OnlyHumansBind ==
    ASSUME NoTierBinds
    PROVE  Spec => []RequirementNeedsApprove
<1>1. ASSUME IInv, NEW m \in mems, State(m).enforcement = "requirement"
      PROVE  \E o \in HumanApproves(On(obs, m)) : o.enforcement = "requirement"
  <2> DEFINE os == On(obs, m)
             setters == {o \in OfKind(os, "approve") : o.enforcement # Unset}
             scope == EffectiveScope(m, os, Policy)
             risk == RiskForScope(m, scope, Policy)
             status == Status(m, os, risk, Policy, BuildContext(mems, obs, Policy))
  <2>1. Enforcement(os, status, risk, Policy) = "requirement"
    BY <1>1 DEF State, Derived, DeriveWithContext
  <2>2. risk \in Risks
    BY <1>1, RiskIsRisk DEF IInv, TypeOK
  <2> HIDE DEF scope, risk, status
  <2>3. SetEnforcement(os) = "requirement" /\ SetEnforcement(os) # Unset
    BY <2>1, <2>2 DEF Enforcement, NoTierBinds
  <2>4. setters # {}
    BY <2>3 DEF SetEnforcement
  <2>5. First(setters) \in setters
    BY <1>1, <2>4, FirstIsIn DEF IInv, OfKind, On
  <2>6. First(setters).enforcement = "requirement"
    BY <2>3, <2>4 DEF SetEnforcement
  <2>7. First(setters) \in obs /\ First(setters).human
    BY <1>1, <2>5 DEF IInv, TypeOK, ObservationOK, OfKind, On
  <2> QED
    BY <2>5, <2>6, <2>7 DEF HumanApproves, OfKind
<1>2. IInv => RequirementNeedsApprove
  BY <1>1 DEF RequirementNeedsApprove
<1> QED
  BY Invariant, <1>2, PTL

-----------------------------------------------------------------------------
(* Dead memories *)

LEMMA RejectedMeansReject ==
    ASSUME NEW m, State(m).status = "rejected"
    PROVE  OfKind(On(obs, m), "reject") # {}
  BY DEF State, Derived, DeriveWithContext, Status

\* Orphan revival: a rejected memory hides no other one, whatever claims were
\* filed and substantiated in whatever order.
THEOREM DeadHideNothing == Spec => []RejectedHidesNothing
<1> DEFINE ctx == BuildContext(mems, obs, Policy)
<1>1. \A a \in ctx.alive : OfKind(On(obs, a), "reject") = {}
  BY DEF BuildContext, Alive
<1>2. ASSUME IInv, NEW m \in mems, State(m).status = "duplicate"
      PROVE  State(m).by \in ctx.alive
  BY <1>2 DEF State, Derived, DeriveWithContext, Status
<1>3. ASSUME IInv, NEW m \in mems, State(m).status = "superseded"
      PROVE  State(m).by \in ctx.alive
  <2> DEFINE claims == {o \in OfKind(obs, "supersede") :
                          /\ o.ref \in mems \ {o.target}
                          /\ o.target \in ctx.alive
                          /\ SupersedeSubstantiated(o, On(obs, o.target), Policy)}
             mine == {o \in claims : o.ref = m}
  <2>1. /\ ctx.supersededBy = [x \in {o.ref : o \in claims} |->
                                 Latest({o \in claims : o.ref = x}).target]
    BY DEF BuildContext
  <2>2. m \in DOMAIN ctx.supersededBy /\ State(m).by = ctx.supersededBy[m]
    BY <1>3 DEF State, Derived, DeriveWithContext, Status
  <2> HIDE DEF ctx
  <2>3. mine # {} /\ State(m).by = Latest(mine).target
    BY <2>1, <2>2
  <2>4. Latest(mine) \in mine
    BY <1>3, <2>3, LatestIsIn DEF IInv, OfKind
  <2> QED
    BY <2>3, <2>4
<1> HIDE DEF ctx
<1>4. IInv => RejectedHidesNothing
  <2>1. ASSUME IInv, NEW m \in mems, State(m).status \in {"duplicate", "superseded"}
        PROVE  State(State(m).by).status # "rejected"
    BY <1>1, <1>2, <1>3, <2>1, RejectedMeansReject
  <2> QED
    BY <2>1 DEF RejectedHidesNothing
<1> QED
  BY Invariant, <1>4, PTL
-----------------------------------------------------------------------------
(* Fan-out *)

\* A ledger with well formed records is one the frame theorem speaks of.
LEMMA InvOnLedger ==
    ASSUME IInv
    PROVE  OnLedger(mems, obs)
<1>1. ASSUME NEW o \in obs
      PROVE  o.id \in Ids /\ CreatedAt[o.id] \in Nat /\ o.target \in mems
  <2>1. o.id \in Ids /\ o.target \in mems
    BY DEF IInv, TypeOK, ObservationOK
  <2> QED
    BY <2>1, LifecycleAssumption
<1>2. ASSUME NEW x \in obs, NEW o \in obs, x.id <= o.id
      PROVE  CreatedAt[x.id] <= CreatedAt[o.id]
  BY <1>1, <1>2, LifecycleAssumption
<1> QED
  BY <1>1, <1>2 DEF OnLedger, IInv

\* No step takes a record away.
LEMMA RecordsStay ==
    ASSUME [Next]_vars
    PROVE  mems \subseteq mems' /\ obs \subseteq obs'
<1>1. \A o : AppendObservation(o) => mems \subseteq mems' /\ obs \subseteq obs'
  BY DEF AppendObservation
<1> QED
  BY <1>1 DEF Next, vars, Propose, Observe, AdjustScope, MarkDuplicate, Supersede, Approve,
              Reject

\* Index.Update derives every memory again whose state a new record changes,
\* however the memories are connected by claims, cycles included.
THEOREM OnePassSuffices == Spec => FanOutSuffices
<1>1. ASSUME IInv, IInv', [Next]_vars, NEW m \in mems, State(m)' # State(m)
      PROVE  m \in FanOut((mems' \ mems) \cup {o.target : o \in Added}, obs')
  <2>1. mems \subseteq mems' /\ obs \subseteq obs'
    BY <1>1, RecordsStay
  <2>2. OnLedger(mems, obs)'
    BY <1>1, InvOnLedger, PTL
  <2>3. OnLedger(mems', obs')
    BY <2>2 DEF OnLedger, Ranked
  <2>4. Derived(m, mems', obs', Policy) # Derived(m, mems, obs, Policy)
    BY <1>1 DEF State
  <2>5. m \in FanOut(Touched(mems, obs, mems', obs'), obs')
    BY <2>1, <2>3, <2>4, OnlyFanOutChanges
  <2> QED
    BY <2>5 DEF Touched, Added
<1>2. IInv /\ IInv' /\ [Next]_vars =>
         [\A m \in mems : State(m)' # State(m) =>
             m \in FanOut((mems' \ mems) \cup {o.target : o \in Added}, obs')]_vars
  BY <1>1
<1> QED
  BY Invariant, <1>2, PTL DEF Spec, FanOutSuffices

-----------------------------------------------------------------------------
(* Rings of claims *)

\* There are finitely many memories, and no memory duplicates itself.
RingInv ==
    /\ IsFiniteSet(mems)
    /\ \A o \in obs : o.kind = "mark_duplicate" => o.ref # o.target

LEMMA NextRing ==
    ASSUME RingInv, [Next]_vars
    PROVE  RingInv'
<1>1. ASSUME NEW o, AppendObservation(o), o.kind = "mark_duplicate" => o.ref # o.target
      PROVE  RingInv'
  BY <1>1 DEF AppendObservation, RingInv
<1>2. CASE UNCHANGED vars
  BY <1>2 DEF vars, RingInv
<1>3. ASSUME NEW t \in Memories, Propose(t)
      PROVE  RingInv'
  BY <1>3, FS_AddElement DEF Propose, RingInv
<1>4. ASSUME NEW t, NEW i, NEW who,
             NEW kind \in {"confirm", "contradict", "mark_stale"}, Observe(kind, who, t, i)
      PROVE  RingInv'
  <2>1. Filed(kind, who, t, i).kind # "mark_duplicate"
    BY DEF Filed
  <2> QED
    BY <1>1, <1>4, <2>1 DEF Observe
<1>5. ASSUME NEW t, NEW i, NEW who, NEW scope, AdjustScope(who, t, scope, i)
      PROVE  RingInv'
  <2>1. [Filed("adjust_scope", who, t, i) EXCEPT !.scope = scope].kind # "mark_duplicate"
    BY DEF Filed
  <2> QED
    BY <1>1, <1>5, <2>1 DEF AdjustScope
<1>6. ASSUME NEW t, NEW i, NEW who, NEW m, MarkDuplicate(who, t, m, i)
      PROVE  RingInv'
  <2> DEFINE o == [Filed("mark_duplicate", who, t, i) EXCEPT !.ref = m]
  <2>1. m # t /\ AppendObservation(o)
    BY <1>6 DEF MarkDuplicate
  <2>2. o.ref = m /\ o.target = t
    BY DEF Filed
  <2> QED
    BY <1>1, <2>1, <2>2
<1>7. ASSUME NEW t, NEW i, NEW who, NEW m, Supersede(who, t, m, i)
      PROVE  RingInv'
  <2>1. [Filed("supersede", who, t, i) EXCEPT !.ref = m].kind # "mark_duplicate"
    BY DEF Filed
  <2> QED
    BY <1>1, <1>7, <2>1 DEF Supersede
<1>8. ASSUME NEW t, NEW i, NEW e, NEW c, Approve(t, e, c, i)
      PROVE  RingInv'
  <2>1. [Decided("approve", t, i) EXCEPT !.enforcement = e, !.confidence = c].kind
            # "mark_duplicate"
    BY DEF Decided, Filed
  <2> QED
    BY <1>1, <1>8, <2>1 DEF Approve
<1>9. ASSUME NEW t, NEW i, Reject(t, i)
      PROVE  RingInv'
  <2>1. Decided("reject", t, i).kind # "mark_duplicate"
    BY DEF Decided, Filed
  <2> QED
    BY <1>1, <1>9, <2>1 DEF Reject
<1> QED
  BY <1>2, <1>3, <1>4, <1>5, <1>6, <1>7, <1>8, <1>9 DEF Next

LEMMA RingInvariant == Spec => []RingInv
<1>1. Init => RingInv
  BY FS_EmptySet DEF Init, RingInv
<1>2. RingInv /\ [Next]_vars => RingInv'
  BY NextRing
<1> QED
  BY <1>1, <1>2, PTL DEF Spec

\* Where a function permutes a finite ring, whoever starts at the image of m and
\* may step from any member but m comes back to m.
LEMMA RingReturns ==
    ASSUME NEW ring, IsFiniteSet(ring), NEW f \in Surjection(ring, ring),
           NEW m \in ring, f[m] # m, NEW visited,
           \A n \in ring : n # m /\ n \in visited \cup {f[m]} => f[n] \in visited
    PROVE  m \in visited
<1> SUFFICES ASSUME m \notin visited PROVE FALSE
  OBVIOUS
<1> DEFINE V == (visited \cup {f[m]}) \cap ring
           g == [n \in V |-> f[n]]
<1>1. f \in [ring -> ring] /\ \A n, k \in ring : f[n] = f[k] => n = k
  <2>1. f \in Injection(ring, ring)
    BY FS_Surjection
  <2> QED
    BY <2>1 DEF Injection, IsInjective
<1>2. m \notin V /\ f[m] \in V
  BY <1>1
<1>3. g \in [V -> V]
  BY <1>1, <1>2
<1>4. g \in Injection(V, V) /\ IsFiniteSet(V)
  <2>1. IsFiniteSet(V)
    BY FS_Subset
  <2>2. \A n, k \in V : g[n] = g[k] => n = k
    BY <1>1
  <2> QED
    BY <1>3, <2>1, <2>2 DEF Injection, IsInjective
<1>5. g \in Surjection(V, V)
  BY <1>4, FS_Injection
<1>6. PICK n \in V : g[n] = f[m]
  BY <1>2, <1>5 DEF Surjection
<1> QED
  BY <1>1, <1>2, <1>6

\* The claims that make a ring, but for the one on m, lead back to m.
LEMMA RingReaches ==
    ASSUME NEW ring, IsFiniteSet(ring), NEW f \in Surjection(ring, ring),
           NEW m \in ring, f[m] # m, NEW os, NEW kind,
           \A n \in ring : n # m => f[n] \in Successors(os, n, kind)
    PROVE  Reaches(os, f[m], m, kind)
<1> SUFFICES ASSUME NEW visited,
                    \A n \in visited \cup {f[m]} : Successors(os, n, kind) \subseteq visited
             PROVE  m \in visited
  BY DEF Reaches
<1>1. \A n \in ring : n # m /\ n \in visited \cup {f[m]} => f[n] \in visited
  OBVIOUS
<1> QED
  BY <1>1, RingReturns

\* A memory that is hidden is hidden by a claim, and superseded by another one.
LEMMA HiddenByClaim ==
    ASSUME IInv, NEW m \in mems, NEW status \in {"duplicate", "superseded"},
           State(m).status = status
    PROVE  /\ \E o \in obs : Hides(o, status, m, State(m).by)
           /\ status = "superseded" => State(m).by # m
<1>1. CASE status = "duplicate"
  <2> DEFINE os == On(obs, m)
  <2>1. Unresolved(os, "mark_duplicate") /\ State(m).by = LatestCanonical(os)
    BY <1>1 DEF State, Derived, DeriveWithContext, Status
  <2>2. os \in SUBSET obs /\ OfKind(os, "mark_duplicate") # {}
    BY <2>1 DEF Unresolved, On
  <2>3. PICK o \in OfKind(os, "mark_duplicate") : LatestCanonical(os) = o.ref
    BY <2>2, InvOnLedger, CanonicalIsClaimed
  <2> QED
    BY <1>1, <2>1, <2>3 DEF Hides, OfKind, On
<1>2. CASE status = "superseded"
  <2> DEFINE ctx == BuildContext(mems, obs, Policy)
             claims == {o \in OfKind(obs, "supersede") :
                          /\ o.ref \in mems \ {o.target}
                          /\ o.target \in ctx.alive
                          /\ SupersedeSubstantiated(o, On(obs, o.target), Policy)}
             mine == {o \in claims : o.ref = m}
  <2>1. ctx.supersededBy = [x \in {o.ref : o \in claims} |->
                               Latest({o \in claims : o.ref = x}).target]
    BY DEF BuildContext
  <2>2. m \in DOMAIN ctx.supersededBy /\ State(m).by = ctx.supersededBy[m]
    BY <1>2 DEF State, Derived, DeriveWithContext, Status
  <2> HIDE DEF ctx
  <2>3. mine # {} /\ State(m).by = Latest(mine).target
    BY <2>1, <2>2
  <2>4. Latest(mine) \in mine
    BY <2>3, LatestIsIn DEF IInv, OfKind
  <2> QED
    BY <1>2, <2>3, <2>4 DEF Hides, OfKind
<1> QED
  BY <1>1, <1>2

\* Whoever claims the last of a ring of duplicates, or of replacements, is warned,
\* for rings of any length.
THEOREM RingsWarn == Spec => []RingsAreWarned
<1>1. ASSUME IInv, RingInv, NEW ring \in SUBSET mems,
             NEW status \in {"duplicate", "superseded"},
             \A m \in ring : State(m).status = status,
             {State(m).by : m \in ring} = ring,
             NEW m \in ring, NEW o \in obs, Hides(o, status, m, State(m).by)
      PROVE  Warned(o)
  <2> DEFINE f == [n \in ring |-> State(n).by]
             others == obs \ {o}
  <2>1. f \in Surjection(ring, ring) /\ IsFiniteSet(ring)
    <3>1. f \in [ring -> ring] /\ \A y \in ring : \E n \in ring : f[n] = y
      BY <1>1
    <3> QED
      BY <1>1, <3>1, FS_Subset DEF Surjection, RingInv
  <2>2. f[m] = State(m).by
    OBVIOUS
  <2>3. \A n \in ring : \E x \in obs : Hides(x, status, n, f[n])
    BY <1>1, HiddenByClaim
  <2> HIDE DEF f
  <2>4. CASE status = "duplicate"
    <3>1. o.kind = "mark_duplicate" /\ o.target = m /\ o.ref = f[m] /\ f[m] # m
      BY <1>1, <2>2, <2>4 DEF Hides, RingInv
    <3>2. \A n \in ring : n # m => f[n] \in Successors(others, n, "mark_duplicate")
      BY <2>3, <2>4, <3>1 DEF Hides, Successors, OfKind
    <3>3. Reaches(others, f[m], m, "mark_duplicate")
      BY <2>1, <3>1, <3>2, RingReaches
    <3> QED
      BY <3>1, <3>3 DEF Warned, HasCycleBackTo
  <2>5. CASE status = "superseded"
    <3>1. o.kind = "supersede" /\ o.ref = m /\ o.target = f[m]
      BY <1>1, <2>2, <2>5 DEF Hides
    <3>2. f[m] # m
      BY <1>1, <2>2, <2>5, HiddenByClaim
    <3>3. \A n \in ring : n # m => f[n] \in Successors(others, n, "supersede")
      BY <2>3, <2>5, <3>1 DEF Hides, Successors, OfKind
    <3>4. Reaches(others, f[m], m, "supersede")
      BY <2>1, <3>2, <3>3, RingReaches
    <3> QED
      BY <3>1, <3>4 DEF Warned, HasCycleBackTo
  <2> QED
    BY <2>4, <2>5
<1>2. IInv /\ RingInv => RingsAreWarned
  BY <1>1 DEF RingsAreWarned
<1> QED
  BY Invariant, RingInvariant, <1>2, PTL

-----------------------------------------------------------------------------
(* Praise *)

\* A step adds one observation at most.
LEMMA StepAddsOne ==
    ASSUME [Next]_vars
    PROVE  \A x, y \in Added : x = y
<1>1. \A o : AppendObservation(o) => \A x, y \in Added : x = y
  BY DEF AppendObservation, Added
<1>2. obs' = obs => \A x, y \in Added : x = y
  BY DEF Added
<1> QED
  BY <1>1, <1>2 DEF Next, vars, Propose, Observe, AdjustScope, MarkDuplicate, Supersede,
                    Approve, Reject

\* Only a human files an approve.
LEMMA ApprovesAreHuman ==
    ASSUME [Next]_vars, NEW o \in Added, o.kind = "approve"
    PROVE  o.human
<1>1. ASSUME NEW x, AppendObservation(x), x.kind # "approve" \/ x.human
      PROVE  o.human
  <2>1. o = x
    BY <1>1 DEF AppendObservation, Added
  <2> QED
    BY <1>1, <2>1
<1>2. ~UNCHANGED vars
  BY DEF vars, Added
<1>3. ASSUME NEW t \in Memories, Propose(t)
      PROVE  FALSE
  BY <1>3 DEF Propose, Added
<1>4. ASSUME NEW t, NEW i, NEW who, NEW kind \in {"confirm", "contradict", "mark_stale"},
             Observe(kind, who, t, i)
      PROVE  o.human
  <2>1. Filed(kind, who, t, i).kind # "approve"
    BY DEF Filed
  <2> QED
    BY <1>1, <1>4, <2>1 DEF Observe
<1>5. ASSUME NEW t, NEW i, NEW who, NEW scope, AdjustScope(who, t, scope, i)
      PROVE  o.human
  <2>1. [Filed("adjust_scope", who, t, i) EXCEPT !.scope = scope].kind # "approve"
    BY DEF Filed
  <2> QED
    BY <1>1, <1>5, <2>1 DEF AdjustScope
<1>6. ASSUME NEW t, NEW i, NEW who, NEW m, MarkDuplicate(who, t, m, i) \/ Supersede(who, t, m, i)
      PROVE  o.human
  <2>1. /\ [Filed("mark_duplicate", who, t, i) EXCEPT !.ref = m].kind # "approve"
        /\ [Filed("supersede", who, t, i) EXCEPT !.ref = m].kind # "approve"
    BY DEF Filed
  <2> QED
    BY <1>1, <1>6, <2>1 DEF MarkDuplicate, Supersede
<1>7. ASSUME NEW t, NEW i, NEW e, NEW c, Approve(t, e, c, i)
      PROVE  o.human
  <2>1. [Decided("approve", t, i) EXCEPT !.enforcement = e, !.confidence = c].human
    BY DEF Decided, Filed
  <2> QED
    BY <1>1, <1>7, <2>1 DEF Approve
<1>8. ASSUME NEW t, NEW i, Reject(t, i)
      PROVE  o.human
  <2>1. Decided("reject", t, i).human
    BY DEF Decided, Filed
  <2> QED
    BY <1>1, <1>8, <2>1 DEF Reject
<1> QED
  BY <1>2, <1>3, <1>4, <1>5, <1>6, <1>7, <1>8 DEF Next

\* A praise newer than everything else leaves nothing open, and a human's makes
\* the memory active unless it is rejected or superseded.
LEMMA PraisedState ==
    ASSUME NEW ms, NEW os, NEW p, NEW o \in os, o.kind \in {"confirm", "approve"},
           \A x \in os : x = o \/ After(o, x)
    PROVE  /\ Derived(o.target, ms, os, p).status \notin {"stale", "duplicate", "contested"}
           /\ o.kind = "approve" /\ o.human =>
                 Derived(o.target, ms, os, p).status \in {"active", "rejected", "superseded"}
<1> DEFINE mine == On(os, o.target)
<1>1. o \in mine /\ \A x \in mine : x = o \/ After(o, x)
  BY DEF On
<1> HIDE DEF mine
<1>2. ASSUME NEW kind \in {"mark_stale", "mark_duplicate", "contradict"}
      PROVE  ~Unresolved(mine, kind)
  <2>1. \A x \in OfKind(mine, kind) : After(o, x)
    BY <1>1 DEF OfKind
  <2>2. o \in OfKind(mine, "confirm") \cup OfKind(mine, "approve")
    BY <1>1 DEF OfKind
  <2> QED
    BY <2>1, <2>2 DEF Unresolved, Resolved
<1>3. ASSUME NEW risk, NEW ctx
      PROVE  /\ Status(o.target, mine, risk, p, ctx) \notin {"stale", "duplicate", "contested"}
             /\ o.kind = "approve" /\ o.human =>
                   Status(o.target, mine, risk, p, ctx) \in {"active", "rejected", "superseded"}
  <2>1. o.kind = "approve" /\ o.human => HumanApproves(mine) # {}
    BY <1>1 DEF HumanApproves, OfKind
  <2>2. o.kind = "approve" /\ o.human => IsActive(o.target, mine, risk, p)
    BY <2>1 DEF IsActive
  <2> QED
    BY <1>2, <2>1, <2>2 DEF Status
<1> QED
  BY <1>3 DEF Derived, DeriveWithContext, mine

\* Praise resolves: whatever stood against the memory, and however the records
\* before it were ordered.
THEOREM PraiseSettles == Spec => PraiseResolves
<1>1. ASSUME [Next]_vars, NEW o \in Added, Newest(o)
      PROVE  /\ o.kind \in {"confirm", "approve"} =>
                    State(o.target)'.status \notin {"stale", "duplicate", "contested"}
             /\ o.kind = "approve" =>
                    State(o.target)'.status \in {"active", "rejected", "superseded"}
  <2>1. o \in obs' /\ \A x \in obs' : x = o \/ After(o, x)
    BY <1>1, StepAddsOne DEF Added, Newest, After
  <2>2. State(o.target)' = Derived(o.target, mems', obs', Policy)
    BY DEF State
  <2> QED
    BY <1>1, <2>1, <2>2, PraisedState, ApprovesAreHuman
<1>2. [Next]_vars =>
          [\A o \in Added : Newest(o) =>
              /\ o.kind \in {"confirm", "approve"} =>
                    State(o.target)'.status \notin {"stale", "duplicate", "contested"}
              /\ o.kind = "approve" =>
                    State(o.target)'.status \in {"active", "rejected", "superseded"}]_vars
  BY <1>1
<1> QED
  BY <1>2, PTL DEF Spec, PraiseResolves
-----------------------------------------------------------------------------
(* What praise can cost *)

\* A praise leaves the records of the other kinds as they were, and opens nothing
\* that was settled.
LEMMA PraiseOpensNothing ==
    ASSUME NEW os, NEW o, o.kind \in {"confirm", "approve"}
    PROVE  /\ OfKind(os \cup {o}, "reject") = OfKind(os, "reject")
           /\ LatestCanonical(os \cup {o}) = LatestCanonical(os)
           /\ \A kind \in {"mark_stale", "mark_duplicate", "contradict"} :
                  Unresolved(os \cup {o}, kind) => Unresolved(os, kind)
<1>1. \A kind : kind \notin {"confirm", "approve"} => OfKind(os \cup {o}, kind) = OfKind(os, kind)
  BY DEF OfKind
<1>2. \A kind : OfKind(os, kind) \subseteq OfKind(os \cup {o}, kind)
  BY DEF OfKind
<1>3. ASSUME NEW kind \in {"mark_stale", "mark_duplicate", "contradict"},
             Unresolved(os \cup {o}, kind)
      PROVE  Unresolved(os, kind)
  BY <1>1, <1>2, <1>3 DEF Unresolved, Resolved
<1>4. LatestCanonical(os \cup {o}) = LatestCanonical(os)
  BY <1>1 DEF LatestCanonical
<1> QED
  BY <1>1, <1>3, <1>4

\* A further record takes no evidence away.
LEMMA EvidenceGrows ==
    ASSUME NEW os, NEW o, NEW m, NEW p
    PROVE  /\ IndependentConfirms(m, os, p) \subseteq IndependentConfirms(m, os \cup {o}, p)
           /\ HumanApproves(os) \subseteq HumanApproves(os \cup {o})
  BY DEF IndependentConfirms, HumanApproves, OfKind

\* Praise of a memory that is alive and not superseded makes no memory dead or
\* alive, and supersedes it by nothing: what claims say of it comes from others.
LEMMA PraiseKeepsContext ==
    ASSUME NEW ms, NEW os, NEW p, NEW o, o.kind \in {"confirm", "approve"},
           o.target \in ms, Alive(On(os, o.target)),
           o.target \notin DOMAIN BuildContext(ms, os, p).supersededBy
    PROVE  /\ BuildContext(ms, os \cup {o}, p).alive = BuildContext(ms, os, p).alive
           /\ o.target \notin DOMAIN BuildContext(ms, os \cup {o}, p).supersededBy
<1> DEFINE m == o.target
           os2 == os \cup {o}
           alive(O) == {a \in ms : Alive(On(O, a))}
           claims(O) == {c \in OfKind(O, "supersede") :
                           /\ c.ref \in ms \ {c.target}
                           /\ c.target \in alive(O)
                           /\ SupersedeSubstantiated(c, On(O, c.target), p)}
<1>1. \A a : a # m => On(os2, a) = On(os, a)
  BY DEF On
<1>2. On(os2, m) = On(os, m) \cup {o}
  BY DEF On
<1>3. Alive(On(os2, m))
  <2>1. /\ OfKind(On(os, m) \cup {o}, "reject") = OfKind(On(os, m), "reject")
        /\ Unresolved(On(os, m) \cup {o}, "mark_stale") => Unresolved(On(os, m), "mark_stale")
    BY PraiseOpensNothing
  <2> QED
    BY <1>2, <2>1 DEF Alive
<1>4. alive(os2) = alive(os)
  BY <1>1, <1>3
<1>5. /\ BuildContext(ms, os, p).alive = alive(os)
      /\ BuildContext(ms, os2, p).alive = alive(os2)
      /\ DOMAIN BuildContext(ms, os, p).supersededBy = {c.ref : c \in claims(os)}
      /\ DOMAIN BuildContext(ms, os2, p).supersededBy = {c.ref : c \in claims(os2)}
  BY DEF BuildContext
<1>6. ASSUME NEW c \in claims(os2), c.ref = m
      PROVE  c \in claims(os)
  <2>1. c.kind = "supersede" /\ c \in os2 /\ c.target # m
    BY <1>6 DEF OfKind
  <2>2. c \in os /\ On(os2, c.target) = On(os, c.target)
    BY <1>1, <2>1
  <2> QED
    BY <1>4, <2>1, <2>2 DEF OfKind
<1> HIDE DEF claims, alive
<1> QED
  BY <1>4, <1>5, <1>6

\* A policy that asks for no less where the risk is higher, as the default one.
TiersGetStricter ==
    \A r, s \in Risks : r <= s =>
        LET low == Policy.tiers[r]
            high == Policy.tiers[s]
        IN  \/ low.auto = "immediate"
            \/ high.auto = "never"
            \/ /\ low.auto = "independent_confirm"
               /\ high.auto = "independent_confirm"
               /\ low.minConfirms <= high.minConfirms

\* What was active at some risk is active with more praise at no higher risk.
LEMMA ActiveStays ==
    ASSUME TiersGetStricter, NEW r \in Risks, NEW s \in Risks, r <= s,
           NEW m, NEW os, NEW o, IsFiniteSet(os), o.kind \in {"confirm", "approve"},
           IsActive(m, os, s, Policy)
    PROVE  IsActive(m, os \cup {o}, r, Policy)
<1> DEFINE before == IndependentConfirms(m, os, Policy)
           after == IndependentConfirms(m, os \cup {o}, Policy)
           low == Policy.tiers[r]
           high == Policy.tiers[s]
<1>1. before \subseteq after /\ HumanApproves(os) \subseteq HumanApproves(os \cup {o})
  <2>1. /\ IndependentConfirms(m, os, Policy) \subseteq IndependentConfirms(m, os \cup {o}, Policy)
        /\ HumanApproves(os) \subseteq HumanApproves(os \cup {o})
    BY EvidenceGrows
  <2> QED
    BY <2>1
<1>2. Cardinality(before) \in Nat /\ Cardinality(after) \in Nat
      /\ Cardinality(before) <= Cardinality(after)
  <2>1. IsFiniteSet(os \cup {o})
    BY FS_AddElement
  <2>2. after \subseteq os \cup {o}
    BY DEF IndependentConfirms, OfKind
  <2> QED
    BY <1>1, <2>1, <2>2, FS_Subset, FS_CardinalityType
<1>3. /\ low.auto \in {"immediate", "independent_confirm", "never"} /\ low.minConfirms \in Nat
      /\ high.auto \in {"immediate", "independent_confirm", "never"} /\ high.minConfirms \in Nat
  BY LifecycleAssumption DEF PolicyOK
<1>4. \/ low.auto = "immediate"
      \/ high.auto = "never"
      \/ /\ low.auto = "independent_confirm"
         /\ high.auto = "independent_confirm"
         /\ low.minConfirms <= high.minConfirms
  BY DEF TiersGetStricter
<1>5. \/ high.auto = "immediate"
      \/ high.auto = "independent_confirm"
         /\ Cardinality(before) >= IF high.minConfirms < 1 THEN 1 ELSE high.minConfirms
      \/ HumanApproves(os) # {}
  BY DEF IsActive
<1> HIDE DEF before, after, low, high
<1>6. CASE HumanApproves(os) # {}
  BY <1>1, <1>6 DEF IsActive
<1>7. CASE low.auto = "immediate"
  BY <1>7 DEF IsActive, low
<1>8. CASE HumanApproves(os) = {} /\ low.auto # "immediate"
  <2>1. /\ low.auto = "independent_confirm" /\ high.auto = "independent_confirm"
        /\ low.minConfirms <= high.minConfirms
    BY <1>3, <1>4, <1>5, <1>8
  <2>2. Cardinality(after) >= IF low.minConfirms < 1 THEN 1 ELSE low.minConfirms
    BY <1>2, <1>3, <1>5, <1>8, <2>1
  <2> QED
    BY <2>1, <2>2 DEF IsActive, low, after
<1> QED
  BY <1>6, <1>7, <1>8

\* Finitely many records are on the ledger.
LEMMA RecordsFinite == Spec => []IsFiniteSet(obs)
<1>1. Init => IsFiniteSet(obs)
  BY FS_EmptySet DEF Init
<1>2. ASSUME IsFiniteSet(obs), [Next]_vars
      PROVE  IsFiniteSet(obs')
  <2>1. \A o : AppendObservation(o) => IsFiniteSet(obs')
    BY <1>2, FS_AddElement DEF AppendObservation
  <2> QED
    BY <1>2, <2>1 DEF Next, vars, Propose, Observe, AdjustScope, MarkDuplicate, Supersede,
                      Approve, Reject
<1>3. IsFiniteSet(obs) /\ [Next]_vars => IsFiniteSet(obs)'
  BY <1>2
<1> QED
  BY <1>1, <1>3, PTL DEF Spec

\* A step that adds a record does nothing else.
LEMMA AddedIsAppended ==
    ASSUME [Next]_vars, NEW o \in Added
    PROVE  AppendObservation(o)
<1>1. ASSUME NEW x, AppendObservation(x)
      PROVE  AppendObservation(o)
  <2>1. o = x
    BY <1>1 DEF AppendObservation, Added
  <2> QED
    BY <1>1, <2>1
<1>2. ~UNCHANGED vars
  BY DEF vars, Added
<1>3. \A t : ~Propose(t)
  BY DEF Propose, Added
<1> QED
  BY <1>1, <1>2, <1>3 DEF Next, Observe, AdjustScope, MarkDuplicate, Supersede, Approve, Reject

\* Where the tiers get stricter with the risk, praise costs a memory its active
\* status in one way only: a broadening it substantiates takes it to a tier that
\* asks for more.
THEOREM PraiseDemotesByRisk ==
    ASSUME TiersGetStricter
    PROVE  Spec => PraiseDemotesOnlyByRisk
<1>1. ASSUME IInv, IsFiniteSet(obs), [Next]_vars, NEW o \in Added,
             o.kind \in {"confirm", "approve"}, State(o.target).status = "active",
             State(o.target)'.status # "active"
      PROVE  State(o.target)'.risk > State(o.target).risk
  <2> DEFINE m == o.target
             os == On(obs, m)
             risk1 == RiskForScope(m, EffectiveScope(m, os, Policy), Policy)
             risk2 == RiskForScope(m, EffectiveScope(m, os \cup {o}, Policy), Policy)
             ctx1 == BuildContext(mems, obs, Policy)
             ctx2 == BuildContext(mems, obs \cup {o}, Policy)
  <2>1. m \in mems /\ m \in Memories /\ mems' = mems /\ obs' = obs \cup {o}
    BY <1>1, AddedIsAppended DEF AppendObservation, IInv, TypeOK
  <2>2. On(obs \cup {o}, m) = os \cup {o}
    BY DEF On
  <2>3. State(m).risk = risk1 /\ State(m).status = Status(m, os, risk1, Policy, ctx1)
    BY DEF State, Derived, DeriveWithContext
  <2>4. State(m)' = Derived(m, mems', obs', Policy)
    BY DEF State
  <2>5. State(m)' = DeriveWithContext(m, os \cup {o}, Policy, ctx2)
    BY <2>1, <2>2, <2>4 DEF Derived
  <2>6. State(m)'.risk = risk2 /\ State(m)'.status = Status(m, os \cup {o}, risk2, Policy, ctx2)
    BY <2>5 DEF DeriveWithContext
  <2>7. risk1 \in Risks /\ risk2 \in Risks
    BY <2>1, RiskIsRisk
  <2>8. os \subseteq obs /\ IsFiniteSet(os)
    BY <1>1, FS_Subset DEF On
  <2> HIDE DEF risk1, risk2, os, ctx1, ctx2
  <2>9. /\ OfKind(os, "reject") = {} /\ ~Unresolved(os, "mark_stale")
        /\ ~(Unresolved(os, "mark_duplicate") /\ LatestCanonical(os) \in ctx1.alive)
        /\ m \notin DOMAIN ctx1.supersededBy
        /\ ~Unresolved(os, "contradict")
        /\ ~(/\ Envelope[m].type = "successful_pattern"
             /\ IndependentConfirms(m, os, Policy) = {}
             /\ HumanApproves(os) = {})
        /\ IsActive(m, os, risk1, Policy)
    BY <1>1, <2>3 DEF Status
  <2>10. ctx2.alive = ctx1.alive /\ m \notin DOMAIN ctx2.supersededBy
    BY <1>1, <2>1, <2>9, PraiseKeepsContext DEF Alive, ctx1, ctx2, os
  <2>11. SUFFICES ASSUME risk2 <= risk1 PROVE FALSE
    BY <2>3, <2>6, <2>7 DEF Risks
  <2>12. IsActive(m, os \cup {o}, risk2, Policy)
    BY <1>1, <2>7, <2>8, <2>9, <2>11, ActiveStays
  <2>13. /\ OfKind(os \cup {o}, "reject") = OfKind(os, "reject")
         /\ LatestCanonical(os \cup {o}) = LatestCanonical(os)
         /\ \A kind \in {"mark_stale", "mark_duplicate", "contradict"} :
               Unresolved(os \cup {o}, kind) => Unresolved(os, kind)
    BY <1>1, PraiseOpensNothing
  <2>14. /\ IndependentConfirms(m, os, Policy) \subseteq IndependentConfirms(m, os \cup {o}, Policy)
         /\ HumanApproves(os) \subseteq HumanApproves(os \cup {o})
    BY EvidenceGrows
  <2>15. Status(m, os \cup {o}, risk2, Policy, ctx2) = "active"
    BY <2>9, <2>10, <2>12, <2>13, <2>14 DEF Status
  <2> QED
    BY <1>1, <2>6, <2>15
<1>2. IInv /\ IsFiniteSet(obs) /\ [Next]_vars =>
          [\A o \in Added : LET m == o.target IN
              (/\ o.kind \in {"confirm", "approve"}
               /\ State(m).status = "active"
               /\ State(m)'.status # "active")
              => State(m)'.risk > State(m).risk]_vars
  BY <1>1
<1> QED
  BY Invariant, RecordsFinite, <1>2, PTL DEF Spec, PraiseDemotesOnlyByRisk

-----------------------------------------------------------------------------
(* Scope *)

\* A memory reaches beyond its proposed scope only with evidence from a human or
\* from somebody else who was outside it: no chain of narrowings and broadenings
\* gets around it.
THEOREM BroadeningIsEarned == Spec => []BroadeningNeedsEvidence
<1>1. ASSUME IInv, IsFiniteSet(obs), NEW m \in mems, State(m).scope \ Envelope[m].scope # {}
      PROVE  \E o \in obs :
                /\ o.target = m
                /\ \/ o.kind = "approve" /\ o.human
                   \/ /\ o.kind = "confirm"
                      /\ o.session \notin {NoOne, Envelope[m].session}
                      /\ o.places \cap Envelope[m].scope = {}
  <2> DEFINE os == On(obs, m)
             scope == EffectiveScope(m, os, Policy)
  <2>1. State(m).scope = scope
    BY DEF State, Derived, DeriveWithContext
  <2>2. os \subseteq obs /\ IsFiniteSet(os) /\ Ranked(os)
    <3>1. os \subseteq obs
      BY DEF On
    <3> QED
      BY <1>1, <3>1, FS_Subset DEF IInv, Ranked
  <2>3. \A o \in os : o \in obs /\ o.target = m
    BY DEF On
  <2> HIDE DEF os
  <2>4. PICK a \in OfKind(os, "adjust_scope") : BroadeningSubstantiated(a, m, os, Policy)
    <3>1. \/ scope \subseteq Envelope[m].scope
          \/ \E a \in OfKind(os, "adjust_scope") :
                /\ BroadeningSubstantiated(a, m, os, Policy)
                /\ scope \subseteq a.scope
      BY <2>2, ScopeIsGrounded
    <3> HIDE DEF scope
    <3> QED
      BY <1>1, <2>1, <3>1
  <2>5. CASE \E o \in HumanApproves(os) : After(o, a)
    BY <2>3, <2>5 DEF HumanApproves, OfKind
  <2>6. CASE \E o \in IndependentConfirms(m, os, Policy) : o.places \cap Envelope[m].scope = {}
    <3>1. PICK o \in IndependentConfirms(m, os, Policy) : o.places \cap Envelope[m].scope = {}
      BY <2>6
    <3>2. o \in os /\ o.kind = "confirm" /\ IsIndependent(o, m, Policy)
      BY DEF IndependentConfirms, OfKind
    <3>3. o.session \notin {NoOne, Envelope[m].session}
      BY <3>2 DEF IsIndependent
    <3> QED
      BY <2>3, <3>1, <3>2, <3>3
  <2> QED
    BY <2>4, <2>5, <2>6 DEF BroadeningSubstantiated
<1>2. IInv /\ IsFiniteSet(obs) => BroadeningNeedsEvidence
  BY <1>1 DEF BroadeningNeedsEvidence
<1> QED
  BY Invariant, RecordsFinite, <1>2, PTL

=============================================================================

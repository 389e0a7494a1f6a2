------------------------------- MODULE Derive -------------------------------
(***************************************************************************)
(* Derivation: the state of a memory as a pure function of the memory, the  *)
(* observations on the ledger and the policy (src/internal/derive).         *)
(*                                                                          *)
(* A scope is the set of places (paths and commands) its globs and patterns *)
(* match, so that scopeSubset is \subseteq and matching is \in; how well    *)
(* the code decides these on glob text is not the subject of this module.   *)
(* An observation's id is its rank in ULID order, which is also the order   *)
(* of CreatedAt, except that two records of one instant share a CreatedAt   *)
(* (CreatedAt[id]). FanOut says which states an incremental index derives    *)
(* again (src/internal/index/replay.go).                                    *)
(***************************************************************************)
EXTENDS Naturals, FiniteSets, SequencesExt

CONSTANTS Memories,    \* memory ids
          Envelope,    \* Envelope[m]: the immutable memory record
          CreatedAt,   \* CreatedAt[id]: the time stamped on the record
          BroadScopes, \* scopes matching more than one top-level directory
          NoOne,       \* an empty session id, email or branch
          Unset        \* an empty reference, enforcement or confidence

Risks == 0 .. 3         \* low, medium, high, critical
Confidences == 0 .. 2   \* low, medium, high
Enforcements == {"hint", "recommendation", "warning", "requirement"}

\* The last and the first observation of a non-empty set, in ULID order.
Latest(os) == CHOOSE o \in os : \A x \in os : x.id <= o.id
First(os)  == CHOOSE o \in os : \A x \in os : o.id <= x.id

OfKind(os, kind) == {o \in os : o.kind = kind}
On(os, m)        == {o \in os : o.target = m}
HumanApproves(os) == {o \in OfKind(os, "approve") : o.human}

\* o was created strictly after x.
After(o, x) == CreatedAt[o.id] > CreatedAt[x.id]

-----------------------------------------------------------------------------
(* Independence and resolution (status.go) *)

\* Missing identity or branch degrades to the session rule.
IsIndependent(o, m, p) ==
    /\ o.session \notin {NoOne, Envelope[m].session}
    /\ p.independence = "different_actor" =>
           \/ NoOne \in {o.email, Envelope[m].email}
           \/ o.email # Envelope[m].email
    /\ p.independence = "different_session_and_branch" =>
           \/ NoOne \in {o.branch, Envelope[m].branch}
           \/ o.branch # Envelope[m].branch

IndependentConfirms(m, os, p) ==
    {o \in OfKind(os, "confirm") : IsIndependent(o, m, p)}

\* Broken variant: only a maintainer's approve resolves.
Resolved_ByApproveOnly(os, x) == \E o \in OfKind(os, "approve") : After(o, x)

\* A confirm (of anyone) or an approve strictly newer than x resolves x.
Resolved(os, x) ==
    \E o \in OfKind(os, "confirm") \cup OfKind(os, "approve") : After(o, x)

\* The latest observation of the kind has nothing newer that resolves it: some
\* one has nothing newer.
Unresolved(os, kind) == \E x \in OfKind(os, kind) : ~Resolved(os, x)

\* canonical_id of the newest mark_duplicate; of several with its CreatedAt the
\* first one in ULID order.
LatestCanonical(os) ==
    LET dups == OfKind(os, "mark_duplicate")
    IN  IF dups = {} THEN Unset
        ELSE First({o \in dups : ~ \E x \in dups : After(x, o)}).ref

-----------------------------------------------------------------------------
(* Effective scope (scope.go) *)

\* Broken variant: any later confirm is taken for evidence.
BroadeningSubstantiated_ByAnyConfirm(a, m, os, p) ==
    \E o \in HumanApproves(os) \cup OfKind(os, "confirm") : After(o, a)

\* A later human approve, or a later independent confirm whose code context
\* meets the suggested scope and not the scope of the envelope.
BroadeningSubstantiated(a, m, os, p) ==
    \/ \E o \in HumanApproves(os) : After(o, a)
    \/ \E o \in IndependentConfirms(m, os, p) :
          /\ After(o, a)
          /\ o.places \cap a.scope # {}
          /\ o.places \cap Envelope[m].scope = {}

\* Adjustments in the order of time: a narrowing always applies, a broadening
\* once it is substantiated.
EffectiveScope(m, os, p) ==
    LET adjustments == OfKind(os, "adjust_scope")
        Walked[as \in SUBSET adjustments] ==
            IF as = {} THEN Envelope[m].scope
            ELSE LET last == Latest(as)
                     cur  == Walked[as \ {last}]
                 IN  IF last.scope \subseteq cur \/ BroadeningSubstantiated(last, m, os, p)
                     THEN last.scope ELSE cur
    IN  Walked[adjustments]

-----------------------------------------------------------------------------
(* Risk (risk.go) *)

AtLeast(risk, floors) ==
    CHOOSE r \in {risk} \cup floors : \A f \in {risk} \cup floors : f <= r

BaseRisk(m, p) ==
    AtLeast(p.baseRisk[Envelope[m].type],
            IF Envelope[m].type = "constraint" /\ Envelope[m].external THEN {2} ELSE {})

Bump(risk) == IF risk = 3 THEN 3 ELSE risk + 1

RiskForScope(m, scope, p) ==
    AtLeast(IF p.broadScopeBump /\ scope \in BroadScopes
            THEN Bump(BaseRisk(m, p)) ELSE BaseRisk(m, p),
            {s.minRisk : s \in {x \in p.sensitive : x.places \cap scope # {}}})

-----------------------------------------------------------------------------
(* Cross-memory context (supersede.go) *)

\* Broken variant: a rejected memory counts as alive.
Alive_DespiteReject(os) == ~Unresolved(os, "mark_stale")

\* Not rejected and not under an unresolved mark_stale.
Alive(os) == OfKind(os, "reject") = {} /\ ~Unresolved(os, "mark_stale")

\* A later human approve or a later independent confirm on the new canonical.
SupersedeSubstantiated(o, aObs, p) ==
    \E x \in HumanApproves(aObs) \cup IndependentConfirms(o.target, aObs, p) : After(x, o)

\* alive is consulted only where a mark_duplicate or a supersede exists, so the
\* shortcut for ledgers without any is left out.
BuildContext(mems, os, p) ==
    LET alive == {m \in mems : Alive(On(os, m))}
        \* Substantiated claims whose two memories are on the ledger.
        claims == {o \in OfKind(os, "supersede") :
                      /\ o.ref \in mems \ {o.target}
                      /\ o.target \in alive
                      /\ SupersedeSubstantiated(o, On(os, o.target), p)}
    IN  [alive |-> alive,
         supersededBy |-> [m \in {o.ref : o \in claims} |->
                              Latest({o \in claims : o.ref = m}).target]]

-----------------------------------------------------------------------------
(* Status, confidence and enforcement (status.go, confidence.go,            *)
(* enforcement.go)                                                          *)

IsActive(m, os, risk, p) ==
    LET tier == p.tiers[risk]
        threshold == IF tier.minConfirms < 1 THEN 1 ELSE tier.minConfirms
    IN  \/ tier.auto = "immediate"
        \/ tier.auto = "independent_confirm"
           /\ Cardinality(IndependentConfirms(m, os, p)) >= threshold
        \/ HumanApproves(os) # {}

\* Broken variant: the successful_pattern gate is the wrong way round.
Status_GateInverted(m, os, risk, p, ctx) ==
    IF OfKind(os, "reject") # {} THEN "rejected"
    ELSE IF Unresolved(os, "mark_stale") THEN "stale"
    ELSE IF Unresolved(os, "contradict") THEN "contested"
    ELSE IF Envelope[m].type = "successful_pattern" /\ IndependentConfirms(m, os, p) # {}
         THEN "provisional"
    ELSE IF IsActive(m, os, risk, p) THEN "active" ELSE "provisional"

\* The first rung of the ladder that applies. A successful_pattern stays
\* provisional until somebody else confirms it.
Status(m, os, risk, p, ctx) ==
    IF OfKind(os, "reject") # {} THEN "rejected"
    ELSE IF Unresolved(os, "mark_stale") THEN "stale"
    ELSE IF Unresolved(os, "mark_duplicate") /\ LatestCanonical(os) \in ctx.alive
         THEN "duplicate"
    ELSE IF m \in DOMAIN ctx.supersededBy THEN "superseded"
    ELSE IF Unresolved(os, "contradict") THEN "contested"
    ELSE IF /\ Envelope[m].type = "successful_pattern"
            /\ IndependentConfirms(m, os, p) = {}
            /\ HumanApproves(os) = {}
         THEN "provisional"
    ELSE IF IsActive(m, os, risk, p) THEN "active" ELSE "provisional"

\* Of the approves that set an enforcement, or a confidence, the first counts.
SetEnforcement(os) ==
    LET setters == {o \in OfKind(os, "approve") : o.enforcement # Unset}
    IN  IF setters = {} THEN Unset ELSE First(setters).enforcement
SetConfidence(os) ==
    LET setters == {o \in OfKind(os, "approve") : o.confidence # Unset}
    IN  IF setters = {} THEN Unset ELSE First(setters).confidence

\* One step down for every contradiction, resolved or not.
Confidence(m, os, p) ==
    LET confirms == Cardinality(IndependentConfirms(m, os, p))
        contradictions == Cardinality(OfKind(os, "contradict"))
        level == IF SetConfidence(os) # Unset THEN SetConfidence(os)
                 ELSE IF confirms >= 2 \/ HumanApproves(os) # {} THEN 2
                 ELSE confirms
    IN  IF contradictions > level THEN 0 ELSE level - contradictions

\* Broken variant: an approve that sets nothing is taken for the strongest level.
Enforcement_ApproveBinds(os, status, risk, p) ==
    IF HumanApproves(os) # {} THEN "requirement"
    ELSE IF status # "active" THEN "hint"
    ELSE p.tiers[risk].maxEnforcement

Enforcement(os, status, risk, p) ==
    IF SetEnforcement(os) # Unset THEN SetEnforcement(os)
    ELSE IF status # "active" THEN "hint"
    ELSE IF p.tiers[risk].maxEnforcement = Unset THEN "recommendation"
    ELSE p.tiers[risk].maxEnforcement

\* DeriveWithContext on the observations of one memory. by is the memory the
\* reason names.
DeriveWithContext(m, os, p, ctx) ==
    LET scope  == EffectiveScope(m, os, p)
        risk   == RiskForScope(m, scope, p)
        status == Status(m, os, risk, p, ctx)
    IN  [status         |-> status,
         risk           |-> risk,
         confidence     |-> Confidence(m, os, p),
         enforcement    |-> Enforcement(os, status, risk, p),
         scope          |-> scope,
         confirms       |-> Cardinality(IndependentConfirms(m, os, p)),
         contradictions |-> Cardinality(OfKind(os, "contradict")),
         by             |-> IF status = "duplicate" THEN LatestCanonical(os)
                            ELSE IF status = "superseded" THEN ctx.supersededBy[m]
                            ELSE Unset]

\* The state of m on a ledger with these memories and observations.
Derived(m, mems, os, p) == DeriveWithContext(m, On(os, m), p, BuildContext(mems, os, p))

-----------------------------------------------------------------------------
(* Rings of claims (supersede.go) *)

\* The memories that node is said to duplicate, or to be replaced by.
Successors(os, node, kind) ==
    IF kind = "mark_duplicate"
    THEN {o.ref : o \in {x \in OfKind(os, kind) : x.target = node}}
    ELSE {o.target : o \in {x \in OfKind(os, kind) : x.ref = node}}

\* goal follows start in the claims of a kind: it is in every set that holds the
\* successors of start and of its own members.
Reaches(os, start, goal, kind) ==
    \A visited \in SUBSET Memories :
        (\A n \in visited \cup {start} : Successors(os, n, kind) \subseteq visited)
            => goal \in visited

\* Broken variant: only a claim the other way round is looked for.
HasCycleBackTo_OneStep(os, a, b, kind) ==
    IF kind = "mark_duplicate" THEN a \in Successors(os, b, kind)
    ELSE b \in Successors(os, a, kind)

\* A claim about a and b would close a ring of claims of its kind.
HasCycleBackTo(os, a, b, kind) ==
    IF kind = "mark_duplicate" THEN Reaches(os, b, a, kind) ELSE Reaches(os, a, b, kind)

-----------------------------------------------------------------------------
(* Fan-out (replay.go) *)

\* Broken variant: the pass forgets the duplicates of a memory.
FanOut_NoDuplicates(affected, os) ==
    affected \cup {o.ref : o \in {x \in OfKind(os, "supersede") : x.target \in affected}}

\* Index.Update: from the memories that new records name, one pass to those that
\* point at them by a mark_duplicate or are the object of their supersedes.
FanOut(affected, os) ==
    affected \cup {o.ref : o \in {x \in OfKind(os, "supersede") : x.target \in affected}}
             \cup {o.target : o \in {x \in OfKind(os, "mark_duplicate") : x.ref \in affected}}
=============================================================================

----------------------------- MODULE Lifecycle -----------------------------
(***************************************************************************)
(* The life of the memories on one clone's ledger: proposals, what agents   *)
(* observe and what humans decide, one record at a time, whether it is      *)
(* appended here or arrives with a sync (src/internal/cli/propose.go,       *)
(* observe.go, govern.go and the tools of src/internal/mcp/server.go).      *)
(*                                                                          *)
(* Status, risk, confidence, enforcement and scope are not state: Derive    *)
(* computes them from the records. A record may carry any free id, so that  *)
(* it can be older than records that are already there: clocks differ       *)
(* between machines and a sync delivers late.                               *)
(***************************************************************************)
EXTENDS Derive

CONSTANTS Ids,          \* ULID ranks an observation can have
          Agents,       \* actors: [session, email, branch, places]
          Scopes,       \* scopes an agent may suggest
          EnforcementChoices, ConfidenceChoices,  \* what `tm approve` may set. It
                        \* does not check the words it is given: an enforcement
                        \* may be any, and an unknown confidence counts as low
          Policy        \* policy.yaml, see PolicyOK

PolicyOK ==
    /\ \A m \in Memories : Policy.baseRisk[Envelope[m].type] \in Risks
    /\ Policy.broadScopeBump \in BOOLEAN
    /\ \A s \in Policy.sensitive : s.minRisk \in Risks
    /\ Policy.independence \in
           {"different_session", "different_session_and_branch", "different_actor"}
    /\ \A r \in Risks :
          /\ Policy.tiers[r].auto \in {"immediate", "independent_confirm", "never"}
          /\ Policy.tiers[r].minConfirms \in Nat
          /\ Policy.tiers[r].maxEnforcement \in Enforcements \cup {Unset}

ASSUME LifecycleAssumption ==
    /\ Ids \subseteq Nat
    /\ CreatedAt \in [Ids -> Nat]
    /\ \A i, j \in Ids : i <= j => CreatedAt[i] <= CreatedAt[j]
    /\ Unset \notin Memories /\ Unset \notin Enforcements /\ Unset \notin Confidences
    /\ ConfidenceChoices \subseteq Confidences \cup {Unset}
    /\ {} \notin Scopes
    /\ PolicyOK

VARIABLES mems,  \* memories on the ledger
          obs    \* observations on the ledger

vars == <<mems, obs>>

-----------------------------------------------------------------------------
\* What an agent files: agentActor, and the code context it was working in.
Filed(kind, who, t, i) ==
    [id |-> i, target |-> t, kind |-> kind, human |-> FALSE,
     session |-> who.session, email |-> who.email, branch |-> who.branch,
     places |-> who.places, scope |-> {}, ref |-> Unset,
     enforcement |-> Unset, confidence |-> Unset]

\* What a human decides: humanActor has no session and no email.
Decided(kind, t, i) ==
    [Filed(kind, [session |-> NoOne, email |-> NoOne, branch |-> NoOne, places |-> {}], t, i)
        EXCEPT !.human = TRUE]

\* AppendObservation, once the target was found on the ledger.
AppendObservation(o) ==
    /\ o.target \in mems
    /\ \A x \in obs : x.id # o.id
    /\ obs' = obs \cup {o}
    /\ UNCHANGED mems

Propose(m) ==
    /\ m \notin mems
    /\ mems' = mems \cup {m}
    /\ UNCHANGED obs

\* confirm, contradict and mark_stale say nothing but their kind.
Observe(kind, who, t, i) == AppendObservation(Filed(kind, who, t, i))

AdjustScope(who, t, scope, i) ==
    AppendObservation([Filed("adjust_scope", who, t, i) EXCEPT !.scope = scope])

\* Broken variant: the memory to keep is not looked up.
MarkDuplicate_Unchecked(who, t, canonical, i) ==
    AppendObservation([Filed("mark_duplicate", who, t, i) EXCEPT !.ref = canonical])

\* t duplicates the memory to keep, which must be another one on the ledger.
MarkDuplicate(who, t, canonical, i) ==
    /\ canonical \in mems \ {t}
    /\ AppendObservation([Filed("mark_duplicate", who, t, i) EXCEPT !.ref = canonical])

\* t replaces an obsolete memory.
Supersede(who, t, obsolete, i) ==
    /\ obsolete \in mems \ {t}
    /\ AppendObservation([Filed("supersede", who, t, i) EXCEPT !.ref = obsolete])

Approve(t, enforcement, confidence, i) ==
    AppendObservation([Decided("approve", t, i) EXCEPT !.enforcement = enforcement,
                                                       !.confidence = confidence])

Reject(t, i) == AppendObservation(Decided("reject", t, i))

Init == mems = {} /\ obs = {}

Next ==
    \E t \in Memories :
       \/ Propose(t)
       \/ \E i \in Ids, who \in Agents :
             \/ \E kind \in {"confirm", "contradict", "mark_stale"} : Observe(kind, who, t, i)
             \/ \E scope \in Scopes : AdjustScope(who, t, scope, i)
             \/ \E m \in Memories : MarkDuplicate(who, t, m, i) \/ Supersede(who, t, m, i)
       \/ \E i \in Ids :
             \/ \E e \in EnforcementChoices, c \in ConfidenceChoices : Approve(t, e, c, i)
             \/ Reject(t, i)

Spec == Init /\ [][Next]_vars

-----------------------------------------------------------------------------
(* Properties *)

\* tm show, tm list and the index: the derived state of m.
State(m) == Derived(m, mems, obs, Policy)

ObservationOK(o) ==
    /\ o.id \in Ids
    /\ o.target \in mems
    /\ o.kind \in {"confirm", "contradict", "adjust_scope", "mark_stale", "mark_duplicate",
                   "supersede", "approve", "reject"}
    /\ o.ref \in mems \cup {Unset}
    /\ o.enforcement \in EnforcementChoices \cup {Unset}
    /\ o.confidence \in Confidences \cup {Unset}
    /\ o.enforcement # Unset => o.kind = "approve" /\ o.human

\* Observations are well formed, refer to memories that are there, and only a
\* human's approve sets an enforcement; ULIDs are unique.
TypeOK ==
    /\ mems \subseteq Memories
    /\ \A o \in obs : ObservationOK(o)
    /\ \A o, x \in obs : o.id = x.id => o = x

\* Only a human makes a memory block: while no tier of the policy reaches
\* requirement by itself, one that does was given it by name in an approve,
\* whatever agents filed before or after.
RequirementNeedsApprove ==
    \A m \in mems : State(m).enforcement = "requirement" =>
        \E o \in HumanApproves(On(obs, m)) : o.enforcement = "requirement"

\* Orphan revival: a rejected memory hides no other one, neither as its
\* canonical nor as its successor, whatever claims were substantiated before.
RejectedHidesNothing ==
    \A m \in mems : State(m).status \in {"duplicate", "superseded"} =>
        State(State(m).by).status # "rejected"

\* o is a claim by which m can be hidden behind the memory by.
Hides(o, status, m, by) ==
    \/ status = "duplicate" /\ o.kind = "mark_duplicate" /\ o.target = m /\ o.ref = by
    \/ status = "superseded" /\ o.kind = "supersede" /\ o.ref = m /\ o.target = by

\* The note of `tm observe`: the claim closes a ring with the other ones.
Warned(o) ==
    /\ o.kind \in {"mark_duplicate", "supersede"}
    /\ HasCycleBackTo(obs \ {o}, o.target, o.ref, o.kind)

\* Memories that hide one another in a ring, as duplicates or as superseded: every
\* claim on the ring closes it with the others, however long it is, so whoever
\* filed the last of them with the others on his ledger was warned (detectCycle).
RingsAreWarned ==
    \A ring \in SUBSET mems, status \in {"duplicate", "superseded"} :
        (/\ \A m \in ring : State(m).status = status
         /\ {State(m).by : m \in ring} = ring)
        => \A m \in ring, o \in obs : Hides(o, status, m, State(m).by) => Warned(o)

\* A place outside the proposed scope is covered only after a human approve or
\* an independent confirm from outside that scope, however narrowings and
\* broadenings are chained (effectiveScope).
BroadeningNeedsEvidence ==
    \A m \in mems : State(m).scope \ Envelope[m].scope # {} =>
        \E o \in obs :
           /\ o.target = m
           /\ \/ o.kind = "approve" /\ o.human
              \/ /\ o.kind = "confirm"
                 /\ o.session \notin {NoOne, Envelope[m].session}
                 /\ o.places \cap Envelope[m].scope = {}

\* The observation a step adds.
Added == obs' \ obs
Newest(o) == \A x \in obs : CreatedAt[x.id] < CreatedAt[o.id]

\* A confirm or an approve takes a memory out of active in one way only: it
\* substantiates a broadening that raises the risk.
PraiseDemotesOnlyByRisk ==
    [][\A o \in Added : LET m == o.target IN
          (/\ o.kind \in {"confirm", "approve"}
           /\ State(m).status = "active"
           /\ State(m)'.status # "active")
          => State(m)'.risk > State(m).risk]_vars

\* The newest record being a confirm or an approve, whatever stood against the
\* memory (staleness, a duplicate claim, a contradiction) is resolved; a human
\* approve makes it active.
PraiseResolves ==
    [][\A o \in Added : Newest(o) =>
          /\ o.kind \in {"confirm", "approve"} =>
                State(o.target)'.status \notin {"stale", "duplicate", "contested"}
          /\ o.kind = "approve" =>
                State(o.target)'.status \in {"active", "rejected", "superseded"}]_vars

\* A new record changes the state of no memory but those Index.Update derives
\* again: the ones the record names and, one step on, those that point at them.
FanOutSuffices ==
    [][\A m \in mems : State(m)' # State(m) =>
          m \in FanOut((mems' \ mems) \cup {o.target : o \in Added}, obs')]_vars

\* --- what the documentation says of a human's approve ---

\* prd.md 8.4: "A human `approve` observation may set enforcement explicitly, up
\* to `requirement`" (govern.go: "optionally raise enforcement"). One that names
\* requirement and is newer than every other record makes its memory one.
ApproveSetsRequirement ==
    [][\A o \in Added :
          o.kind = "approve" /\ o.enforcement = "requirement" /\ Newest(o)
             => State(o.target)'.enforcement = "requirement"]_vars
=============================================================================

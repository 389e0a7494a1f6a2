---------------------------- MODULE DeriveProofs ----------------------------
(***************************************************************************)
(* Lemmas about Derive: for any memories, records and policy.               *)
(***************************************************************************)
EXTENDS Derive, WellFoundedInduction, FiniteSetTheorems, TLAPS

\* Observations whose ids are bounded numbers: there is a first and a last one.
Ranked(os) == \E n \in Nat : \A o \in os : o.id \in Nat /\ o.id <= n

-----------------------------------------------------------------------------
(* First and last observations *)

LEMMA LeastNumber ==
    ASSUME NEW S \in SUBSET Nat, S # {}
    PROVE  \E n \in S : \A k \in S : n <= k
<1> DEFINE R == {ss \in Nat \X Nat : ss[1] < ss[2]}
<1>1. IsWellFoundedOn(R, Nat)
  BY NatLessThanWellFounded DEF OpToRel
<1>2. PICK n \in S : \A k \in S : ~(<<k, n>> \in R)
  BY <1>1, WFMin
<1>3. ASSUME NEW k \in S PROVE n <= k
  <2>1. <<k, n>> \in Nat \X Nat /\ <<k, n>>[1] = k /\ <<k, n>>[2] = n
    OBVIOUS
  <2>2. ~(k < n)
    BY <1>2, <2>1
  <2> QED
    BY <2>2
<1> QED
  BY <1>3

\* Any part of ranked observations has a first and a last one.
LEMMA FirstIsIn ==
    ASSUME NEW os, Ranked(os), NEW S \in SUBSET os, S # {}
    PROVE  First(S) \in S /\ \A x \in S : First(S).id <= x.id
<1> DEFINE ids == {o.id : o \in S}
<1>1. ids \in SUBSET Nat /\ ids # {}
  BY DEF Ranked
<1> HIDE DEF ids
<1>2. PICK n \in ids : \A k \in ids : n <= k
  BY <1>1, LeastNumber
<1>3. PICK o \in S : o.id = n
  BY DEF ids
<1>4. \A x \in S : o.id <= x.id
  BY <1>2, <1>3 DEF ids
<1> QED
  BY <1>4 DEF First

LEMMA LatestIsIn ==
    ASSUME NEW os, Ranked(os), NEW S \in SUBSET os, S # {}
    PROVE  Latest(S) \in S /\ \A x \in S : x.id <= Latest(S).id
<1> DEFINE bounds == {n \in Nat : \A o \in S : o.id <= n}
<1>1. \A o \in S : o.id \in Nat
  BY DEF Ranked
<1>2. bounds \in SUBSET Nat /\ bounds # {}
  BY DEF Ranked
<1> HIDE DEF bounds
<1>3. PICK n \in bounds : \A k \in bounds : n <= k
  BY <1>2, LeastNumber
<1>4. \E o \in S : o.id = n
  <2>1. SUFFICES ASSUME \A o \in S : o.id # n PROVE FALSE
    OBVIOUS
  <2>2. PICK o \in S : TRUE
    OBVIOUS
  <2>3. n \in Nat /\ n - 1 \in Nat /\ \A x \in S : x.id <= n - 1
    BY <1>1, <1>3, <2>1, <2>2 DEF bounds
  <2>4. n - 1 \in bounds
    BY <2>3 DEF bounds
  <2> QED
    BY <1>3, <2>3, <2>4
<1>5. PICK o \in S : \A x \in S : x.id <= o.id
  BY <1>3, <1>4 DEF bounds
<1> QED
  BY <1>5 DEF Latest

-----------------------------------------------------------------------------
(* Effective scope *)

\* The scope a walk over some adjustments has come to: f says where it was before
\* the last one of them.
Walk(m, os, p, f, as) ==
    IF as = {} THEN Envelope[m].scope
    ELSE IF \/ Latest(as).scope \subseteq f[as \ {Latest(as)}]
            \/ BroadeningSubstantiated(Latest(as), m, os, p)
         THEN Latest(as).scope ELSE f[as \ {Latest(as)}]

\* f says of all walks over some of the adjustments A where they come to.
IsWalk(m, os, p, A, f) == f = [as \in SUBSET A |-> Walk(m, os, p, f, as)]

\* Taking the last one out of finitely many adjustments leaves fewer of them.
LEMMA OneFewer ==
    ASSUME NEW os, Ranked(os), IsFiniteSet(os), NEW as \in SUBSET os, as # {}
    PROVE  /\ Latest(as) \in as
           /\ as \ {Latest(as)} \in SUBSET os
           /\ Cardinality(as \ {Latest(as)}) \in Nat
           /\ Cardinality(as) = Cardinality(as \ {Latest(as)}) + 1
<1>1. IsFiniteSet(as) /\ Latest(as) \in as
  BY FS_Subset, LatestIsIn
<1>2. Cardinality(as \ {Latest(as)}) = Cardinality(as) - 1
  BY <1>1, FS_RemoveElement
<1>3. IsFiniteSet(as \ {Latest(as)})
  BY <1>1, FS_Subset
<1> DEFINE n == Cardinality(as)
           k == Cardinality(as \ {Latest(as)})
<1>4. n \in Nat /\ k \in Nat
  BY <1>1, <1>3, FS_CardinalityType
<1>5. k = n - 1
  BY <1>2
<1> HIDE DEF n, k
<1>6. n = k + 1
  BY <1>4, <1>5
<1>7. as \ {Latest(as)} \in SUBSET os
  OBVIOUS
<1> QED
  BY <1>1, <1>4, <1>6, <1>7 DEF n, k

\* The walk over finitely many adjustments is defined, from the few to the many.
LEMMA WalkExists ==
    ASSUME NEW m, NEW os, NEW p, Ranked(os), IsFiniteSet(os), NEW A \in SUBSET os
    PROVE  \E f : IsWalk(m, os, p, A, f)
<1> DEFINE upto(n) == {as \in SUBSET A : Cardinality(as) <= n}
           Good(n) == \E f : f = [as \in upto(n) |-> Walk(m, os, p, f, as)]
           bad == {n \in Nat : ~Good(n)}
<1>1. \A as \in SUBSET A : as # {} =>
          /\ as \ {Latest(as)} \in SUBSET A
          /\ Cardinality(as \ {Latest(as)}) \in Nat
          /\ Cardinality(as) = Cardinality(as \ {Latest(as)}) + 1
  BY OneFewer
<1>2. \A as \in SUBSET A : Cardinality(as) \in Nat
  BY FS_Subset, FS_CardinalityType
<1>3. Good(0)
  <2> DEFINE f == [as \in upto(0) |-> Envelope[m].scope]
  <2>1. ASSUME NEW as \in upto(0) PROVE as = {}
    <3>1. as \in SUBSET A /\ Cardinality(as) <= 0
      OBVIOUS
    <3>2. SUFFICES ASSUME as # {} PROVE FALSE
      OBVIOUS
    <3>3. PICK k \in Nat : Cardinality(as) = k + 1
      BY <1>1, <3>1, <3>2
    <3> QED
      BY <3>1, <3>3
  <2>2. f = [as \in upto(0) |-> Walk(m, os, p, f, as)]
    BY <2>1 DEF Walk
  <2> QED
    BY <2>2
<1>4. ASSUME NEW n \in Nat, Good(n) PROVE Good(n + 1)
  <2>1. PICK f : f = [as \in upto(n) |-> Walk(m, os, p, f, as)]
    BY <1>4
  <2> DEFINE g == [as \in upto(n + 1) |-> IF as \in upto(n) THEN f[as] ELSE Walk(m, os, p, f, as)]
  <2>2. upto(n) \subseteq upto(n + 1)
    BY <1>2
  <2>3. \A as \in upto(n) : g[as] = f[as]
    BY <2>2
  <2>4. ASSUME NEW as \in upto(n + 1)
        PROVE  Walk(m, os, p, g, as) = Walk(m, os, p, f, as)
    <3>1. CASE as = {}
      BY <3>1 DEF Walk
    <3>2. CASE as # {}
      <4> DEFINE k == Cardinality(as \ {Latest(as)})
      <4>0. as \in SUBSET A /\ Cardinality(as) <= n + 1
        OBVIOUS
      <4>a. k \in Nat /\ Cardinality(as) = k + 1 /\ as \ {Latest(as)} \in SUBSET A
        BY <1>1, <3>2, <4>0
      <4>b. k <= n
        <5> HIDE DEF k
        <5> QED
          BY <4>0, <4>a
      <4>1. as \ {Latest(as)} \in upto(n)
        BY <4>a, <4>b
      <4> HIDE DEF g
      <4>2. g[as \ {Latest(as)}] = f[as \ {Latest(as)}]
        BY <2>3, <4>1
      <4> QED
        BY <3>2, <4>2 DEF Walk
    <3> QED
      BY <3>1, <3>2
  <2>5. ASSUME NEW as \in upto(n + 1) PROVE g[as] = Walk(m, os, p, f, as)
    BY <2>1
  <2>6. g = [as \in upto(n + 1) |-> Walk(m, os, p, g, as)]
    BY <2>4, <2>5
  <2> QED
    BY <2>6
<1> HIDE DEF Good
<1>5. bad = {}
  <2> SUFFICES ASSUME bad # {} PROVE FALSE
    OBVIOUS
  <2>1. PICK n \in bad : \A k \in bad : n <= k
    BY LeastNumber
  <2>2. n \in Nat /\ n # 0 /\ ~Good(n)
    BY <1>3, <2>1
  <2>3. n - 1 \in Nat /\ n - 1 \notin bad /\ n - 1 + 1 = n
    BY <2>1, <2>2
  <2> QED
    BY <1>4, <2>2, <2>3
<1>6. Good(Cardinality(A)) /\ upto(Cardinality(A)) = SUBSET A
  <2>1. Cardinality(A) \in Nat
    BY <1>2
  <2>2. \A as \in SUBSET A : Cardinality(as) <= Cardinality(A)
    BY FS_Subset
  <2> QED
    BY <1>5, <2>1, <2>2
<1> QED
  BY <1>6 DEF Good, IsWalk

\* Whatever the adjustments were, the effective scope lies within the proposed
\* one or within one broadening that was substantiated.
THEOREM ScopeIsGrounded ==
    ASSUME NEW m, NEW os, NEW p, Ranked(os), IsFiniteSet(os)
    PROVE  \/ EffectiveScope(m, os, p) \subseteq Envelope[m].scope
           \/ \E a \in OfKind(os, "adjust_scope") :
                 /\ BroadeningSubstantiated(a, m, os, p)
                 /\ EffectiveScope(m, os, p) \subseteq a.scope
<1> DEFINE A == OfKind(os, "adjust_scope")
           Grounded(s) == \/ s \subseteq Envelope[m].scope
                          \/ \E a \in A : BroadeningSubstantiated(a, m, os, p) /\ s \subseteq a.scope
           W == CHOOSE f : f = [as \in SUBSET A |->
                    IF as = {} THEN Envelope[m].scope
                    ELSE LET a   == Latest(as)
                             cur == f[as \ {a}]
                         IN  IF a.scope \subseteq cur \/ BroadeningSubstantiated(a, m, os, p)
                             THEN a.scope ELSE cur]
           bad == {n \in Nat : \E as \in SUBSET A : Cardinality(as) = n /\ ~Grounded(W[as])}
<1>1. EffectiveScope(m, os, p) = W[A]
  BY DEF EffectiveScope
<1>2. A \in SUBSET os
  BY DEF OfKind
<1>3. W = [as \in SUBSET A |-> Walk(m, os, p, W, as)]
  <2>1. \E f : IsWalk(m, os, p, A, f)
    <3> HIDE DEF A
    <3> QED
      BY <1>2, WalkExists
  <2>2. W = CHOOSE f : IsWalk(m, os, p, A, f)
    BY DEF Walk, IsWalk
  <2>3. IsWalk(m, os, p, A, W)
    BY <2>1, <2>2
  <2> QED
    BY <2>3 DEF IsWalk
<1> HIDE DEF W, A
<1>4. \A as \in SUBSET A : as # {} =>
          /\ Latest(as) \in A /\ as \ {Latest(as)} \in SUBSET A
          /\ Cardinality(as \ {Latest(as)}) \in Nat
          /\ Cardinality(as) = Cardinality(as \ {Latest(as)}) + 1
  BY <1>2, OneFewer
<1>5. ASSUME NEW as \in SUBSET A, as # {} => Grounded(W[as \ {Latest(as)}])
      PROVE  Grounded(W[as])
  <2>1. W[as] = Walk(m, os, p, W, as)
    BY <1>3
  <2>2. CASE as = {}
    BY <2>1, <2>2 DEF Walk
  <2>3. CASE as # {}
    <3> DEFINE a == Latest(as)
               cur == W[as \ {Latest(as)}]
    <3>1. W[as] = IF a.scope \subseteq cur \/ BroadeningSubstantiated(a, m, os, p)
                  THEN a.scope ELSE cur
      BY <2>1, <2>3 DEF Walk
    <3>2. a \in A /\ Grounded(cur)
      BY <1>4, <1>5, <2>3
    <3> HIDE DEF a, cur
    <3> QED
      BY <3>1, <3>2
  <2> QED
    BY <2>2, <2>3
<1>6. bad = {}
  <2> SUFFICES ASSUME bad # {} PROVE FALSE
    OBVIOUS
  <2>1. PICK n \in bad : \A k \in bad : n <= k
    BY LeastNumber
  <2>2. PICK as \in SUBSET A : Cardinality(as) = n /\ ~Grounded(W[as])
    BY <2>1
  <2>3. as # {} /\ ~Grounded(W[as \ {Latest(as)}])
    BY <1>5, <2>2
  <2>4. as \ {Latest(as)} \in SUBSET A /\ Cardinality(as \ {Latest(as)}) \in Nat
        /\ n = Cardinality(as \ {Latest(as)}) + 1
    BY <1>4, <2>2, <2>3
  <2> DEFINE k == Cardinality(as \ {Latest(as)})
  <2>5. k \in bad
    BY <2>3, <2>4
  <2>6. k \in Nat /\ n = k + 1
    BY <2>4
  <2>7. n <= k
    BY <2>1, <2>5
  <2> HIDE DEF k, bad
  <2> QED
    BY <2>6, <2>7
<1>7. Grounded(W[A])
  <2>1. Cardinality(A) \in Nat
    BY <1>2, FS_Subset, FS_CardinalityType
  <2> QED
    BY <1>6, <2>1
<1> QED
  BY <1>1, <1>7 DEF A
-----------------------------------------------------------------------------
(* Claims between memories *)

\* The observations on a ledger with these memories: they are ranked, time goes
\* with the rank, and targets are on the ledger.
OnLedger(ms, os) ==
    /\ Ranked(os)
    /\ \A o \in os : CreatedAt[o.id] \in Nat /\ o.target \in ms
    /\ \A x, o \in os : x.id <= o.id => CreatedAt[x.id] <= CreatedAt[o.id]

\* The canonical that duplicate claims name comes from one of them.
LEMMA CanonicalIsClaimed ==
    ASSUME NEW ms, NEW os, OnLedger(ms, os), NEW dups \in SUBSET os,
           OfKind(dups, "mark_duplicate") # {}
    PROVE  \E o \in OfKind(dups, "mark_duplicate") : LatestCanonical(dups) = o.ref
<1> DEFINE claims == OfKind(dups, "mark_duplicate")
           newest == {o \in claims : ~ \E x \in claims : After(x, o)}
<1>1. Ranked(os) /\ claims \in SUBSET os /\ newest \in SUBSET os
  BY DEF OfKind, OnLedger
<1>2. LatestCanonical(dups) = First(newest).ref
  BY DEF LatestCanonical
<1>3. Latest(claims) \in claims /\ \A x \in claims : x.id <= Latest(claims).id
  BY <1>1, LatestIsIn
<1>4. ASSUME NEW x \in claims PROVE ~After(x, Latest(claims))
  <2> HIDE DEF claims
  <2>1. /\ CreatedAt[x.id] \in Nat /\ CreatedAt[Latest(claims).id] \in Nat
        /\ CreatedAt[x.id] <= CreatedAt[Latest(claims).id]
    BY <1>1, <1>3 DEF OnLedger
  <2> QED
    BY <2>1 DEF After
<1>5. First(newest) \in newest
  BY <1>1, <1>3, <1>4, FirstIsIn
<1> QED
  BY <1>2, <1>5

-----------------------------------------------------------------------------
(* What a growing ledger leaves alone *)

\* The memories that the records of the second ledger name and those of the
\* first did not.
Touched(M1, O1, M2, O2) == (M2 \ M1) \cup {o.target : o \in O2 \ O1}

\* Index.Update: when a ledger grows by any number of records at once, the state
\* of a memory can change only if the new records name it or, by one step of
\* FanOut, a memory it is related to.
THEOREM OnlyFanOutChanges ==
    ASSUME NEW M1, NEW M2, NEW O1, NEW O2, M1 \subseteq M2, O1 \subseteq O2,
           OnLedger(M2, O2), NEW p, NEW m \in M1,
           m \notin FanOut(Touched(M1, O1, M2, O2), O2)
    PROVE  Derived(m, M2, O2, p) = Derived(m, M1, O1, p)
<1> DEFINE A == Touched(M1, O1, M2, O2)
           os == On(O1, m)
           c1 == BuildContext(M1, O1, p)
           c2 == BuildContext(M2, O2, p)
           claims(c, M, O) == {o \in OfKind(O, "supersede") :
                                 /\ o.ref \in M \ {o.target}
                                 /\ o.target \in c.alive
                                 /\ SupersedeSubstantiated(o, On(O, o.target), p)}
           mine(c, M, O) == {o \in claims(c, M, O) : o.ref = m}
<1>1. /\ m \notin A
      /\ \A o \in O2 : o.kind = "supersede" /\ o.ref = m => o.target \notin A
      /\ \A o \in O2 : o.kind = "mark_duplicate" /\ o.target = m => o.ref \notin A
  BY DEF FanOut, OfKind
<1>2. \A a : a \notin A => On(O1, a) = On(O2, a) /\ (a \in M1 <=> a \in M2)
  BY DEF Touched, On
<1>3. /\ c1.alive = {a \in M1 : Alive(On(O1, a))}
      /\ c2.alive = {a \in M2 : Alive(On(O2, a))}
  BY DEF BuildContext
<1>4. /\ c1.supersededBy = [x \in {o.ref : o \in claims(c1, M1, O1)} |->
                               Latest({o \in claims(c1, M1, O1) : o.ref = x}).target]
      /\ c2.supersededBy = [x \in {o.ref : o \in claims(c2, M2, O2)} |->
                               Latest({o \in claims(c2, M2, O2) : o.ref = x}).target]
  BY DEF BuildContext
<1> HIDE DEF c1, c2
<1>5. \A a : a \notin A => (a \in c1.alive <=> a \in c2.alive)
  BY <1>2, <1>3
<1>6. On(O2, m) = os
  BY <1>1, <1>2
<1>7. OfKind(os, "mark_duplicate") # {} =>
         (LatestCanonical(os) \in c1.alive <=> LatestCanonical(os) \in c2.alive)
  <2>1. SUFFICES ASSUME OfKind(os, "mark_duplicate") # {}
                 PROVE  LatestCanonical(os) \notin A
    BY <1>5
  <2>2. os \in SUBSET O2
    BY DEF On
  <2>3. PICK o \in OfKind(os, "mark_duplicate") : LatestCanonical(os) = o.ref
    BY <2>1, <2>2, CanonicalIsClaimed
  <2>4. o \in O2 /\ o.kind = "mark_duplicate" /\ o.target = m
    BY DEF OfKind, On
  <2> QED
    BY <1>1, <2>3, <2>4
<1>8. mine(c1, M1, O1) = mine(c2, M2, O2)
  <2>1. ASSUME NEW o, o.ref = m
        PROVE  o \in claims(c1, M1, O1) <=> o \in claims(c2, M2, O2)
    <3>1. CASE o \notin O2 \/ o.kind # "supersede"
      BY <3>1 DEF OfKind
    <3>2. CASE o \in O2 /\ o.kind = "supersede"
      <4>1. o.target \notin A
        BY <1>1, <2>1, <3>2
      <4>2. o \in O1
        BY <3>2, <4>1 DEF Touched
      <4>3. On(O1, o.target) = On(O2, o.target)
        BY <1>2, <4>1
      <4> QED
        BY <1>5, <2>1, <3>2, <4>1, <4>2, <4>3 DEF OfKind
    <3> QED
      BY <3>1, <3>2
  <2> QED
    BY <2>1
<1>9. /\ m \in DOMAIN c1.supersededBy <=> m \in DOMAIN c2.supersededBy
      /\ m \in DOMAIN c1.supersededBy => c1.supersededBy[m] = c2.supersededBy[m]
  <2>1. /\ m \in DOMAIN c1.supersededBy <=> mine(c1, M1, O1) # {}
        /\ m \in DOMAIN c2.supersededBy <=> mine(c2, M2, O2) # {}
    BY <1>4
  <2>2. /\ m \in DOMAIN c1.supersededBy => c1.supersededBy[m] = Latest(mine(c1, M1, O1)).target
        /\ m \in DOMAIN c2.supersededBy => c2.supersededBy[m] = Latest(mine(c2, M2, O2)).target
    BY <1>4
  <2> HIDE DEF mine
  <2> QED
    BY <1>8, <2>1, <2>2
<1> HIDE DEF os
<1>10. ASSUME NEW risk PROVE Status(m, os, risk, p, c1) = Status(m, os, risk, p, c2)
  <2>1. Unresolved(os, "mark_duplicate") => OfKind(os, "mark_duplicate") # {}
    BY DEF Unresolved
  <2> QED
    BY <1>7, <1>9, <2>1 DEF Status
<1>11. \A risk : Status(m, os, risk, p, c1) = "superseded" => m \in DOMAIN c1.supersededBy
  BY DEF Status
<1>12. DeriveWithContext(m, os, p, c1) = DeriveWithContext(m, os, p, c2)
  <2> DEFINE scope == EffectiveScope(m, os, p)
             risk == RiskForScope(m, scope, p)
  <2> HIDE DEF scope, risk
  <2>1. Status(m, os, risk, p, c1) = Status(m, os, risk, p, c2)
    BY <1>10
  <2>2. Status(m, os, risk, p, c1) = "superseded" => c1.supersededBy[m] = c2.supersededBy[m]
    BY <1>9, <1>11
  <2> QED
    BY <2>1, <2>2 DEF DeriveWithContext, scope, risk
<1> QED
  BY <1>6, <1>12 DEF Derived, c1, c2, os
=============================================================================

----------------------- MODULE SubagentLimiterProofs ------------------------
(***************************************************************************)
(* The limiter's safety, for any number of slots, parents and providers    *)
(* and any legal caps.  CapsHold is not inductive: admit compares the      *)
(* counters, not the slots, so the counters must be known to be exact; and *)
(* counting the slots takes that the held set is finite and that a slot    *)
(* is issued once.                                                         *)
(***************************************************************************)
EXTENDS SubagentLimiter, FiniteSetTheorems, TLAPS

\* A slot is issued to one closure.
SlotsUnique == \A g, h \in issued : g.slot = h.slot => g = h

IInv == TypeOK /\ IsFiniteSet(Held) /\ SlotsUnique /\ CountersExact /\ CapsHold

-----------------------------------------------------------------------------
\* Issuing a fresh slot adds exactly its grant to the held slots.
LEMMA HeldAfterAdmit ==
  ASSUME TypeOK, NEW s \in Slots, NEW p \in Parents, NEW d,
         NEW v \in Providers \cup {NoProvider}, Admit(s, p, d, v)
  PROVE  LET new == [slot |-> s, parent |-> p, provider |-> v]
         IN  /\ Held' = Held \cup {new} /\ new \notin Held
             /\ \A q \in Parents :
                  HeldBy(q)' = IF q = p THEN HeldBy(q) \cup {new} ELSE HeldBy(q)
             /\ \A w \in Providers :
                  ChargedTo(w)' = IF w = v THEN ChargedTo(w) \cup {new} ELSE ChargedTo(w)
<1> DEFINE new == [slot |-> s, parent |-> p, provider |-> v]
<1>1. new.slot = s /\ new.parent = p /\ new.provider = v
  OBVIOUS
<1>2. s \notin released /\ new \notin issued
  BY <1>1 DEF Admit, TypeOK
<1>3. Held' = Held \cup {new} /\ new \notin Held
  BY <1>1, <1>2 DEF Admit, Held
<1>4. ASSUME NEW q \in Parents
      PROVE  HeldBy(q)' = IF q = p THEN HeldBy(q) \cup {new} ELSE HeldBy(q)
  BY <1>1, <1>3 DEF HeldBy
<1>5. ASSUME NEW w \in Providers
      PROVE  ChargedTo(w)' = IF w = v THEN ChargedTo(w) \cup {new} ELSE ChargedTo(w)
  BY <1>1, <1>3 DEF ChargedTo
<1> QED
  BY <1>3, <1>4, <1>5

\* Calling the closure of a held grant removes exactly that grant.
LEMMA HeldAfterRelease ==
  ASSUME SlotsUnique, NEW g \in issued, g.slot \notin released, Lower(g)
  PROVE  /\ Held' = Held \ {g} /\ g \in Held
         /\ \A q \in Parents :
              HeldBy(q)' = IF q = g.parent THEN HeldBy(q) \ {g} ELSE HeldBy(q)
         /\ \A w \in Providers :
              ChargedTo(w)' = IF w = g.provider THEN ChargedTo(w) \ {g} ELSE ChargedTo(w)
<1>1. Held' = Held \ {g} /\ g \in Held
  BY DEF Lower, Held, SlotsUnique
<1>2. ASSUME NEW q \in Parents
      PROVE  HeldBy(q)' = IF q = g.parent THEN HeldBy(q) \ {g} ELSE HeldBy(q)
  BY <1>1 DEF HeldBy
<1>3. ASSUME NEW w \in Providers
      PROVE  ChargedTo(w)' = IF w = g.provider THEN ChargedTo(w) \ {g} ELSE ChargedTo(w)
  BY <1>1 DEF ChargedTo
<1> QED
  BY <1>1, <1>2, <1>3

\* The shares of a parent and of a provider are finite when the pool is.
LEMMA SharesFinite ==
  ASSUME IsFiniteSet(Held)
  PROVE  /\ Cardinality(Held) \in Nat
         /\ \A p : IsFiniteSet(HeldBy(p)) /\ Cardinality(HeldBy(p)) \in Nat
         /\ \A v : IsFiniteSet(ChargedTo(v)) /\ Cardinality(ChargedTo(v)) \in Nat
<1>1. ASSUME NEW p PROVE IsFiniteSet(HeldBy(p))
  <2>1. HeldBy(p) \in SUBSET Held
    BY DEF HeldBy
  <2> QED BY <2>1, FS_Subset
<1>2. ASSUME NEW v PROVE IsFiniteSet(ChargedTo(v))
  <2>1. ChargedTo(v) \in SUBSET Held
    BY DEF ChargedTo
  <2> QED BY <2>1, FS_Subset
<1> QED
  BY <1>1, <1>2, FS_CardinalityType

-----------------------------------------------------------------------------
LEMMA InitIInv == Init => IInv
<1> SUFFICES ASSUME Init PROVE IInv
  OBVIOUS
<1>1. Held = {} /\ (\A p : HeldBy(p) = {}) /\ (\A v : ChargedTo(v) = {})
  BY DEF Init, Held, HeldBy, ChargedTo
<1>2. TypeOK /\ SlotsUnique
  BY DEF Init, TypeOK, SlotsUnique
<1>3. IsFiniteSet(Held) /\ CountersExact
  BY <1>1, FS_EmptySet DEF Init, CountersExact
<1>4. CapsHold
  BY <1>1, FS_EmptySet, LimitsAssumption DEF CapsHold, LegalLimits
<1> QED
  BY <1>2, <1>3, <1>4 DEF IInv

\* Admission counts the new grant once everywhere, and only below every cap.
LEMMA AdmitIInv ==
  ASSUME IInv, NEW s \in Slots, NEW p \in Parents, NEW d \in Depths,
         NEW v \in Providers \cup {NoProvider}, Admit(s, p, d, v)
  PROVE  IInv'
<1> USE DEF IInv
<1> DEFINE new == [slot |-> s, parent |-> p, provider |-> v]
<1>1. /\ Held' = Held \cup {new} /\ new \notin Held
      /\ \A q \in Parents :
           HeldBy(q)' = IF q = p THEN HeldBy(q) \cup {new} ELSE HeldBy(q)
      /\ \A w \in Providers :
           ChargedTo(w)' = IF w = v THEN ChargedTo(w) \cup {new} ELSE ChargedTo(w)
  BY HeldAfterAdmit
<1>2. TypeOK'
  BY LimitsAssumption DEF TypeOK, Admit, Grant
<1>3. SlotsUnique'
  BY DEF SlotsUnique, Admit
<1>4. IsFiniteSet(Held)' /\ Cardinality(Held)' = Cardinality(Held) + 1
  BY <1>1, FS_AddElement
<1>5. ASSUME NEW q \in Parents
      PROVE  Cardinality(HeldBy(q))' =
               IF q = p THEN Cardinality(HeldBy(q)) + 1 ELSE Cardinality(HeldBy(q))
  <2>1. new \notin HeldBy(q) /\ IsFiniteSet(HeldBy(q))
    BY <1>1, SharesFinite DEF HeldBy
  <2> QED
    BY <1>1, <2>1, FS_AddElement
<1>6. ASSUME NEW w \in Providers
      PROVE  Cardinality(ChargedTo(w))' =
               IF w = v THEN Cardinality(ChargedTo(w)) + 1 ELSE Cardinality(ChargedTo(w))
  <2>1. new \notin ChargedTo(w) /\ IsFiniteSet(ChargedTo(w))
    BY <1>1, SharesFinite DEF ChargedTo
  <2> QED
    BY <1>1, <2>1, FS_AddElement
<1>7. CountersExact'
  BY <1>4, <1>5, <1>6, LimitsAssumption DEF CountersExact, Admit, TypeOK
<1>8. CapsHold'
  <2>1. Cardinality(Held)' <= Global
    BY <1>4, SharesFinite, LimitsAssumption
       DEF CountersExact, CapsHold, Admit, Refused, LegalLimits
  <2>2. ASSUME NEW q \in Parents PROVE Cardinality(HeldBy(q))' <= PerParent
    BY <1>5, SharesFinite, LimitsAssumption
       DEF CountersExact, CapsHold, Admit, Refused, LegalLimits
  <2>3. ASSUME NEW w \in Capped PROVE Cardinality(ChargedTo(w))' <= ProviderCap[w]
    <3>1. w \in Providers /\ ProviderCap[w] \in Nat
      BY LimitsAssumption DEF LegalLimits
    <3> QED
      BY <1>6, <3>1, SharesFinite
         DEF CountersExact, CapsHold, Admit, Refused
  <2> QED
    BY <2>1, <2>2, <2>3 DEF CapsHold
<1> QED
  BY <1>2, <1>3, <1>4, <1>7, <1>8

\* A release lowers exactly the counters its grant was counted in.
LEMMA ReleaseIInv ==
  ASSUME IInv, NEW s \in Slots, Release(s)
  PROVE  IInv'
<1> USE DEF IInv
<1>1. PICK g \in issued : g.slot = s /\ s \notin released /\ Lower(g)
  BY DEF Release
<1>2. /\ Held' = Held \ {g} /\ g \in Held
      /\ \A q \in Parents :
           HeldBy(q)' = IF q = g.parent THEN HeldBy(q) \ {g} ELSE HeldBy(q)
      /\ \A w \in Providers :
           ChargedTo(w)' = IF w = g.provider THEN ChargedTo(w) \ {g} ELSE ChargedTo(w)
  BY <1>1, HeldAfterRelease
<1>3. g.parent \in Parents /\ g.provider \in Providers \cup {NoProvider}
  BY DEF TypeOK, Grant
<1>4. TypeOK'
  BY <1>1, <1>3 DEF TypeOK, Lower, Lowered
<1>5. SlotsUnique'
  BY <1>1 DEF SlotsUnique, Lower
<1>6. /\ IsFiniteSet(Held)' /\ Cardinality(Held)' = Cardinality(Held) - 1
      /\ Cardinality(Held)' \in Nat
  BY <1>2, FS_RemoveElement, FS_CardinalityType
<1>7. ASSUME NEW q \in Parents
      PROVE  /\ Cardinality(HeldBy(q))' \in Nat
             /\ Cardinality(HeldBy(q))' =
                  IF q = g.parent THEN Cardinality(HeldBy(q)) - 1
                  ELSE Cardinality(HeldBy(q))
  <2>1. IsFiniteSet(HeldBy(q)) /\ (q = g.parent => g \in HeldBy(q))
    BY <1>2, SharesFinite DEF HeldBy
  <2> QED
    BY <1>2, <2>1, FS_RemoveElement, FS_CardinalityType
<1>8. ASSUME NEW w \in Providers
      PROVE  /\ Cardinality(ChargedTo(w))' \in Nat
             /\ Cardinality(ChargedTo(w))' =
               IF w = g.provider THEN Cardinality(ChargedTo(w)) - 1
               ELSE Cardinality(ChargedTo(w))
  <2>1. IsFiniteSet(ChargedTo(w)) /\ (w = g.provider => g \in ChargedTo(w))
    BY <1>2, SharesFinite DEF ChargedTo
  <2> QED
    BY <1>2, <2>1, FS_RemoveElement, FS_CardinalityType
<1>9. CountersExact'
  <2>1. total' = Cardinality(Held)'
    BY <1>1, <1>6, SharesFinite DEF CountersExact, Lower
  <2>2. ASSUME NEW q \in Parents PROVE perParent'[q] = Cardinality(HeldBy(q))'
    BY <1>1, <1>3, <1>7, SharesFinite DEF CountersExact, Lower, Lowered, TypeOK
  <2>3. ASSUME NEW w \in Providers PROVE perProvider'[w] = Cardinality(ChargedTo(w))'
    BY <1>1, <1>3, <1>8, SharesFinite, LimitsAssumption
       DEF CountersExact, Lower, Lowered, TypeOK
  <2> QED
    BY <2>1, <2>2, <2>3 DEF CountersExact
<1>10. CapsHold'
  <2>1. Cardinality(Held)' <= Global
    BY <1>6, SharesFinite, LimitsAssumption DEF CapsHold, LegalLimits
  <2>2. ASSUME NEW q \in Parents PROVE Cardinality(HeldBy(q))' <= PerParent
    BY <1>7, SharesFinite, LimitsAssumption DEF CapsHold, LegalLimits
  <2>3. ASSUME NEW w \in Capped PROVE Cardinality(ChargedTo(w))' <= ProviderCap[w]
    <3>1. w \in Providers /\ ProviderCap[w] \in Nat
      BY LimitsAssumption DEF LegalLimits
    <3> QED
      BY <1>8, <3>1, SharesFinite DEF CapsHold
  <2> QED
    BY <2>1, <2>2, <2>3 DEF CapsHold
<1> QED
  BY <1>4, <1>5, <1>6, <1>9, <1>10

\* The inductive invariant holds in every reachable state.
THEOREM Inductive == Spec => []IInv
<1>1. IInv /\ [Next]_vars => IInv'
  <2> SUFFICES ASSUME IInv, [Next]_vars PROVE IInv'
    OBVIOUS
  <2>1. CASE Next
    BY <2>1, AdmitIInv, ReleaseIInv DEF Next
  <2>2. CASE UNCHANGED vars
    BY <2>2 DEF IInv, vars, TypeOK, Held, HeldBy, ChargedTo, SlotsUnique,
                CountersExact, CapsHold
  <2> QED
    BY <2>1, <2>2
<1> QED
  BY InitIInv, <1>1, PTL DEF Spec

\* Type correctness of the limiter of subagent-limits.ts.
THEOREM TypeCorrect == Spec => []TypeOK
BY Inductive, PTL DEF IInv

\* For any caps and any number of sessions: the counters are the slots that are
\* out, so no admit/release history leaks or steals a slot.
THEOREM CountersAreExact == Spec => []CountersExact
BY Inductive, PTL DEF IInv

\* For any caps and any number of sessions, no cap of SubagentLimits is exceeded.
THEOREM CapsAlwaysHold == Spec => []CapsHold
BY Inductive, PTL DEF IInv

\* For any caps, admit refuses a legal depth only at a cap that held slots fill.
THEOREM NoWedge == Spec => []RefusalsAreGenuine
<1>1. IInv => RefusalsAreGenuine
  BY LimitsAssumption
     DEF IInv, RefusalsAreGenuine, Refused, CountersExact, LegalLimits
<1> QED
  BY Inductive, <1>1, PTL

\* Every step of the limiter is a step of the slot pool or leaves the pool alone.
THEOREM PoolRefinement == Spec => ImplementsPool
<1>1. Init => Pool!Init
  BY DEF Init, Pool!Init, Held
<1>2. IInv /\ [Next]_vars => [Pool!Next]_Held
  <2> SUFFICES ASSUME IInv, [Next]_vars PROVE [Pool!Next]_Held
    OBVIOUS
  <2> USE DEF IInv
  <2> \A S : Pool!Cardinality(S) = Cardinality(S)
    BY DEF Pool!Cardinality, Cardinality
  <2>0. /\ \A p : Pool!HeldBy(p) = HeldBy(p)
        /\ \A v : Pool!ChargedTo(v) = ChargedTo(v)
    BY DEF Pool!HeldBy, Pool!ChargedTo, HeldBy, ChargedTo
  <2>1. ASSUME NEW s \in Slots, NEW p \in Parents, NEW d \in Depths,
               NEW v \in Providers \cup {NoProvider}, Admit(s, p, d, v)
        PROVE  Pool!Take(s, p, v)
    <3>1. Held' = Held \cup {[slot |-> s, parent |-> p, provider |-> v]}
      BY <2>1, HeldAfterAdmit
    <3>2. \A g \in Held : g.slot # s
      BY <2>1 DEF Admit, Held
    <3>3. Cardinality(Held) < Global /\ Cardinality(HeldBy(p)) < PerParent
      BY <2>1, SharesFinite, LimitsAssumption
         DEF Admit, Refused, CountersExact, LegalLimits
    <3>4. v \in Capped => Cardinality(ChargedTo(v)) < ProviderCap[v]
      <4> SUFFICES ASSUME v \in Capped PROVE Cardinality(ChargedTo(v)) < ProviderCap[v]
        OBVIOUS
      <4>1. v \in Providers /\ ProviderCap[v] \in Nat
        BY LimitsAssumption DEF LegalLimits
      <4> QED
        BY <2>1, <4>1, SharesFinite DEF Admit, Refused, CountersExact
    <3> QED
      BY <2>0, <3>1, <3>2, <3>3, <3>4 DEF Pool!Take
  <2>2. ASSUME NEW s \in Slots, Release(s)
        PROVE  Pool!GiveBack(s)
    <3>1. PICK g \in issued : g.slot = s /\ s \notin released /\ Lower(g)
      BY <2>2 DEF Release
    <3>2. Held' = Held \ {g} /\ g \in Held
      BY <3>1, HeldAfterRelease
    <3>3. \A h \in Held : h.slot = s <=> h = g
      BY <3>1 DEF SlotsUnique, Held
    <3> QED
      BY <3>1, <3>2, <3>3 DEF Pool!GiveBack
  <2>3. CASE Next
    BY <2>1, <2>2, <2>3 DEF Next, Pool!Next
  <2>4. CASE UNCHANGED vars
    BY <2>4 DEF vars, Held
  <2> QED
    BY <2>3, <2>4
<1> QED
  BY Inductive, <1>1, <1>2, PTL DEF Spec, ImplementsPool, Pool!Spec
=============================================================================

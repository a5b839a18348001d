----------------------- MODULE WriteAuthorizationProofs -----------------------
(***************************************************************************)
(* Proofs, for every set of authorizations, cards, endpoints and           *)
(* operations, of what MCWriteAuthorization checks on a small instance.    *)
(***************************************************************************)
EXTENDS WriteAuthorization, TLAPS

\* The closing UPDATEs keep the tables well-formed.
LEMMA ClosingTypes ==
    ASSUME TypeOK, NEW S
    PROVE  /\ ExpiredPresentations(S) \in [Auths -> [Endpoints -> PresentationStates]]
           /\ ExpiredCards(S) \in [Cards -> CardStates]
           /\ \A c \in Cards : ExpiredCards(S)[c] # "unissued" => card_state[c] # "unissued"
BY DEF TypeOK, ExpiredPresentations, ExpiredCards, PresentationStates, CardStates

\* The empty tables are well-formed.
LEMMA TypeCorrectInit == Init => TypeOK
BY DEF Init, TypeOK, AuthStates, PresentationStates, CardStates

\* Every transaction leaves well-formed rows.
LEMMA TypeCorrectNext == TypeOK /\ [Next]_vars => TypeOK'
<1> USE DEF AuthStates, LiveStates, FinalStates
<1> SUFFICES ASSUME TypeOK, [Next]_vars PROVE TypeOK'
  OBVIOUS
<1>1. ASSUME NEW a \in Auths, NEW t \in Targets, Create(a, t) PROVE TypeOK'
  BY <1>1, ClosingTypes DEF Create, TypeOK, Superseded
<1>2. ASSUME NEW a \in Auths, Get(a) PROVE TypeOK'
  BY <1>2, ClosingTypes DEF Get, Expires, TypeOK
<1>3. ASSUME NEW a \in Auths, NEW e \in Endpoints, CreatePresentation(a, e)
      PROVE  TypeOK'
  BY <1>3, ClosingTypes
  DEF CreatePresentation, PresentationState, EffectiveState, PresentationStates, TypeOK
<1>4. ASSUME NEW a \in Auths, NEW c \in Cards, NEW ch \in Channels, IssueCsrf(a, c, ch)
      PROVE  TypeOK'
  BY <1>4 DEF IssueCsrf, TypeOK, CardStates, CardTargets
<1>5. ASSUME NEW a \in Auths, NEW c \in Cards, NEW ch \in Channels,
             NEW d \in {"approve", "reject"}, Decide(a, c, ch, d)
      PROVE  TypeOK'
  BY <1>5 DEF Decide, DecidedState, FirstVerdict, EffectiveState, TypeOK, PresentationStates,
     CardStates
<1>6. ASSUME NEW a \in Auths, NEW p \in BOOLEAN, Supersede(a, p) PROVE TypeOK'
  BY <1>6, ClosingTypes DEF Supersede, Supersedable, TypeOK
<1>7. ASSUME NEW a \in Auths, NEW x \in Contexts, NEW op \in Ops, Consume(a, x, op)
      PROVE  TypeOK'
  BY <1>7 DEF Consume, Consumable, EffectiveState, TypeOK
<1>8. ASSUME NEW a \in Auths, ClockPasses(a) PROVE TypeOK'
  BY <1>8 DEF ClockPasses, TypeOK
<1>9. CASE UNCHANGED vars
  BY <1>9 DEF vars, TypeOK
<1> QED
  BY <1>1, <1>2, <1>3, <1>4, <1>5, <1>6, <1>7, <1>8, <1>9 DEF Next

\* Type correctness of the three tables.
THEOREM TypeCorrect == Spec => []TypeOK
BY TypeCorrectInit, TypeCorrectNext, PTL DEF Spec
-----------------------------------------------------------------------------
\* What the tables guarantee together; inductive as it stands.
CardInv == TypeOK /\ OpenCardsArePending /\ OneLivePerTarget /\ DecisionHasItsCard

\* Init establishes the invariant: there is no row yet.
LEMMA CardInvInit == Init => CardInv
BY TypeCorrectInit DEF Init, CardInv, OpenCardsArePending, OneLivePerTarget,
   DecisionHasItsCard, LiveStates

\* Every transaction preserves it, conjunct by conjunct.
LEMMA CardInvNext == CardInv /\ [Next]_vars => CardInv'
<1> SUFFICES ASSUME CardInv, [Next]_vars PROVE CardInv'
  OBVIOUS
<1> USE DEF LiveStates
<1>0. TypeOK /\ TypeOK'
  BY TypeCorrectNext DEF CardInv
<1>1. ASSUME NEW a \in Auths, NEW t \in Targets, Create(a, t) PROVE CardInv'
  <2>1. OpenCardsArePending'
    BY <1>0, <1>1 DEF Create, Superseded, CardInv, OpenCardsArePending, TypeOK,
       ExpiredPresentations, ExpiredCards, CardTargets
  <2>2. OneLivePerTarget'
    BY <1>0, <1>1 DEF Create, Superseded, CardInv, OneLivePerTarget, TypeOK
  <2>3. DecisionHasItsCard'
    BY <1>0, <1>1 DEF Create, Superseded, CardInv, DecisionHasItsCard, TypeOK, ExpiredCards
  <2> QED
    BY <1>0, <2>1, <2>2, <2>3 DEF CardInv
<1>2. ASSUME NEW a \in Auths, Get(a) PROVE CardInv'
  <2>1. OpenCardsArePending'
    BY <1>0, <1>2 DEF Get, Expires, CardInv, OpenCardsArePending, TypeOK,
       ExpiredPresentations, ExpiredCards, CardTargets
  <2>2. OneLivePerTarget'
    BY <1>0, <1>2 DEF Get, CardInv, OneLivePerTarget, TypeOK
  <2>3. DecisionHasItsCard'
    BY <1>0, <1>2 DEF Get, Expires, CardInv, DecisionHasItsCard, TypeOK, ExpiredCards
  <2> QED
    BY <1>0, <2>1, <2>2, <2>3 DEF CardInv
<1>3. ASSUME NEW a \in Auths, NEW e \in Endpoints, CreatePresentation(a, e)
      PROVE  CardInv'
  <2> USE DEF EffectiveState, Expires
  <2>1. OpenCardsArePending'
    BY <1>0, <1>3 DEF CreatePresentation, PresentationState, CardInv, OpenCardsArePending,
       TypeOK, ExpiredPresentations, ExpiredCards, CardTargets
  <2>2. OneLivePerTarget'
    BY <1>0, <1>3 DEF CreatePresentation, CardInv, OneLivePerTarget, TypeOK
  <2>3. DecisionHasItsCard'
    BY <1>0, <1>3 DEF CreatePresentation, CardInv, DecisionHasItsCard, TypeOK, ExpiredCards
  <2> QED
    BY <1>0, <2>1, <2>2, <2>3 DEF CardInv
<1>4. ASSUME NEW a \in Auths, NEW c \in Cards, NEW ch \in Channels, IssueCsrf(a, c, ch)
      PROVE  CardInv'
  <2>1. OpenCardsArePending'
    BY <1>0, <1>4 DEF IssueCsrf, EffectiveState, CardInv, OpenCardsArePending, TypeOK
  <2>2. OneLivePerTarget'
    BY <1>4 DEF IssueCsrf, CardInv, OneLivePerTarget
  <2>3. DecisionHasItsCard'
    BY <1>0, <1>4 DEF IssueCsrf, CardInv, DecisionHasItsCard, TypeOK
  <2> QED
    BY <1>0, <2>1, <2>2, <2>3 DEF CardInv
<1>5. ASSUME NEW a \in Auths, NEW c \in Cards, NEW ch \in Channels,
             NEW d \in {"approve", "reject"}, Decide(a, c, ch, d)
      PROVE  CardInv'
  <2> USE DEF EffectiveState, DecidedState
  <2>1. OpenCardsArePending'
    BY <1>0, <1>5 DEF Decide, CardInv, OpenCardsArePending, TypeOK, CardTargets
  <2>2. OneLivePerTarget'
    BY <1>0, <1>5 DEF Decide, CardInv, OneLivePerTarget, TypeOK
  <2>3. DecisionHasItsCard'
    BY <1>0, <1>5 DEF Decide, CardAccepted, FirstVerdict, CardInv, DecisionHasItsCard, TypeOK,
       CardTargets
  <2> QED
    BY <1>0, <2>1, <2>2, <2>3 DEF CardInv
<1>6. ASSUME NEW a \in Auths, NEW p \in BOOLEAN, Supersede(a, p) PROVE CardInv'
  <2> USE DEF Supersedable
  <2>1. OpenCardsArePending'
    BY <1>0, <1>6 DEF Supersede, CardInv, OpenCardsArePending, TypeOK,
       ExpiredPresentations, ExpiredCards, CardTargets
  <2>2. OneLivePerTarget'
    BY <1>0, <1>6 DEF Supersede, CardInv, OneLivePerTarget, TypeOK
  <2>3. DecisionHasItsCard'
    BY <1>0, <1>6 DEF Supersede, CardInv, DecisionHasItsCard, TypeOK, ExpiredCards
  <2> QED
    BY <1>0, <2>1, <2>2, <2>3 DEF CardInv
<1>7. ASSUME NEW a \in Auths, NEW x \in Contexts, NEW op \in Ops, Consume(a, x, op)
      PROVE  CardInv'
  <2> USE DEF Consumable, EffectiveState
  <2>1. OpenCardsArePending'
    BY <1>0, <1>7 DEF Consume, CardInv, OpenCardsArePending, TypeOK, CardTargets
  <2>2. OneLivePerTarget'
    BY <1>0, <1>7 DEF Consume, CardInv, OneLivePerTarget, TypeOK
  <2>3. DecisionHasItsCard'
    BY <1>0, <1>7, NullAssumption DEF Consume, CardInv, DecisionHasItsCard, TypeOK
  <2> QED
    BY <1>0, <2>1, <2>2, <2>3 DEF CardInv
<1>8. ASSUME NEW a \in Auths, ClockPasses(a) PROVE CardInv'
  BY <1>0, <1>8 DEF ClockPasses, CardInv, OpenCardsArePending, OneLivePerTarget,
     DecisionHasItsCard
<1>9. CASE UNCHANGED vars
  BY <1>0, <1>9 DEF vars, CardInv, OpenCardsArePending, OneLivePerTarget, DecisionHasItsCard
<1> QED
  BY <1>1, <1>2, <1>3, <1>4, <1>5, <1>6, <1>7, <1>8, <1>9 DEF Next

\* No presentation or CSRF token of a closed authorization stays usable.
THEOREM OpenCardsArePendingHolds == Spec => []OpenCardsArePending
<1>1. CardInv => OpenCardsArePending
  BY DEF CardInv
<1> QED
  BY <1>1, CardInvInit, CardInvNext, PTL DEF Spec

\* Two prepares of one target never leave two authorizations that can commit.
THEOREM OneLivePerTargetHolds == Spec => []OneLivePerTarget
<1>1. CardInv => OneLivePerTarget
  BY DEF CardInv
<1> QED
  BY <1>1, CardInvInit, CardInvNext, PTL DEF Spec

\* Nothing is approved or committed without a decision on its own card, and the
\* first decision stands, on however many endpoints the card is open.
THEOREM DecisionHasItsCardHolds == Spec => []DecisionHasItsCard
<1>1. CardInv => DecisionHasItsCard
  BY DEF CardInv
<1> QED
  BY <1>1, CardInvInit, CardInvNext, PTL DEF Spec

-----------------------------------------------------------------------------
\* A closed authorization is never reopened, re-decided or committed again:
\* in particular an authorization crosses the commit boundary at most once.
THEOREM ClosedIsFinalHolds == Spec => ClosedIsFinal
<1> DEFINE Frozen == \A a \in Auths : state[a] \in FinalStates =>
                        /\ state'[a] = state[a]
                        /\ commit_op'[a] = commit_op[a]
<1>1. TypeOK /\ [Next]_vars => [Frozen]_vars
  <2> SUFFICES ASSUME TypeOK, Next PROVE Frozen
    OBVIOUS
  <2> USE DEF FinalStates, LiveStates, EffectiveState, Expires
  <2>1. ASSUME NEW a \in Auths, NEW t \in Targets, Create(a, t) PROVE Frozen
    BY <2>1 DEF Create, Superseded, TypeOK
  <2>2. ASSUME NEW a \in Auths, Get(a) PROVE Frozen
    BY <2>2 DEF Get, TypeOK
  <2>3. ASSUME NEW a \in Auths, NEW e \in Endpoints, CreatePresentation(a, e) PROVE Frozen
    BY <2>3 DEF CreatePresentation, TypeOK
  <2>4. ASSUME NEW a \in Auths, NEW c \in Cards, NEW ch \in Channels, IssueCsrf(a, c, ch)
        PROVE  Frozen
    BY <2>4 DEF IssueCsrf
  <2>5. ASSUME NEW a \in Auths, NEW c \in Cards, NEW ch \in Channels,
               NEW d \in {"approve", "reject"}, Decide(a, c, ch, d)
        PROVE  Frozen
    BY <2>5 DEF Decide, TypeOK
  <2>6. ASSUME NEW a \in Auths, NEW p \in BOOLEAN, Supersede(a, p) PROVE Frozen
    BY <2>6 DEF Supersede, Supersedable, TypeOK
  <2>7. ASSUME NEW a \in Auths, NEW x \in Contexts, NEW op \in Ops, Consume(a, x, op)
        PROVE  Frozen
    BY <2>7 DEF Consume, Consumable, TypeOK
  <2>8. ASSUME NEW a \in Auths, ClockPasses(a) PROVE Frozen
    BY <2>8 DEF ClockPasses
  <2> QED
    BY <2>1, <2>2, <2>3, <2>4, <2>5, <2>6, <2>7, <2>8 DEF Next
<1> QED
  BY <1>1, TypeCorrect, PTL DEF Spec, ClosedIsFinal

\* Once its TTL has passed, an authorization can only be expired or superseded,
\* whichever of the rolled-back expiries the store has forgotten.
THEOREM OverdueIsPowerlessHolds == Spec => OverdueIsPowerless
<1> DEFINE Powerless == \A a \in overdue :
              state'[a] # state[a] => state'[a] \in {"expired", "superseded"}
<1>1. TypeOK /\ [Next]_vars => [Powerless]_vars
  <2> SUFFICES ASSUME TypeOK, Next PROVE Powerless
    OBVIOUS
  <2> USE DEF LiveStates, EffectiveState, Expires
  <2>1. ASSUME NEW a \in Auths, NEW t \in Targets, Create(a, t) PROVE Powerless
    BY <2>1 DEF Create, Superseded, TypeOK
  <2>2. ASSUME NEW a \in Auths, Get(a) PROVE Powerless
    BY <2>2 DEF Get, TypeOK
  <2>3. ASSUME NEW a \in Auths, NEW e \in Endpoints, CreatePresentation(a, e)
        PROVE  Powerless
    BY <2>3 DEF CreatePresentation, TypeOK
  <2>4. ASSUME NEW a \in Auths, NEW c \in Cards, NEW ch \in Channels, IssueCsrf(a, c, ch)
        PROVE  Powerless
    BY <2>4 DEF IssueCsrf
  <2>5. ASSUME NEW a \in Auths, NEW c \in Cards, NEW ch \in Channels,
               NEW d \in {"approve", "reject"}, Decide(a, c, ch, d)
        PROVE  Powerless
    BY <2>5 DEF Decide, TypeOK
  <2>6. ASSUME NEW a \in Auths, NEW p \in BOOLEAN, Supersede(a, p) PROVE Powerless
    BY <2>6 DEF Supersede, Supersedable, TypeOK
  <2>7. ASSUME NEW a \in Auths, NEW x \in Contexts, NEW op \in Ops, Consume(a, x, op)
        PROVE  Powerless
    BY <2>7 DEF Consume, Consumable, TypeOK
  <2>8. ASSUME NEW a \in Auths, ClockPasses(a) PROVE Powerless
    BY <2>8 DEF ClockPasses
  <2> QED
    BY <2>1, <2>2, <2>3, <2>4, <2>5, <2>6, <2>7, <2>8 DEF Next
<1> QED
  BY <1>1, TypeCorrect, PTL DEF Spec, OverdueIsPowerless
=============================================================================

----------------------------- MODULE CallerProofs -----------------------------
(***************************************************************************)
(* Two programs above the order call, each on the whole of OrderPath.      *)
(*                                                                         *)
(* The first places one order again and again (Reconcile): with the policy *)
(* of resubmitting only after a refusal the order is filled at most once,  *)
(* and with either policy it takes an unknown outcome to have it filled    *)
(* twice.  The invariant: every call before the last ended with one of the *)
(* outcomes the policy acts on.  The second program is bet_on              *)
(* (BetOn): it buys only what its selector names, and turns down only what *)
(* names nothing, for any documents of Gamma, any selectors and any number *)
(* of calls.  The steps of both are steps of OrderPath, whose invariant is *)
(* used, and both implement the abstract order call.  The results about    *)
(* bet_on do not use ReconcileAssumption, nor the others BetOnAssumption.  *)
(***************************************************************************)
EXTENDS Reconcile, BetOn, OrderPathProofs, NaturalsInduction, WellFoundedInduction

-----------------------------------------------------------------------------
(* Reconcile: resubmission. *)

\* A step of the program is a step of OrderPath or none.
LEMMA CallerStep == [CallerNext]_callerVars => [Next]_vars
<1> SUFFICES ASSUME [CallerNext]_callerVars PROVE [Next]_vars
  OBVIOUS
<1>1. CASE \E c \in Calls : PlaceFirst(c) \/ Resubmit(c)
  BY <1>1 DEF PlaceFirst, Resubmit, Place, BeginCall, Next
<1>2. CASE VerifyBalance
  BY <1>2 DEF VerifyBalance
<1>3. CASE Progress /\ UNCHANGED <<last, seen>>
  BY <1>3 DEF Next
<1>4. CASE UNCHANGED callerVars
  BY <1>4 DEF callerVars
<1> QED
  BY <1>1, <1>2, <1>3, <1>4 DEF CallerNext

\* A call that begins was idle, and touches no other call.
LEMMA BeginFrame ==
    ASSUME IInv, NEW c \in Calls, BeginCall(c)
    PROVE  /\ Idle(c)
           /\ \A d \in Calls : d # c => order'[d] = order[d] /\ result'[d] = result[d]
<1>1. ASSUME NEW res, EndLocally(c, res)
      PROVE  /\ Idle(c)
             /\ \A d \in Calls : d # c => order'[d] = order[d] /\ result'[d] = result[d]
  BY <1>1 DEF EndLocally, IInv, TypeOK
<1>2. ASSUME NEW o, Post(c, o)
      PROVE  /\ Idle(c)
             /\ \A d \in Calls : d # c => order'[d] = order[d] /\ result'[d] = result[d]
  BY <1>2 DEF Post, IInv, TypeOK
<1> QED
  BY <1>1, <1>2, BeginCases

\* Every call before the last was made in vain, if at all: it ended with one of
\* the given outcomes.
InVain(c, outcomes) == order[c] # NoOrder => Outcome(c) \in outcomes
EarlierInVain(outcomes) == \A c \in Calls : c # last => InVain(c, outcomes)

\* A call that has ended in vain stays so.
LEMMA InVainStays ==
    ASSUME NEW c \in Calls, NEW outcomes, InVain(c, outcomes),
           order'[c] = order[c], result'[c] = result[c]
    PROVE  InVain(c, outcomes)'
BY OutcomeFrame DEF InVain

\* A call made by a policy that acts only on the given outcomes leaves all the
\* earlier ones in vain.
LEMMA PlaceInVain ==
    ASSUME IInv, NEW c \in Calls, Place(c), NEW outcomes, EarlierInVain(outcomes),
           last = "none" \/ (result[last] # NoResult /\ Outcome(last) \in outcomes)
    PROVE  EarlierInVain(outcomes)'
<1>1. BeginCall(c) /\ last' = c
  BY DEF Place, BeginCall
<1>2. SUFFICES ASSUME NEW d \in Calls, d # c PROVE InVain(d, outcomes)'
  BY <1>1 DEF EarlierInVain
<1>3. order'[d] = order[d] /\ result'[d] = result[d]
  BY <1>1, <1>2, BeginFrame
<1>4. InVain(d, outcomes)
  BY <1>2, ReconcileAssumption DEF EarlierInVain, InVain
<1> QED
  BY <1>3, <1>4, InVainStays

\* What the bridge and the venue go on with does not bring a call back.
LEMMA ProgressInVain ==
    ASSUME IInv, NEW outcomes, outcomes \subseteq {"refused", "unknown"},
           EarlierInVain(outcomes), Progress, last' = last
    PROVE  EarlierInVain(outcomes)'
<1> SUFFICES ASSUME NEW c \in Calls, c # last PROVE InVain(c, outcomes)'
  BY DEF EarlierInVain
<1>1. order' = order /\ (result[c] # NoResult => result'[c] = result[c])
  BY ProgressFrame
<1>2. CASE order[c] = NoOrder
  BY <1>1, <1>2 DEF InVain
<1>3. CASE order[c] # NoOrder
  <2>1. InVain(c, outcomes) /\ Outcome(c) \in {"refused", "unknown"}
    BY <1>3 DEF EarlierInVain, InVain
  <2>2. result[c] # NoResult
    BY <2>1 DEF Outcome
  <2> QED
    BY <1>1, <2>1, <2>2, InVainStays
<1> QED
  BY <1>2, <1>3

\* The inductive invariant, for the outcomes a policy may act on.
CallerInv(outcomes) ==
    /\ IInv
    /\ last \in Calls \cup {"none"}
    /\ EarlierInVain(outcomes)

\* The outcomes the policy acts on.
MayAct == IF TrustBalance THEN {"refused", "unknown"} ELSE {"refused"}

LEMMA CallerInitInv == CallerInit => CallerInv(MayAct)
BY InitInv DEF CallerInit, CallerInv, EarlierInVain, InVain, Init

LEMMA CallerNextInv == CallerInv(MayAct) /\ [CallerNext]_callerVars => CallerInv(MayAct)'
<1> SUFFICES ASSUME CallerInv(MayAct), [CallerNext]_callerVars PROVE CallerInv(MayAct)'
  OBVIOUS
<1> USE DEF CallerInv
<1>1. IInv'
  BY CallerStep, NextInv
<1>2. last' \in Calls \cup {"none"}
  BY DEF CallerNext, PlaceFirst, Resubmit, Place, VerifyBalance, callerVars
<1>3. EarlierInVain(MayAct)'
  <2>1. ASSUME NEW c \in Calls, PlaceFirst(c) PROVE EarlierInVain(MayAct)'
    BY <2>1, PlaceInVain DEF PlaceFirst, MayAct
  <2>2. ASSUME NEW c \in Calls, Resubmit(c) PROVE EarlierInVain(MayAct)'
    <3>1. Place(c) /\ result[last] # NoResult /\ Outcome(last) \in MayAct
      BY <2>2 DEF Resubmit, Returned, MayResubmit, MayAct
    <3> QED
      BY <3>1, PlaceInVain DEF MayAct
  <2>3. CASE Progress /\ UNCHANGED <<last, seen>>
    BY <2>3, ProgressInVain DEF MayAct
  <2>4. CASE UNCHANGED <<vars, last>>
    BY <2>4, InVainStays DEF vars, clientVars, EarlierInVain, MayAct
  <2> QED
    BY <2>1, <2>2, <2>3, <2>4 DEF CallerNext, VerifyBalance, callerVars
<1> QED
  BY <1>1, <1>2, <1>3

LEMMA CallerInvariance == CallerSpec => []CallerInv(MayAct)
BY CallerInitInv, CallerNextInv, PTL DEF CallerSpec

\* An order that was never posted has no effect.
LEMMA NoOrderNoEffect ==
    ASSUME IInv, NEW c \in Calls, order[c] = NoOrder
    PROVE  EffectsOf(c) = {}
<1> SUFFICES ASSUME NEW s \in EffectsOf(c) PROVE FALSE
  OBVIOUS
<1>1. s \in Subs /\ s[1][1] = c /\ answer[s].took
  BY DEF EffectsOf, CallOf
<1>2. PICK r \in Reqs, k \in 0..MaxSubmits - 1 : s = <<r, k>>
  BY <1>1, Names DEF MaxSubmits
<1>3. handler[r] = "none"
  BY <1>1, <1>2 DEF IInv, Posted
<1>4. answer[s] = NoAnswer
  BY <1>2, <1>3 DEF IInv, Unread
<1> QED
  BY <1>1, <1>4 DEF NoAnswer

\* Only the last call can have an effect, or one that ended unknown.
LEMMA EffectOfWhom ==
    ASSUME CallerInv(MayAct), NEW c \in Calls, EffectsOf(c) # {}
    PROVE  c = last \/ ("unknown" \in MayAct /\ Outcome(c) = "unknown")
<1>1. order[c] # NoOrder
  BY NoOrderNoEffect DEF CallerInv
<1>2. Outcome(c) # "refused"
  BY OutcomesHonest DEF CallerInv, RefusedMeansNoEffect
<1> QED
  BY <1>1, <1>2 DEF CallerInv, EarlierInVain, InVain, MayAct

\* A program that resubmits an order only after a refusal has it filled at most
\* once, however often it resubmits and whatever happens between the program
\* and the venue.
THEOREM ResubmitAfterRefusalIsSafe ==
    ~TrustBalance => (CallerSpec => []NoDoubleFill)
<1> SUFFICES ASSUME ~TrustBalance PROVE CallerSpec => []NoDoubleFill
  OBVIOUS
<1>1. CallerInv(MayAct) => NoDoubleFill
  BY EffectOfWhom DEF NoDoubleFill, MayAct
<1> QED
  BY <1>1, CallerInvariance, PTL

\* Whether the program trusts the balance or not, of two calls that both had
\* the order filled one ended "unknown": every definite result of the client is
\* safe to act upon.
DoubtBeforeDoubleFill ==
    \A c, d \in Calls :
        c # d /\ EffectsOf(c) # {} /\ EffectsOf(d) # {}
            => "unknown" \in {Outcome(c), Outcome(d)}

THEOREM DoubleFillNeedsDoubt == CallerSpec => []DoubtBeforeDoubleFill
<1>1. CallerInv(MayAct) => DoubtBeforeDoubleFill
  BY EffectOfWhom DEF DoubtBeforeDoubleFill
<1> QED
  BY <1>1, CallerInvariance, PTL

\* Types, of the calls and of what the program knows.
THEOREM CallerTypeCorrect == CallerSpec => []CallerTypeOK
<1> DEFINE Inv == CallerInv(MayAct) /\ seen \in {"none", "failed", "same", "moved"}
<1>1. CallerInit => Inv
  BY CallerInitInv DEF CallerInit
<1>2. Inv /\ [CallerNext]_callerVars => Inv'
  <2> SUFFICES ASSUME Inv, [CallerNext]_callerVars PROVE Inv'
    OBVIOUS
  <2>1. CallerInv(MayAct)'
    BY CallerNextInv
  <2>2. seen' \in {"none", "failed", "same", "moved"}
    BY DEF CallerNext, PlaceFirst, Resubmit, Place, VerifyBalance, callerVars
  <2> QED
    BY <2>1, <2>2
<1>3. Inv => CallerTypeOK
  BY DEF CallerTypeOK, CallerInv, IInv
<1> QED
  BY <1>1, <1>2, <1>3, PTL DEF CallerSpec

\* The program that resubmits still sees of each call what an order call
\* promises, with either policy.
THEOREM CallerRefinement == CallerSpec => ImplementsOrderCall
<1>1. CallerInit => IInv /\ Abstract!Init
  BY InitInv, RefinesInit DEF CallerInit
<1>2. IInv /\ [CallerNext]_callerVars => IInv'
  BY CallerStep, NextInv
<1>3. IInv /\ IInv' /\ [CallerNext]_callerVars => [Abstract!Next]_Abstract!vars
  BY CallerStep, RefinesNext
<1> QED
  BY <1>1, <1>2, <1>3, PTL DEF CallerSpec, ImplementsOrderCall, Abstract!Spec

-----------------------------------------------------------------------------
(* bet_on: looking up a position. *)

\* A set of naturals that is not empty has a least element.
LEMMA LeastPosition ==
    ASSUME NEW T, T \subseteq Nat, T # {}
    PROVE  Min(T) \in T
<1> DEFINE Smaller == {ss \in Nat \X Nat : ss[1] < ss[2]}
<1>1. IsWellFoundedOn(Smaller, Nat)
  BY NatLessThanWellFounded, Zenon DEF OpToRel, Smaller
<1> HIDE DEF Smaller
<1>2. PICK x \in T : \A y \in T : ~(<<y, x>> \in Smaller)
  BY <1>1, WFMin
<1>3. \A y \in T : ~(y < x)
  BY <1>2 DEF Smaller
<1>4. \A y \in T : x <= y
  BY <1>3
<1> QED
  BY <1>4 DEF Min

\* outcome_by_token finds an outcome with that token, or there is none.
LEMMA ByToken ==
    ASSUME NEW outs, NEW n \in Nat, DOMAIN outs = 1..n, Len(outs) = n, NEW t
    PROVE  LET i == OutcomeByToken(outs, t)
           IN  \/ i \in 1..n /\ outs[i].token = t
               \/ i = 0 /\ \A j \in 1..n : outs[j].token # t
<1> DEFINE I == {i \in 1..Len(outs) : outs[i].token = t}
<1>1. OutcomeByToken(outs, t) = IF I # {} THEN Min(I) ELSE 0
  BY DEF OutcomeByToken, SelectInSeq
<1>2. I # {} => Min(I) \in I
  BY LeastPosition
<1> QED
  BY <1>1, <1>2

\* outcome_by_label finds an outcome with that label, or there is none.
LEMMA ByLabel ==
    ASSUME NEW outs, NEW n \in Nat, DOMAIN outs = 1..n, Len(outs) = n, NEW l
    PROVE  LET i == OutcomeByLabel(outs, l)
           IN  \/ i \in 1..n /\ outs[i].label = l
               \/ i = 0 /\ \A j \in 1..n : outs[j].label # l
<1> DEFINE I == {i \in 1..Len(outs) : outs[i].label = l}
<1>1. OutcomeByLabel(outs, l) = IF I # {} THEN Min(I) ELSE 0
  BY DEF OutcomeByLabel, SelectInSeq
<1>2. I # {} => Min(I) \in I
  BY LeastPosition
<1> QED
  BY <1>1, <1>2

\* The alias of a label names the other spelling of the same side.
LEMMA AliasNames ==
    ASSUME NEW l, NEW m
    PROVE  l \in DOMAIN Alias /\ m = Alias[l] <=> {l, m} \in {{"up", "yes"}, {"down", "no"}}
<1>1. DOMAIN Alias = {"up", "yes", "down", "no"}
  BY DEF Alias
<1>2. Alias["up"] = "yes" /\ Alias["yes"] = "up" /\ Alias["down"] = "no" /\ Alias["no"] = "down"
  BY DEF Alias
<1>3. l \in DOMAIN Alias /\ m = Alias[l] => {l, m} \in {{"up", "yes"}, {"down", "no"}}
  BY <1>1, <1>2
<1>4. ASSUME {l, m} = {"up", "yes"} PROVE l \in DOMAIN Alias /\ m = Alias[l]
  <2>1. l \in {"up", "yes"} /\ m \in {"up", "yes"} /\ (l = "up" \/ m = "up") /\ (l = "yes" \/ m = "yes")
    BY <1>4
  <2> QED
    BY <2>1, <1>1, <1>2
<1>5. ASSUME {l, m} = {"down", "no"} PROVE l \in DOMAIN Alias /\ m = Alias[l]
  <2>1. l \in {"down", "no"} /\ m \in {"down", "no"} /\ (l = "down" \/ m = "down") /\ (l = "no" \/ m = "no")
    BY <1>5
  <2> QED
    BY <2>1, <1>1, <1>2
<1> QED
  BY <1>3, <1>4, <1>5

\* _resolve_token_id finds an outcome that the selector names, or the selector
\* names none.
LEMMA ResolveIsRight ==
    ASSUME NEW outs, NEW n \in Nat, DOMAIN outs = 1..n, Len(outs) = n,
           NEW sel, sel.index \in Nat \cup {-1}
    PROVE  LET i == Resolve(outs, sel)
           IN  \/ i \in 1..n /\ Denotes(sel, outs, i)
               \/ i = 0 /\ \A j \in 1..n : ~Denotes(sel, outs, j)
<1> DEFINE t == OutcomeByToken(outs, sel.text)
           l == OutcomeByLabel(outs, sel.text)
           a == ByAlias(outs, sel.text)
<1>1. CASE sel.index >= 0
  <2>1. Resolve(outs, sel) = IF sel.index < n THEN sel.index + 1 ELSE 0
    BY <1>1 DEF Resolve
  <2>2. \A j : Denotes(sel, outs, j) <=> j = sel.index + 1
    BY <1>1 DEF Denotes
  <2> QED
    BY <1>1, <2>1, <2>2
<1>2. CASE ~(sel.index >= 0)
  <2>1. Resolve(outs, sel) = IF t # 0 THEN t ELSE IF l # 0 THEN l ELSE a
    BY <1>2 DEF Resolve
  <2>2. \A j : Denotes(sel, outs, j) <=>
            \/ sel.text \in {outs[j].token, outs[j].label}
            \/ /\ {sel.text, outs[j].label} \in {{"up", "yes"}, {"down", "no"}}
               /\ \A o \in Range(outs) : o.label # sel.text
    BY <1>2 DEF Denotes
  <2>3. \/ t \in 1..n /\ outs[t].token = sel.text
        \/ t = 0 /\ \A j \in 1..n : outs[j].token # sel.text
    BY ByToken
  <2>4. \/ l \in 1..n /\ outs[l].label = sel.text
        \/ l = 0 /\ \A j \in 1..n : outs[j].label # sel.text
    BY ByLabel
  <2>5. \/ /\ a \in 1..n /\ sel.text \in DOMAIN Alias
           /\ outs[a].label = Alias[sel.text]
        \/ /\ a = 0
           /\ sel.text \in DOMAIN Alias => \A j \in 1..n : outs[j].label # Alias[sel.text]
    BY ByLabel DEF ByAlias
  <2> HIDE DEF t, l, a
  <2>6. CASE t # 0
    BY <2>1, <2>2, <2>3, <2>6
  <2>7. CASE t = 0 /\ l # 0
    BY <2>1, <2>2, <2>4, <2>7
  <2>8. CASE t = 0 /\ l = 0
    <3>1. \A o \in Range(outs) : o.label # sel.text
      BY <2>4, <2>8 DEF Range
    <3> DEFINE Pairs == {{"up", "yes"}, {"down", "no"}}
    <3> HIDE DEF Pairs
    <3>2. \A j \in 1..n : sel.text # outs[j].token /\ sel.text # outs[j].label
      BY <2>3, <2>4, <2>8
    <3>3. ASSUME NEW j \in 1..n
          PROVE  Denotes(sel, outs, j) <=>
                     sel.text \in DOMAIN Alias /\ outs[j].label = Alias[sel.text]
      <4>1. Denotes(sel, outs, j) <=> {sel.text, outs[j].label} \in Pairs
        <5>1. sel.text \notin {outs[j].token, outs[j].label}
          BY <3>2
        <5> QED
          BY <2>2, <3>1, <5>1, Zenon DEF Pairs
      <4>2. sel.text \in DOMAIN Alias /\ outs[j].label = Alias[sel.text]
                <=> {sel.text, outs[j].label} \in Pairs
        BY AliasNames, Zenon DEF Pairs
      <4> QED
        BY <4>1, <4>2
    <3> QED
      BY <2>1, <2>5, <2>8, <3>3
  <2> QED
    BY <2>6, <2>7, <2>8
<1> QED
  BY <1>1, <1>2

-----------------------------------------------------------------------------
(* bet_on: the inductive invariant. *)

\* What is known of a call: no market was found, or one was and the selector
\* was resolved in it, and an outcome without a token id was posted, if at all,
\* with a body the bridge rejects.
Chosen(c) ==
    \/ market[c] = NoMarket /\ token[c] = NoToken /\ order[c] = NoOrder
    \/ /\ ~Idle(c)
       /\ selector[c] \in Selectors
       /\ \E doc \in Documents :
             /\ market[c] = ParseMarket(doc)
             /\ LET i == Resolve(market[c], selector[c])
                IN  \/ i = 0 /\ token[c] = NoToken /\ order[c] = NoOrder
                    \/ /\ i # 0 /\ token[c] = market[c][i].token
                       /\ token[c] = "" => order[c] = NoOrder \/ order[c].body = "missing"

\* An order with a missing field is rejected before the first submission.
Rejected(c) ==
    order[c].body = "missing" =>
        /\ handler[<<c, 1>>] \in {"none", "closed"}
        /\ \A k \in 0..2 : <<<<c, 1>>, k>> \notin transit /\ answer[<<<<c, 1>>, k>>] = NoAnswer

BetInv ==
    /\ IInv
    /\ selector \in [Calls -> Selectors \cup {NoSelector}]
    /\ market \in [Calls -> {NoMarket} \cup {ParseMarket(doc) : doc \in Documents}]
    /\ DOMAIN token = Calls
    /\ \A c \in Calls : Chosen(c) /\ Rejected(c)

\* A parsed market is a sequence of outcomes, none with the token "no token".
LEMMA ParsedMarket ==
    ASSUME NEW doc \in Documents
    PROVE  LET outs == ParseMarket(doc)
           IN  /\ Len(doc.labels) \in Nat
               /\ DOMAIN outs = 1..Len(doc.labels) /\ Len(outs) = Len(doc.labels)
               /\ \A i \in DOMAIN outs : outs[i].token # NoToken
<1> DEFINE n == Len(doc.labels)
<1>1. doc.labels \in Seq(STRING) /\ doc.ids \in Seq(STRING) /\ NoToken \notin Range(doc.ids)
  BY BetOnAssumption
<1>2. n \in Nat /\ DOMAIN doc.labels = 1..n
  BY <1>1
<1>3. DOMAIN ParseMarket(doc) = 1..n
  BY <1>2 DEF ParseMarket
<1>4. Len(ParseMarket(doc)) = n
  BY <1>2, <1>3
<1>5. ASSUME NEW i \in 1..n PROVE ParseMarket(doc)[i].token # NoToken
  <2>1. ParseMarket(doc)[i].token = IF i <= Len(doc.ids) THEN doc.ids[i] ELSE ""
    BY <1>2 DEF ParseMarket
  <2>2. i <= Len(doc.ids) => doc.ids[i] \in Range(doc.ids)
    BY <1>1 DEF Range
  <2> QED
    BY <1>1, <2>1, <2>2 DEF NoToken
<1> QED
  BY <1>2, <1>3, <1>4, <1>5

\* In a market that was found, the selector resolves to an outcome it names.
LEMMA Resolved ==
    ASSUME NEW doc \in Documents, NEW sel \in Selectors
    PROVE  LET outs == ParseMarket(doc)
               i == Resolve(outs, sel)
           IN  \/ i \in DOMAIN outs /\ i # 0 /\ Denotes(sel, outs, i)
               \/ i = 0 /\ \A j \in DOMAIN outs : ~Denotes(sel, outs, j)
<1>1. sel.index \in Nat \cup {-1}
  BY BetOnAssumption
<1> QED
  BY <1>1, ParsedMarket, ResolveIsRight

LEMMA BetInitInv == BetInit => BetInv
<1> SUFFICES ASSUME BetInit PROVE BetInv
  OBVIOUS
<1>1. IInv
  BY InitInv DEF BetInit
<1>2. \A c \in Calls : Chosen(c)
  BY DEF BetInit, Init, Chosen
<1>3. \A c \in Calls : Rejected(c)
  BY Names, OneTry DEF BetInit, Init, Rejected, NoOrder
<1> QED
  BY <1>1, <1>2, <1>3 DEF BetInit, BetInv

-----------------------------------------------------------------------------
(* bet_on: the steps. *)

\* A step that leaves a call alone, but for the end of it, keeps what was chosen.
LEMMA ChosenFrame ==
    ASSUME NEW c \in Calls, Chosen(c), order'[c] = order[c],
           selector'[c] = selector[c], market'[c] = market[c], token'[c] = token[c],
           result[c] # NoResult => result'[c] # NoResult
    PROVE  Chosen(c)'
BY DEF Chosen, Idle

\* A call that is idle has neither market nor token.
LEMMA NothingChosen ==
    ASSUME NEW c \in Calls, Chosen(c), Idle(c)
    PROVE  market[c] = NoMarket /\ token[c] = NoToken /\ order[c] = NoOrder
BY DEF Chosen

\* Ending a call locally keeps the invariant.
LEMMA EndLocallyBet ==
    ASSUME BetInv, NEW c \in Calls, NEW res \in {Raised, LocalError},
           EndLocally(c, res), UNCHANGED betVars
    PROVE  BetInv'
<1>1. IInv'
  BY EndLocallyInv DEF BetInv
<1>2. /\ UNCHANGED <<order, handler, transit, answer>>
      /\ \A d \in Calls : result[d] # NoResult => result'[d] # NoResult
  <2>1. \A d \in Calls : d # c => result'[d] = result[d]
    BY DEF EndLocally, BetInv, IInv, TypeOK
  <2>2. result[c] = NoResult
    BY DEF EndLocally, Idle
  <2> QED
    BY <2>1, <2>2 DEF EndLocally, bridgeVars, venueVars
<1>3. \A d \in Calls : Chosen(d)'
  BY <1>2, ChosenFrame DEF BetInv, betVars
<1>4. \A d \in Calls : Rejected(d)'
  BY <1>2 DEF BetInv, Rejected
<1> QED
  BY <1>1, <1>3, <1>4 DEF BetInv, betVars

\* So does choosing what to ask for.
LEMMA AskForInv ==
    ASSUME BetInv, NEW c \in Calls, AskFor(c)
    PROVE  BetInv'
<1>1. CASE EndLocally(c, Raised) /\ UNCHANGED selector
  BY <1>1, EndLocallyBet DEF AskFor, betVars
<1>2. ASSUME NEW sel \in Selectors, selector' = [selector EXCEPT ![c] = sel], UNCHANGED vars
      PROVE  BetInv'
  <2>1. IInv'
    BY <1>2, NextInv DEF BetInv
  <2>2. UNCHANGED <<order, result, handler, transit, answer, market, token>>
    BY <1>2 DEF vars, clientVars, bridgeVars, venueVars, AskFor
  <2>3. ASSUME NEW d \in Calls PROVE Chosen(d)'
    <3>1. CASE d = c
      BY <2>2, <3>1, NothingChosen DEF AskFor, BetInv, Chosen
    <3>2. CASE d # c
      BY <1>2, <2>2, <3>2, ChosenFrame DEF BetInv
    <3> QED
      BY <3>1, <3>2
  <2>4. \A d \in Calls : Rejected(d)'
    BY <2>2 DEF BetInv, Rejected
  <2>5. selector' \in [Calls -> Selectors \cup {NoSelector}]
    BY <1>2 DEF BetInv
  <2> QED
    BY <2>1, <2>2, <2>3, <2>4, <2>5 DEF BetInv
<1> QED
  BY <1>1, <1>2 DEF AskFor

\* So does a market that is not found.
LEMMA MarketFailsInv ==
    ASSUME BetInv, NEW c \in Calls, MarketFails(c)
    PROVE  BetInv'
BY EndLocallyBet DEF MarketFails

\* A POST finds the bridge without a trace of the call.
LEMMA PostBet ==
    ASSUME BetInv, NEW c \in Calls, NEW o \in Orders, Post(c, o)
    PROVE  /\ IInv'
           /\ order' = [order EXCEPT ![c] = o] /\ UNCHANGED result
           /\ \A d \in Calls : Rejected(d)'
<1>1. IInv'
  BY PostInv DEF BetInv
<1>2. /\ order' = [order EXCEPT ![c] = o]
      /\ UNCHANGED <<result, handler, transit, answer>>
      /\ order[c] = NoOrder
  BY DEF Post, Idle, bridgeVars, venueVars
<1>3. ASSUME NEW d \in Calls PROVE Rejected(d)'
  <2>1. CASE d = c
    <3>1. <<c, 1>> \in Reqs /\ <<c, 1>>[1] = c
      BY Names
    <3>2. handler[<<c, 1>>] = "none"
      BY <1>2, <3>1 DEF BetInv, IInv, Posted
    <3>3. \A k \in 0..2 : <<<<c, 1>>, k>> \notin transit /\ answer[<<<<c, 1>>, k>>] = NoAnswer
      <4>1. 0..MaxSubmits - 1 = 0..2
        BY DEF MaxSubmits
      <4>2. Unread
        BY DEF BetInv, IInv
      <4> QED
        BY <3>1, <3>2, <4>1, <4>2 DEF Unread
    <3> QED
      BY <1>2, <2>1, <3>2, <3>3 DEF Rejected
  <2>2. CASE d # c
    <3>1. order'[d] = order[d]
      BY <1>2, <2>2
    <3> QED
      BY <1>2, <3>1 DEF BetInv, Rejected
  <2> QED
    BY <2>1, <2>2
<1> QED
  BY <1>1, <1>2, <1>3

\* A market that was found keeps the invariant, whatever the selector resolves to.
LEMMA MarketFoundInv ==
    ASSUME BetInv, NEW c \in Calls, MarketFound(c)
    PROVE  BetInv'
<1>1. PICK doc \in Documents :
          LET outs == ParseMarket(doc)
              i    == Resolve(outs, selector[c])
          IN  /\ market' = [market EXCEPT ![c] = outs]
              /\ IF i = 0
                 THEN EndLocally(c, LocalError) /\ UNCHANGED token
                 ELSE /\ token' = [token EXCEPT ![c] = outs[i].token]
                      /\ PlaceBet(c, outs[i].token)
  BY DEF MarketFound
<1> DEFINE outs == ParseMarket(doc)
           i == Resolve(outs, selector[c])
<1>2. Idle(c) /\ selector[c] # NoSelector /\ selector' = selector
  BY DEF MarketFound, Fetching
<1>3. selector[c] \in Selectors
  BY <1>2 DEF BetInv
<1>4. market[c] = NoMarket /\ token[c] = NoToken /\ order[c] = NoOrder
  BY <1>2, NothingChosen DEF BetInv
<1>5. /\ market'[c] = outs
      /\ \A d \in Calls : d # c => market'[d] = market[d] /\ token'[d] = token[d]
      /\ market' \in [Calls -> {NoMarket} \cup {ParseMarket(dd) : dd \in Documents}]
      /\ DOMAIN token' = Calls
  <2>1. market' = [market EXCEPT ![c] = outs]
    BY <1>1
  <2>2. token' = token \/ \E t : token' = [token EXCEPT ![c] = t]
    BY <1>1
  <2> QED
    BY <2>1, <2>2 DEF BetInv
\* The three ways it ends.
<1>6. \/ i = 0 /\ EndLocally(c, LocalError) /\ token'[c] = NoToken
      \/ i # 0 /\ EndLocally(c, LocalError) /\ token'[c] = outs[i].token
      \/ /\ i # 0 /\ token'[c] = outs[i].token
         /\ \E o \in Orders : Post(c, o) /\ (outs[i].token = "" => o.body = "missing")
  <2>1. CASE i = 0
    BY <1>1, <1>4, <2>1
  <2>2. CASE i # 0
    <3>1. token' = [token EXCEPT ![c] = outs[i].token] /\ PlaceBet(c, outs[i].token)
      BY <1>1, <2>2
    <3>2. token'[c] = outs[i].token
      BY <3>1 DEF BetInv
    <3>3. \/ EndLocally(c, LocalError)
          \/ \E body \in (IF outs[i].token = "" THEN {"missing"} ELSE {"valid", "badType"}) :
                 Post(c, [op |-> "order", body |-> body])
      BY <3>1 DEF PlaceBet
    <3>4. ASSUME NEW body \in (IF outs[i].token = "" THEN {"missing"} ELSE {"valid", "badType"}),
                 Post(c, [op |-> "order", body |-> body])
          PROVE  \E o \in Orders : Post(c, o) /\ (outs[i].token = "" => o.body = "missing")
      <4> DEFINE o == [op |-> "order", body |-> body]
      <4>1. o \in Orders /\ (outs[i].token = "" => o.body = "missing")
        BY DEF Orders
      <4> QED
        BY <3>4, <4>1
    <3> QED
      BY <2>2, <3>2, <3>3, <3>4
  <2> QED
    BY <2>1, <2>2
<1> HIDE DEF outs, i
<1>7. i = Resolve(market'[c], selector'[c]) /\ market'[c] = ParseMarket(doc) /\ market'[c] = outs
  BY <1>2, <1>5 DEF outs, i
<1>8. CASE EndLocally(c, LocalError)
  <2>1. IInv'
    BY <1>8, EndLocallyInv DEF BetInv
  <2>2. /\ UNCHANGED <<order, handler, transit, answer>>
        /\ result'[c] # NoResult
        /\ \A d \in Calls : d # c => result'[d] = result[d]
    BY <1>8 DEF EndLocally, bridgeVars, venueVars, BetInv, IInv, TypeOK, LocalError, NoResult
  <2>3. Chosen(c)'
    <3>1. ~Idle(c)'
      BY <2>2 DEF Idle
    <3>2. order'[c] = NoOrder
      BY <1>4, <2>2
    <3>3. \/ i = 0 /\ token'[c] = NoToken
          \/ i # 0 /\ token'[c] = market'[c][i].token
      BY <1>6, <1>7
    <3> QED
      BY <1>2, <1>3, <1>7, <3>1, <3>2, <3>3 DEF Chosen
  <2>4. \A d \in Calls : Chosen(d)'
    BY <1>2, <1>5, <2>2, <2>3, ChosenFrame DEF BetInv
  <2>5. \A d \in Calls : Rejected(d)'
    BY <2>2 DEF BetInv, Rejected
  <2> QED
    BY <1>2, <1>5, <2>1, <2>4, <2>5 DEF BetInv
<1>9. ASSUME i # 0, token'[c] = outs[i].token,
             NEW o \in Orders, Post(c, o), outs[i].token = "" => o.body = "missing"
      PROVE  BetInv'
  <2>1. IInv' /\ (\A d \in Calls : Rejected(d)')
    BY <1>9, PostBet
  <2>2. order' = [order EXCEPT ![c] = o] /\ result' = result
    BY <1>9, PostBet
  <2>3. order'[c] = o /\ \A d \in Calls : d # c => order'[d] = order[d]
    BY <2>2 DEF BetInv, IInv, TypeOK
  <2>4. Chosen(c)'
    <3>1. ~Idle(c)'
      BY <2>3 DEF Idle, Orders, NoOrder
    <3> QED
      BY <1>2, <1>3, <1>7, <1>9, <2>3, <3>1 DEF Chosen
  <2>5. \A d \in Calls : Chosen(d)'
    BY <1>2, <1>5, <2>2, <2>3, <2>4, ChosenFrame DEF BetInv
  <2> QED
    BY <1>2, <1>5, <2>1, <2>5 DEF BetInv
<1> QED
  BY <1>6, <1>8, <1>9

\* No step of the bridge or the venue lets a rejected order through.
LEMMA RejectedStays ==
    ASSUME IInv, NEW c \in Calls, Rejected(c), Progress
    PROVE  Rejected(c)'
<1> SUFFICES ASSUME order'[c].body = "missing" PROVE Rejected(c)'
  BY DEF Rejected
<1> DEFINE r == <<c, 1>>
<1>1. order' = order
  BY ProgressFrame
<1>2. r \in Reqs /\ r[1] = c
  BY Names
<1>3. /\ order[c].body = "missing"
      /\ handler[r] \in {"none", "closed"}
      /\ \A k \in 0..2 : <<r, k>> \notin transit /\ answer[<<r, k>>] = NoAnswer
  BY <1>1 DEF Rejected
<1>4. SUFFICES /\ handler'[r] \in {"none", "closed"}
               /\ \A k \in 0..2 : <<r, k>> \notin transit' /\ answer'[<<r, k>>] = NoAnswer
  BY DEF Rejected
<1> HIDE DEF r
<1>5. ASSUME NEW d \in Calls, EndCall(d) PROVE UNCHANGED <<handler, transit, answer>>
  BY <1>5 DEF EndCall, ReplyArrives, TransportError, Settle, bridgeVars, venueVars
<1>6. ASSUME NEW q \in Reqs, BridgeStep(q), q = r
      PROVE  handler'[r] \in {"none", "closed"} /\ UNCHANGED <<transit, answer>>
  <2>1. BridgeReceive(q)
    BY <1>3, <1>6 DEF BridgeStep, Got401, RetrySameCreds, StartRefresh, RefreshSucceeds,
       RefreshFails, SubmitReturns, SubmitBreaks
  <2>2. PICK rep : Respond(q, rep) /\ answer' = answer
    BY <1>2, <1>3, <1>6, <2>1 DEF BridgeReceive
  <2> QED
    BY <1>2, <1>6, <2>2 DEF Respond, IInv, TypeOK
<1>7. ASSUME NEW q \in Reqs, BridgeStep(q), q # r
      PROVE  /\ handler'[r] = handler[r] /\ answer' = answer
             /\ \E k : transit' \subseteq transit \cup {<<q, k>>}
  <2>1. answer' = answer
    BY <1>7 DEF BridgeStep, BridgeReceive, RetrySameCreds, StartRefresh, RefreshSucceeds,
       RefreshFails, SubmitReturns, SubmitBreaks, venueVars
  <2>2. handler' = handler \/ \E h : handler' = [handler EXCEPT ![q] = h]
    BY <1>7 DEF BridgeStep, BridgeReceive, RetrySameCreds, StartRefresh, RefreshSucceeds,
       RefreshFails, SubmitReturns, SubmitBreaks, Respond
  <2>3. transit' = transit \/ \E k : transit' = transit \cup {<<q, k>>}
    BY <1>7 DEF BridgeStep, BridgeReceive, RetrySameCreds, StartRefresh, RefreshSucceeds,
       RefreshFails, SubmitReturns, SubmitBreaks, Respond, Submit, venueVars
  <2> QED
    BY <1>2, <1>7, <2>1, <2>2, <2>3 DEF IInv, TypeOK
<1>8. ASSUME NEW s \in Subs, VenueAnswersTo(s)
      PROVE  /\ handler' = handler /\ transit' \subseteq transit /\ s \in transit
             /\ \A u \in Subs : u # s => answer'[u] = answer[u]
  BY <1>8 DEF VenueAnswersTo, bridgeVars, IInv, TypeOK
<1>9. CASE Crash
  BY <1>2, <1>3, <1>9 DEF Crash, venueVars
<1>10. CASE Restart
  BY <1>3, <1>10 DEF Restart, bridgeVars, venueVars
<1>11. CASE \E d \in Calls : EndCall(d)
  BY <1>3, <1>5, <1>11
<1>12. CASE \E q \in Reqs : BridgeStep(q)
  <2>1. PICK q \in Reqs : BridgeStep(q)
    BY <1>12
  <2>2. CASE q = r
    BY <1>3, <1>6, <2>1, <2>2
  <2>3. CASE q # r
    BY <1>3, <1>7, <2>1, <2>3
  <2> QED
    BY <2>2, <2>3
<1>13. CASE \E s \in Subs : VenueAnswersTo(s)
  <2>1. PICK s \in Subs : VenueAnswersTo(s)
    BY <1>13
  <2>2. \A k \in 0..2 : <<r, k>> \in Subs /\ <<r, k>> # s
    BY <1>2, <1>3, <1>8, <2>1, Names
  <2> QED
    BY <1>3, <1>8, <2>1, <2>2
<1> QED
  BY <1>9, <1>10, <1>11, <1>12, <1>13 DEF Progress

\* A step below bet_on keeps the invariant.
LEMMA ProgressInv ==
    ASSUME BetInv, Progress, UNCHANGED betVars
    PROVE  BetInv'
<1>1. IInv'
  BY NextInv DEF Next, BetInv
<1>2. order' = order /\ \A c \in Calls : result[c] # NoResult => result'[c] = result[c]
  BY ProgressFrame DEF BetInv
<1>3. \A c \in Calls : Chosen(c)'
  BY <1>2, ChosenFrame DEF BetInv, betVars
<1>4. \A c \in Calls : Rejected(c)'
  BY RejectedStays DEF BetInv
<1> QED
  BY <1>1, <1>3, <1>4 DEF BetInv, betVars

LEMMA BetNextInv == BetInv /\ [BetNext]_allVars => BetInv'
<1> SUFFICES ASSUME BetInv, [BetNext]_allVars PROVE BetInv'
  OBVIOUS
<1>1. CASE \E c \in Calls : AskFor(c) \/ MarketFails(c) \/ MarketFound(c)
  BY <1>1, AskForInv, MarketFailsInv, MarketFoundInv
<1>2. CASE Progress /\ UNCHANGED betVars
  BY <1>2, ProgressInv
<1>3. CASE UNCHANGED allVars
  <2>1. IInv'
    BY <1>3, NextInv DEF BetInv, allVars
  <2>2. UNCHANGED <<order, result, handler, transit, answer, selector, market, token>>
    BY <1>3 DEF allVars, betVars, vars, clientVars, bridgeVars, venueVars
  <2>3. \A c \in Calls : Chosen(c)' /\ Rejected(c)'
    BY <2>2, ChosenFrame DEF BetInv, Rejected
  <2> QED
    BY <2>1, <2>2, <2>3 DEF BetInv
<1> QED
  BY <1>1, <1>2, <1>3 DEF BetNext

LEMMA BetInvariance == BetSpec => []BetInv
BY BetInitInv, BetNextInv, PTL DEF BetSpec

-----------------------------------------------------------------------------
(* bet_on: what the invariant gives. *)

\* Types of bet_on; in particular a token is one of the market that was found.
THEOREM BetTypeCorrect == BetSpec => []BetTypeOK
<1>1. ASSUME BetInv PROVE BetTypeOK
  <2>1. TypeOK
    BY <1>1 DEF BetInv, IInv
  <2>2. ASSUME NEW c \in Calls, token[c] # NoToken
        PROVE  \E o \in Range(market[c]) : token[c] = o.token
    <3>1. PICK doc \in Documents :
              /\ selector[c] \in Selectors
              /\ market[c] = ParseMarket(doc)
              /\ Resolve(market[c], selector[c]) # 0
              /\ token[c] = market[c][Resolve(market[c], selector[c])].token
      BY <1>1, <2>2 DEF BetInv, Chosen
    <3>2. Resolve(market[c], selector[c]) \in DOMAIN market[c]
      BY <3>1, Resolved
    <3> QED
      BY <3>1, <3>2 DEF Range
  <2> QED
    BY <1>1, <2>1, <2>2 DEF BetTypeOK, BetInv
<1> QED
  BY <1>1, BetInvariance, PTL

\* Money is spent only on an outcome that the selector denotes, and never on
\* one without a token id.
THEOREM OnlyTheChosenIsBought == BetSpec => []BuysWhatWasAsked
<1>1. ASSUME BetInv, NEW c \in Calls, EffectsOf(c) # {}
      PROVE  /\ token[c] # ""
             /\ \E i \in DOMAIN market[c] :
                    market[c][i].token = token[c] /\ Denotes(selector[c], market[c], i)
  <2>1. PICK s \in Subs : CallOf(s) = c /\ answer[s].took
    BY <1>1 DEF EffectsOf
  <2>2. <<c, 1>> \in Reqs /\ \E k \in 0..2 : s = <<<<c, 1>>, k>>
    BY <2>1, Names DEF CallOf
  <2>3. PICK k \in 0..2 : s = <<<<c, 1>>, k>>
    BY <2>2
  <2>4. answer[<<<<c, 1>>, k>>] # NoAnswer
    BY <2>1, <2>3 DEF NoAnswer
  <2>5. order[c].body # "missing"
    BY <1>1, <2>4 DEF BetInv, Rejected
  <2>6. order[c] # NoOrder
    <3>1. Posted /\ Unread
      BY <1>1 DEF BetInv, IInv
    <3>2. 0..MaxSubmits - 1 = 0..2
      BY DEF MaxSubmits
    <3>3. handler[<<c, 1>>] # "none"
      BY <2>2, <2>4, <3>1, <3>2 DEF Unread
    <3> QED
      BY <2>2, <3>1, <3>3 DEF Posted
  <2>7. PICK doc \in Documents :
            LET i == Resolve(market[c], selector[c])
            IN  /\ selector[c] \in Selectors /\ market[c] = ParseMarket(doc)
                /\ i # 0 /\ token[c] = market[c][i].token
                /\ token[c] # ""
    BY <1>1, <2>5, <2>6 DEF BetInv, Chosen
  <2>8. LET i == Resolve(market[c], selector[c])
        IN  i \in DOMAIN market[c] /\ Denotes(selector[c], market[c], i)
    BY <2>7, Resolved
  <2> QED
    BY <2>7, <2>8
<1>2. BetInv => BuysWhatWasAsked
  BY <1>1 DEF BuysWhatWasAsked
<1> QED
  BY <1>2, BetInvariance, PTL

\* A selector is turned down only if it denotes no outcome of the market.
THEOREM OnlyTheUnknownIsRefused == BetSpec => []RefusesOnlyTheUnknown
<1>1. ASSUME BetInv, NEW c \in Calls, market[c] # NoMarket, token[c] = NoToken
      PROVE  \A i \in DOMAIN market[c] : ~Denotes(selector[c], market[c], i)
  <2>1. PICK doc \in Documents :
            LET i == Resolve(market[c], selector[c])
            IN  /\ selector[c] \in Selectors /\ market[c] = ParseMarket(doc)
                /\ i = 0 \/ (i # 0 /\ token[c] = market[c][i].token)
    BY <1>1 DEF BetInv, Chosen
  <2>2. Resolve(market[c], selector[c]) = 0
    <3>1. ASSUME Resolve(market[c], selector[c]) # 0 PROVE FALSE
      <4>1. Resolve(market[c], selector[c]) \in DOMAIN market[c]
        BY <2>1, <3>1, Resolved
      <4>2. market[c][Resolve(market[c], selector[c])].token # NoToken
        BY <2>1, <4>1, ParsedMarket
      <4> QED
        BY <1>1, <2>1, <3>1, <4>2
    <3> QED
      BY <3>1
  <2> QED
    BY <2>1, <2>2, Resolved
<1>2. BetInv => RefusesOnlyTheUnknown
  BY <1>1 DEF RefusesOnlyTheUnknown
<1> QED
  BY <1>2, BetInvariance, PTL

-----------------------------------------------------------------------------
(* bet_on implements the order call. *)

\* A step of bet_on ends its call, posts its order, or is invisible.
LEMMA BetRefinesStep ==
    ASSUME IInv, NEW c \in Calls, AskFor(c) \/ MarketFails(c) \/ MarketFound(c)
    PROVE  [Abstract!Next]_Abstract!vars
<1>1. ASSUME NEW res \in {Raised, LocalError}, EndLocally(c, res) PROVE Abstract!Next
  BY <1>1, RefinesBegin
<1>2. ASSUME NEW o \in Orders, Post(c, o) PROVE Abstract!Next
  BY <1>2, RefinesBegin
<1>3. CASE AskFor(c)
  <2>1. ASSUME UNCHANGED vars PROVE UNCHANGED Abstract!vars
    BY <2>1, Invisible DEF vars, clientVars, venueVars
  <2> QED
    BY <1>1, <1>3, <2>1 DEF AskFor
<1>4. CASE MarketFails(c)
  BY <1>1, <1>4 DEF MarketFails
<1>5. CASE MarketFound(c)
  <2>1. EndLocally(c, LocalError) \/ \E t : PlaceBet(c, t)
    BY <1>5 DEF MarketFound
  <2>2. ASSUME NEW t, PlaceBet(c, t)
        PROVE  EndLocally(c, LocalError) \/ \E o \in Orders : Post(c, o)
    BY <2>2 DEF PlaceBet, Orders
  <2> QED
    BY <1>1, <1>2, <2>1, <2>2
<1> QED
  BY <1>3, <1>4, <1>5

\* A bet is an order call: it too takes effect at most once, its outcome is
\* never claimed wrongly, and what did not resolve is refused before it leaves.
THEOREM BetRefinement == BetSpec => ImplementsOrderCall
<1>1. BetInit => Abstract!Init
  BY RefinesInit DEF BetInit
<1>2. BetInv /\ BetInv' /\ [BetNext]_allVars => [Abstract!Next]_Abstract!vars
  <2> SUFFICES ASSUME BetInv, BetInv', [BetNext]_allVars
               PROVE  [Abstract!Next]_Abstract!vars
    OBVIOUS
  <2>1. CASE \E c \in Calls : AskFor(c) \/ MarketFails(c) \/ MarketFound(c)
    BY <2>1, BetRefinesStep DEF BetInv
  <2>2. CASE Progress \/ UNCHANGED vars
    BY <2>2, RefinesNext DEF BetInv, Next
  <2> QED
    BY <2>1, <2>2 DEF BetNext, allVars
<1> QED
  BY <1>1, <1>2, BetInvariance, PTL DEF BetSpec, ImplementsOrderCall, Abstract!Spec
=============================================================================

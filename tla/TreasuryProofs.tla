---------------------------- MODULE TreasuryProofs ----------------------------
(***************************************************************************)
(* Safety of withdrawals, for any set of calls, any amounts and any moves  *)
(* of the balance, and the refinement of OrderCall.                        *)
(***************************************************************************)
EXTENDS Treasury, TLAPS

-----------------------------------------------------------------------------
(* The inductive invariant. *)

\* The one POST of a call.
Req(w) == <<w, 1>>

\* The call goes through its stages in order, and posts only what is covered.
Staged(w) ==
    /\ stage[w] = "idle" => tries[w] = 0 /\ got[w] = {}
    /\ stage[w] = "open" => tries[w] = 0 /\ result[w] = NoResult /\ gates.client
                            /\ asked[w] \in Asked
    /\ tries[w] > 0 => /\ stage[w] = "returned" /\ gates.client /\ asked[w] \in Asked
                       /\ \E b \in got[w] : asked[w].amount <= b
    /\ stage[w] = "returned" /\ result[w] = NoResult => tries[w] > 0
    /\ tries[w] = 0 => handler[Req(w)] = "none"

\* What the bridge has done with the POST, and what it said.
Handled(w) ==
    LET r == Req(w)
    IN  /\ handler[r] \in {"none", "wire"} =>
               reply[r] = "none" /\ r \notin sending /\ r \notin sent
        /\ handler[r] = "sending" => reply[r] = "none"
        /\ r \in sending \cup sent => gates.bridge
        /\ r \in sending => r \notin sent
        /\ reply[r] = "200" => r \in sent /\ r \notin sending
        /\ reply[r] = "4xx" => r \notin sent /\ r \notin sending

\* Where a result comes from.
Origin(w) ==
    /\ result[w].via \in {"local", "raised"} => tries[w] = 0
    /\ result[w].via \in {"200", "4xx"} => reply[Req(w)] = result[w].via /\ tries[w] > 0
    /\ result[w] # NoResult => result[w] = Res(result[w].via)

TInv == TypeOK /\ \A w \in Calls : Staged(w) /\ Handled(w) /\ Origin(w)

-----------------------------------------------------------------------------
(* Facts about the data. *)

LEMMA OnePost ==
    /\ Tries = {1} /\ Attempts(PostRetries) = 1
    /\ \A w \in Calls : Req(w) \in Reqs
    /\ \A r \in Reqs : r[1] \in Calls /\ r = Req(r[1])
BY DEF Tries, Attempts, PostRetries, Reqs, Req

\* A POST is never followed by another one.
LEMMA NeverRetries == ASSUME NEW via PROVE ~Retries(via, 1 - 1, Attempts(PostRetries))
BY OnePost DEF Retries

LEMMA ResType ==
    ASSUME NEW via \in {"local", "raised", "transport", "200", "4xx", "5xx"}
    PROVE  /\ Res(via) \in Results /\ Res(via) # NoResult /\ Res(via).via = via
           /\ Res(via).ok = (via = "200") /\ Res(via) = Res(Res(via).via)
BY DEF Res, Results, NoResult

\* Rounding to the units of the token does not exceed a balance that covers
\* the amount.
LEMMA RoundingIsCovered ==
    ASSUME NEW a \in Nat, NEW b \in Balances, a <= b
    PROVE  Units(a) <= b
<1>1. b \in Nat /\ b % 2 = 0
  BY TreasuryAssumption DEF Balances
<1>2. Units(a) = 2 * ((a + 1) \div 2)
  BY DEF Units
<1> QED
  BY <1>1, <1>2

-----------------------------------------------------------------------------
(* A step that concerns one call keeps the rest. *)

Untouched(q) ==
    /\ stage'[q] = stage[q] /\ got'[q] = got[q] /\ asked'[q] = asked[q]
    /\ tries'[q] = tries[q] /\ result'[q] = result[q]
    /\ handler'[Req(q)] = handler[Req(q)] /\ reply'[Req(q)] = reply[Req(q)]
    /\ (Req(q) \in sending' <=> Req(q) \in sending) /\ (Req(q) \in sent' <=> Req(q) \in sent)

LEMMA OthersStay ==
    ASSUME TInv, TypeOK', gates' = gates, NEW w \in Calls,
           Staged(w)' /\ Handled(w)' /\ Origin(w)',
           \A q \in Calls : q # w => Untouched(q)
    PROVE  TInv'
<1>1. ASSUME NEW q \in Calls, q # w PROVE Staged(q)' /\ Handled(q)' /\ Origin(q)'
  <2>1. Staged(q) /\ Handled(q) /\ Origin(q) /\ Untouched(q)
    BY <1>1 DEF TInv
  <2>2. Staged(q)'
    BY <2>1 DEF Staged, Untouched, Req
  <2>3. Handled(q)'
    BY <2>1 DEF Handled, Untouched, Req
  <2>4. Origin(q)'
    BY <2>1 DEF Origin, Untouched, Req
  <2> QED
    BY <2>2, <2>3, <2>4
<1> QED
  BY <1>1 DEF TInv

LEMMA InitTInv == Init => TInv
<1> SUFFICES ASSUME Init PROVE TInv
  OBVIOUS
<1>1. /\ collateral \in Balances /\ stage = [w \in Calls |-> "idle"]
      /\ got = [w \in Calls |-> {}]
  BY DEF Init, Balance!Init
<1>2. TypeOK
  BY <1>1, TreasuryAssumption DEF Init, TypeOK
<1>3. \A w \in Calls : Staged(w) /\ Handled(w) /\ Origin(w)
  BY <1>1, OnePost DEF Init, Staged, Handled, Origin, NoResult
<1> QED
  BY <1>2, <1>3 DEF TInv

LEMMA WithdrawTInv == ASSUME TInv, NEW w \in Calls, Withdraw(w) PROVE TInv'
<1>1. TypeOK /\ Staged(w) /\ Handled(w) /\ Origin(w)
  BY DEF TInv
<1>2. /\ UNCHANGED <<tries, handler, reply, sending, sent, isOpen, gates, moves>>
      /\ stage[w] = "idle" /\ result[w] = NoResult /\ tries[w] = 0
  BY <1>1 DEF Withdraw, bridgeVars, envVars, Staged
<1>3. PICK amount \in -1..MaxAmount, to \in Addresses :
          IF gates.client /\ to # "bad" /\ amount > 0
          THEN /\ Balance!Begin(w)
               /\ asked' = [asked EXCEPT ![w] = [amount |-> amount, to |-> to]]
               /\ UNCHANGED result
          ELSE Return(w, "local") /\ UNCHANGED <<readVars, asked>>
  BY DEF Withdraw
<1>4. CASE gates.client /\ to # "bad" /\ amount > 0
  <2>1. /\ stage' = [stage EXCEPT ![w] = "open"] /\ got' = got /\ collateral' = collateral
        /\ asked' = [asked EXCEPT ![w] = [amount |-> amount, to |-> to]]
        /\ result' = result
    BY <1>3, <1>4 DEF Balance!Begin
  <2>2. [amount |-> amount, to |-> to] \in Asked
    BY <1>4, TreasuryAssumption DEF Asked
  <2>3. TypeOK'
    BY <1>1, <1>2, <2>1, <2>2 DEF TypeOK
  <2>4. stage'[w] = "open" /\ asked'[w] \in Asked
    BY <1>1, <2>1, <2>2 DEF TypeOK
  <2>5. Staged(w)' /\ Handled(w)' /\ Origin(w)'
    BY <1>1, <1>2, <1>4, <2>1, <2>4 DEF Staged, Handled, Origin, Req
  <2>6. \A q \in Calls : q # w => Untouched(q)
    BY <1>1, <1>2, <2>1 DEF TypeOK, Untouched
  <2> QED
    BY <1>2, <2>3, <2>5, <2>6, OthersStay
<1>5. CASE ~(gates.client /\ to # "bad" /\ amount > 0)
  <2>1. result' = [result EXCEPT ![w] = Res("local")] /\ UNCHANGED <<readVars, asked>>
    BY <1>3, <1>5 DEF Return
  <2>2. TypeOK'
    BY <1>1, <1>2, <2>1, ResType DEF TypeOK, readVars
  <2>3. result'[w] = Res("local")
    BY <1>1, <2>1 DEF TypeOK
  <2>4. Staged(w)' /\ Handled(w)' /\ Origin(w)'
    BY <1>1, <1>2, <2>1, <2>3, ResType DEF Staged, Handled, Origin, Req, readVars
  <2>5. \A q \in Calls : q # w => Untouched(q)
    BY <1>1, <1>2, <2>1 DEF TypeOK, Untouched, readVars
  <2> QED
    BY <1>2, <2>2, <2>4, <2>5, OthersStay
<1> QED
  BY <1>4, <1>5

LEMMA LooksTInv == ASSUME TInv, NEW w \in Calls, Looks(w) PROVE TInv'
<1>1. TypeOK /\ Staged(w) /\ Handled(w) /\ Origin(w)
  BY DEF TInv
<1>2. PICK seen \in SUBSET Balances : got' = [got EXCEPT ![w] = seen]
  <2>1. {collateral} \in SUBSET Balances /\ {} \in SUBSET Balances
    BY <1>1 DEF TypeOK
  <2> QED
    BY <2>1 DEF Looks, Balance!Look, Balance!Forget
<1>3. /\ stage[w] = "open" /\ stage' = stage /\ collateral' = collateral
      /\ UNCHANGED <<asked, tries, result, handler, reply, sending, sent, isOpen, gates, moves>>
  BY DEF Looks, Balance!Look, Balance!Forget, clientVars, bridgeVars, envVars
<1>4. TypeOK'
  BY <1>1, <1>2, <1>3 DEF TypeOK
<1>5. Staged(w)' /\ Handled(w)' /\ Origin(w)'
  BY <1>1, <1>3 DEF Staged, Handled, Origin, Req
<1>6. \A q \in Calls : q # w => Untouched(q)
  BY <1>1, <1>2, <1>3 DEF TypeOK, Untouched
<1> QED
  BY <1>3, <1>4, <1>5, <1>6, OthersStay

LEMMA CheckTInv == ASSUME TInv, NEW w \in Calls, Check(w) PROVE TInv'
<1>1. TypeOK /\ Staged(w) /\ Handled(w) /\ Origin(w)
  BY DEF TInv
<1>2. /\ stage[w] = "open" /\ stage' = [stage EXCEPT ![w] = "returned"]
      /\ got' = got \/ got' = [got EXCEPT ![w] = {}]
      /\ UNCHANGED <<collateral, asked, reply, sending, sent, isOpen, gates, moves>>
  BY DEF Check, Balance!Return, envVars
<1>3. /\ tries[w] = 0 /\ result[w] = NoResult /\ gates.client /\ asked[w] \in Asked
      /\ handler[Req(w)] = "none"
  BY <1>1, <1>2 DEF Staged
<1>4. stage'[w] = "returned" /\ got' \in [Calls -> SUBSET Balances]
  BY <1>1, <1>2 DEF TypeOK
<1>5. \A q \in Calls : q # w => stage'[q] = stage[q] /\ got'[q] = got[q]
  BY <1>1, <1>2 DEF TypeOK
<1>6. CASE isOpen /\ \E b \in got'[w] : asked[w].amount <= b
  <2>1. /\ tries' = [tries EXCEPT ![w] = tries[w] + 1]
        /\ handler' = [handler EXCEPT ![<<w, tries[w] + 1>>] = "wire"]
        /\ UNCHANGED result
    BY <1>6 DEF Check, Post
  <2>2. tries' = [tries EXCEPT ![w] = 1] /\ handler' = [handler EXCEPT ![Req(w)] = "wire"]
    BY <1>3, <2>1 DEF Req
  <2>3. Req(w) \in Reqs /\ 1 \in Tries
    BY OnePost
  <2>4. TypeOK'
    BY <1>1, <1>2, <1>4, <2>1, <2>2, <2>3 DEF TypeOK
  <2>5. tries'[w] = 1 /\ handler'[Req(w)] = "wire"
    BY <1>1, <2>2, <2>3 DEF TypeOK
  <2>6. Staged(w)'
    BY <1>2, <1>3, <1>4, <1>6, <2>5 DEF Staged, Req
  <2>7. Handled(w)'
    BY <1>1, <1>2, <1>3, <2>5 DEF Handled, Req
  <2>8. Origin(w)'
    BY <1>1, <1>3, <2>1 DEF Origin, NoResult
  <2>9. \A q \in Calls : q # w => Untouched(q)
    <3>1. \A q \in Calls : q # w => Req(q) # Req(w) /\ Req(q) \in Reqs
      BY OnePost DEF Req
    <3> QED
      BY <1>1, <1>2, <1>5, <2>1, <2>2, <3>1 DEF TypeOK, Untouched
  <2> QED
    BY <1>2, <2>4, <2>6, <2>7, <2>8, <2>9, OthersStay
<1>7. CASE ~(isOpen /\ \E b \in got'[w] : asked[w].amount <= b)
  <2>1. PICK via \in {"local", "raised"} :
            result' = [result EXCEPT ![w] = Res(via)] /\ UNCHANGED <<tries, handler>>
    BY <1>7 DEF Check, Post, Return
  <2>2. Res(via) \in Results /\ Res(via) # NoResult /\ Res(via) = Res(Res(via).via) /\ Res(via).via = via
    BY ResType
  <2>3. TypeOK'
    BY <1>1, <1>2, <1>4, <2>1, <2>2 DEF TypeOK
  <2>4. result'[w] = Res(via)
    BY <1>1, <2>1 DEF TypeOK
  <2>5. Staged(w)'
    BY <1>2, <1>3, <1>4, <2>1, <2>2, <2>4 DEF Staged, Req
  <2>6. Handled(w)'
    BY <1>1, <1>2, <2>1 DEF Handled, Req
  <2>7. Origin(w)'
    BY <1>3, <2>1, <2>2, <2>4 DEF Origin
  <2>8. \A q \in Calls : q # w => Untouched(q)
    BY <1>1, <1>2, <1>5, <2>1 DEF TypeOK, Untouched
  <2> QED
    BY <1>2, <2>3, <2>5, <2>6, <2>7, <2>8, OthersStay
<1> QED
  BY <1>6, <1>7

\* The end of the POST is the end of the call.
LEMMA SettleTInv ==
    ASSUME TInv, NEW w \in Calls, NEW via \in {"transport", "200", "4xx", "5xx"}, Settle(w, via),
           via \in {"200", "4xx"} => reply[Req(w)] = via
    PROVE  TInv' /\ tries[w] > 0 /\ result[w] = NoResult /\ result' = [result EXCEPT ![w] = Res(via)]
<1>1. TypeOK /\ Staged(w) /\ Handled(w) /\ Origin(w)
  BY DEF TInv
<1>2. tries[w] = 1 /\ result[w] = NoResult
  BY <1>1, OnePost DEF Settle, Waiting, TypeOK
<1>3. /\ result' = [result EXCEPT ![w] = Res(via)]
      /\ UNCHANGED <<collateral, stage, got, asked, tries, handler, reply, sending, sent,
                     isOpen, gates, moves>>
  BY <1>2, NeverRetries DEF Settle, Return, readVars, envVars
<1>4. Res(via) \in Results /\ Res(via) # NoResult /\ Res(via) = Res(Res(via).via) /\ Res(via).via = via
  BY ResType
<1>5. TypeOK'
  BY <1>1, <1>3, <1>4 DEF TypeOK
<1>6. result'[w] = Res(via)
  BY <1>1, <1>3 DEF TypeOK
<1>7. Staged(w)'
  BY <1>1, <1>2, <1>3 DEF Staged, Req
<1>8. Handled(w)' /\ Origin(w)'
  BY <1>1, <1>2, <1>3, <1>4, <1>6 DEF Handled, Origin, Req
<1>9. \A q \in Calls : q # w => Untouched(q)
  BY <1>1, <1>3 DEF TypeOK, Untouched
<1> QED
  BY <1>2, <1>3, <1>5, <1>7, <1>8, <1>9, OthersStay

LEMMA ReplyTInv ==
    ASSUME TInv, NEW w \in Calls, ReplyArrives(w) \/ TransportError(w)
    PROVE  \E via \in {"transport", "200", "4xx", "5xx"} :
               /\ Settle(w, via)
               /\ via \in {"200", "4xx"} => reply[Req(w)] = via
<1>1. CASE TransportError(w)
  BY <1>1 DEF TransportError
<1>2. CASE ReplyArrives(w)
  <2>1. tries[w] = 1 /\ Req(w) \in Reqs
    BY <1>2, OnePost DEF ReplyArrives, Waiting, TInv, TypeOK
  <2>2. Settle(w, reply[Req(w)]) /\ reply[Req(w)] \in {"200", "4xx", "5xx"}
    BY <1>2, <2>1 DEF ReplyArrives, Req, TInv, TypeOK
  <2> QED
    BY <2>2
<1> QED
  BY <1>1, <1>2

\* Where a request can be when the bridge takes a step with it.
LEMMA BridgeParts ==
    ASSUME TInv, NEW r \in Reqs, handler[r] # "none" \/ r \in sending
    PROVE  /\ TypeOK /\ r[1] \in Calls /\ r = Req(r[1]) /\ handler[r] # "none"
           /\ Staged(r[1]) /\ Handled(r[1]) /\ Origin(r[1]) /\ tries[r[1]] = 1
<1>1. r[1] \in Calls /\ r = Req(r[1])
  BY OnePost
<1>2. TypeOK /\ Staged(r[1]) /\ Handled(r[1]) /\ Origin(r[1])
  BY <1>1 DEF TInv
<1>3. handler[r] # "none"
  BY <1>1, <1>2 DEF Handled
<1>4. tries[r[1]] = 1
  BY <1>1, <1>2, <1>3, OnePost DEF Staged, TypeOK
<1> QED
  BY <1>1, <1>2, <1>3, <1>4

LEMMA BridgeReceiveTInv == ASSUME TInv, NEW r \in Reqs, BridgeReceive(r) PROVE TInv'
<1> DEFINE w == r[1]
<1>1. /\ TypeOK /\ w \in Calls /\ r = Req(w) /\ handler[r] = "wire"
      /\ Staged(w) /\ Handled(w) /\ Origin(w) /\ tries[w] = 1
  BY BridgeParts DEF BridgeReceive
<1>2. UNCHANGED <<collateral, stage, got, asked, tries, result, sent, isOpen, gates, moves>>
  BY DEF BridgeReceive, readVars, clientVars, envVars
<1>3. \A q \in Calls : q # w => Req(q) # r
  BY <1>1 DEF Req
<1>4. CASE gates.bridge /\ asked[w].to = "good"
  <2>1. /\ handler' = [handler EXCEPT ![r] = "sending"]
        /\ sending' = sending \cup {r} /\ reply' = reply
    BY <1>4 DEF BridgeReceive
  <2>2. TypeOK'
    BY <1>1, <1>2, <2>1 DEF TypeOK
  <2>3. handler'[r] = "sending"
    BY <1>1, <2>1 DEF TypeOK
  <2>4. Staged(w)' /\ Handled(w)' /\ Origin(w)'
    BY <1>1, <1>2, <1>4, <2>1, <2>3 DEF Staged, Handled, Origin, Req
  <2>5. \A q \in Calls : q # w => Untouched(q)
    BY <1>1, <1>2, <1>3, <2>1, OnePost DEF TypeOK, Untouched
  <2> QED
    BY <1>1, <1>2, <2>2, <2>4, <2>5, OthersStay
<1>5. CASE ~(gates.bridge /\ asked[w].to = "good")
  <2>1. /\ handler' = [handler EXCEPT ![r] = "closed"] /\ reply' = [reply EXCEPT ![r] = "4xx"]
        /\ sending' = sending
    BY <1>5 DEF BridgeReceive, Respond
  <2>2. TypeOK'
    BY <1>1, <1>2, <2>1 DEF TypeOK
  <2>3. handler'[r] = "closed" /\ reply'[r] = "4xx"
    BY <1>1, <2>1 DEF TypeOK
  <2>4. Staged(w)' /\ Handled(w)' /\ Origin(w)'
    BY <1>1, <1>2, <2>1, <2>3 DEF Staged, Handled, Origin, Req
  <2>5. \A q \in Calls : q # w => Untouched(q)
    BY <1>1, <1>2, <1>3, <2>1, OnePost DEF TypeOK, Untouched
  <2> QED
    BY <1>1, <1>2, <2>2, <2>4, <2>5, OthersStay
<1> QED
  BY <1>4, <1>5

LEMMA BroadcastTInv == ASSUME TInv, NEW r \in Reqs, Broadcast(r) PROVE TInv'
<1> DEFINE w == r[1]
<1>1. /\ TypeOK /\ w \in Calls /\ r = Req(w) /\ handler[r] # "none" /\ r \in sending
      /\ Staged(w) /\ Handled(w) /\ Origin(w) /\ tries[w] = 1
  BY BridgeParts DEF Broadcast
<1>2. /\ UNCHANGED <<collateral, stage, got, asked, tries, result, handler, reply,
                     isOpen, gates, moves>>
      /\ sending' = sending \ {r} /\ sent' = sent \cup {r}
  BY DEF Broadcast, readVars, clientVars, envVars
<1>3. \A q \in Calls : q # w => Req(q) # r
  BY <1>1 DEF Req
<1>4. TypeOK'
  BY <1>1, <1>2 DEF TypeOK
<1>5. Staged(w)' /\ Handled(w)' /\ Origin(w)'
  BY <1>1, <1>2 DEF Staged, Handled, Origin, Req
<1>6. \A q \in Calls : q # w => Untouched(q)
  BY <1>1, <1>2, <1>3 DEF Untouched
<1> QED
  BY <1>1, <1>2, <1>4, <1>5, <1>6, OthersStay

LEMMA SendEndsTInv == ASSUME TInv, NEW r \in Reqs, SendEnds(r) PROVE TInv'
<1> DEFINE w == r[1]
<1>1. /\ TypeOK /\ w \in Calls /\ r = Req(w) /\ handler[r] = "sending"
      /\ Staged(w) /\ Handled(w) /\ Origin(w) /\ tries[w] = 1
  BY BridgeParts DEF SendEnds
<1>2. PICK code \in {"200", "5xx"} :
          /\ handler' = [handler EXCEPT ![r] = "closed"] /\ reply' = [reply EXCEPT ![r] = code]
          /\ code = "200" => r \in sent
          /\ sending' = sending \/ (code = "5xx" /\ sending' = sending \ {r})
  BY DEF SendEnds, Respond
<1>3. UNCHANGED <<collateral, stage, got, asked, tries, result, sent, isOpen, gates, moves>>
  BY DEF SendEnds, readVars, clientVars, envVars
<1>4. \A q \in Calls : q # w => Req(q) # r
  BY <1>1 DEF Req
<1>5. TypeOK'
  BY <1>1, <1>2, <1>3 DEF TypeOK
<1>6. handler'[r] = "closed" /\ reply'[r] = code
  BY <1>1, <1>2 DEF TypeOK
<1>7. Staged(w)' /\ Handled(w)' /\ Origin(w)'
  <2>1. reply[r] = "none"
    BY <1>1 DEF Handled
  <2>2. Handled(w)'
    BY <1>1, <1>2, <1>3, <1>6 DEF Handled, Req
  <2>3. Staged(w)' /\ Origin(w)'
    BY <1>1, <1>3, <2>1 DEF Staged, Origin, Req
  <2> QED
    BY <2>2, <2>3
<1>8. \A q \in Calls : q # w => Untouched(q)
  BY <1>1, <1>2, <1>3, <1>4, OnePost DEF TypeOK, Untouched
<1> QED
  BY <1>1, <1>3, <1>5, <1>7, <1>8, OthersStay

\* What nobody's call is concerned with.
LEMMA QuietTInv ==
    ASSUME TInv, TypeOK',
           UNCHANGED <<stage, got, asked, tries, result, handler, reply, sending, sent, gates>>
    PROVE  TInv'
BY DEF TInv, Staged, Handled, Origin, Req

LEMMA MoveTInv == ASSUME TInv, Move PROVE TInv'
<1>1. /\ UNCHANGED <<stage, got, asked, tries, result, handler, reply, sending, sent,
                     isOpen, gates>>
      /\ collateral' \in Balances /\ moves' = moves + 1 /\ moves < MaxMoves
  BY DEF Move, Balance!Change, clientVars, bridgeVars
<1>2. moves' \in 0..MaxMoves
  BY <1>1, TreasuryAssumption DEF TInv, TypeOK
<1>3. TypeOK'
  BY <1>1, <1>2 DEF TInv, TypeOK
<1> QED
  BY <1>1, <1>3, QuietTInv

LEMMA RestTInv == ASSUME TInv, ClosePool \/ UNCHANGED vars PROVE TInv'
<1>1. /\ UNCHANGED <<collateral, stage, got, asked, tries, result, handler, reply, sending,
                     sent, gates, moves>>
      /\ isOpen' \in {FALSE, isOpen}
  BY DEF ClosePool, vars, readVars, clientVars, bridgeVars, envVars
<1>2. TypeOK'
  BY <1>1 DEF TInv, TypeOK
<1> QED
  BY <1>1, <1>2, QuietTInv

\* Every step keeps the inductive invariant.
THEOREM TInvInductive == ASSUME TInv, [Next]_vars PROVE TInv'
<1>1. CASE \E w \in Calls : Withdraw(w) \/ Looks(w) \/ Check(w)
  BY <1>1, WithdrawTInv, LooksTInv, CheckTInv
<1>2. CASE \E w \in Calls : ReplyArrives(w) \/ TransportError(w)
  BY <1>2, ReplyTInv, SettleTInv
<1>3. CASE \E r \in Reqs : BridgeReceive(r) \/ Broadcast(r) \/ SendEnds(r)
  BY <1>3, BridgeReceiveTInv, BroadcastTInv, SendEndsTInv
<1>4. CASE Move
  BY <1>4, MoveTInv
<1>5. CASE ClosePool \/ UNCHANGED vars
  BY <1>5, RestTInv
<1> QED
  BY <1>1, <1>2, <1>3, <1>4, <1>5 DEF Next

-----------------------------------------------------------------------------
(* The properties. *)

\* The inductive invariant holds in every reachable state.
THEOREM TreasuryInvariance == Spec => []TInv
BY InitTInv, TInvInductive, PTL DEF Spec

\* Types, with the one POST of a call.
THEOREM TreasuryTypeCorrect == Spec => []TypeOK
<1>1. TInv => TypeOK
  BY DEF TInv
<1> QED
  BY <1>1, TreasuryInvariance, PTL

LEMMA Covered == TInv => SentWasCovered
<1> SUFFICES ASSUME TInv, NEW r \in sent \cup sending
             PROVE  /\ gates.client /\ gates.bridge
                    /\ \E b \in got[r[1]] : Units(asked[r[1]].amount) <= b
  BY DEF SentWasCovered
<1>1. r \in Reqs
  BY DEF TInv, TypeOK
<1>2. r[1] \in Calls /\ r = Req(r[1])
  BY <1>1, OnePost
<1>3. TypeOK /\ Staged(r[1]) /\ Handled(r[1])
  BY <1>2 DEF TInv
<1>4. handler[r] # "none" /\ gates.bridge
  BY <1>2, <1>3 DEF Handled
<1>5. tries[r[1]] > 0
  BY <1>2, <1>3, <1>4, OnePost DEF Staged, TypeOK
<1>6. /\ gates.client /\ asked[r[1]] \in Asked
      /\ \E b \in got[r[1]] : asked[r[1]].amount <= b
  BY <1>3, <1>5 DEF Staged
<1>7. asked[r[1]].amount \in Nat
  BY <1>6, TreasuryAssumption DEF Asked
<1>8. got[r[1]] \subseteq Balances
  BY <1>2, <1>3 DEF TypeOK
<1> QED
  BY <1>4, <1>6, <1>7, <1>8, RoundingIsCovered

\* A withdrawal fails closed: what is sent was covered by a balance this call
\* has read, after rounding, and both switches were on.
THEOREM WithdrawalsAreCovered == Spec => []SentWasCovered
BY Covered, TreasuryInvariance, PTL

-----------------------------------------------------------------------------
(* The refinement of OrderCall. *)

\* What a step of one call, which sends no transfer, shows.
LEMMA OneView ==
    ASSUME NEW w \in Calls, sent' = sent,
           \A q \in Calls : q # w => tries'[q] = tries[q] /\ result'[q] = result[q]
    PROVE  /\ outcomeOf' = [outcomeOf EXCEPT ![w] = Outcome(w)']
           /\ effectsOf' = effectsOf
BY DEF outcomeOf, effectsOf, Outcome

\* No call is concerned.
LEMMA NoView ==
    ASSUME UNCHANGED <<tries, result, sent>>
    PROVE  UNCHANGED Abstract!vars
BY DEF outcomeOf, effectsOf, Outcome, Abstract!vars

\* The transfers of a call are those of its one POST.
LEMMA OneEffect ==
    ASSUME TInv, NEW w \in Calls
    PROVE  effectsOf[w] = sent \cap {Req(w)}
<1>1. \A r \in sent : r[1] = w <=> r = Req(w)
  BY OnePost DEF TInv, TypeOK, Req
<1> QED
  BY <1>1 DEF effectsOf

LEMMA InitRefines == Init => Abstract!Init
BY DEF Init, outcomeOf, effectsOf, Outcome, Abstract!Init

LEMMA WithdrawRefines ==
    ASSUME TInv, NEW w \in Calls, Withdraw(w)
    PROVE  [Abstract!Next]_(Abstract!vars)
<1>1. /\ TypeOK /\ stage[w] = "idle" /\ result[w] = NoResult /\ tries[w] = 0
      /\ UNCHANGED <<tries, sent>>
  BY DEF Withdraw, TInv, Staged, bridgeVars
<1>2. CASE result' = result
  BY <1>1, <1>2, NoView
<1>3. CASE Return(w, "local")
  <2>1. \A q \in Calls : q # w => tries'[q] = tries[q] /\ result'[q] = result[q]
    BY <1>1, <1>3 DEF Return, TypeOK
  <2>2. result'[w] = Res("local") /\ result'[w] # NoResult
    BY <1>1, <1>3, ResType DEF Return, TypeOK
  <2>3. Outcome(w) = "new" /\ Outcome(w)' = "refused"
    BY <1>1, <2>2, ResType DEF Outcome
  <2>4. /\ outcomeOf[w] = "new"
        /\ outcomeOf' = [outcomeOf EXCEPT ![w] = "refused"] /\ effectsOf' = effectsOf
    BY <1>1, <2>1, <2>3, OneView DEF outcomeOf
  <2> QED
    BY <2>4 DEF Abstract!RefuseLocally, Abstract!Next
<1> QED
  BY <1>2, <1>3 DEF Withdraw

LEMMA CheckRefines ==
    ASSUME TInv, NEW w \in Calls, Check(w)
    PROVE  Abstract!Next
<1>1. /\ TypeOK /\ stage[w] = "open" /\ result[w] = NoResult /\ tries[w] = 0 /\ sent' = sent
  BY DEF Check, Balance!Return, TInv, Staged
<1>2. Outcome(w) = "new" /\ outcomeOf[w] = "new"
  BY <1>1 DEF Outcome, outcomeOf
<1>3. CASE isOpen /\ \E b \in got'[w] : asked[w].amount <= b
  <2>1. tries' = [tries EXCEPT ![w] = tries[w] + 1] /\ result' = result
    BY <1>3 DEF Check, Post
  <2>2. tries'[w] = 1 /\ \A q \in Calls : q # w => tries'[q] = tries[q] /\ result'[q] = result[q]
    BY <1>1, <2>1 DEF TypeOK
  <2>3. Outcome(w)' = "pending"
    BY <1>1, <2>1, <2>2 DEF Outcome
  <2>4. outcomeOf' = [outcomeOf EXCEPT ![w] = "pending"] /\ effectsOf' = effectsOf
    BY <1>1, <2>2, <2>3, OneView
  <2> QED
    BY <1>2, <2>4 DEF Abstract!Begin, Abstract!Next
<1>4. CASE ~(isOpen /\ \E b \in got'[w] : asked[w].amount <= b)
  <2>1. PICK via \in {"local", "raised"} :
            result' = [result EXCEPT ![w] = Res(via)] /\ tries' = tries
    BY <1>4 DEF Check, Post, Return
  <2>2. result'[w] = Res(via)
    BY <1>1, <2>1 DEF TypeOK
  <2>3. Res(via) # NoResult /\ Res(via).ok = FALSE /\ Res(via).via = via
    BY ResType
  <2>4. Outcome(w)' = "refused"
    BY <2>1, <2>2, <2>3 DEF Outcome
  <2>5. \A q \in Calls : q # w => tries'[q] = tries[q] /\ result'[q] = result[q]
    BY <1>1, <2>1 DEF TypeOK
  <2>6. outcomeOf' = [outcomeOf EXCEPT ![w] = "refused"] /\ effectsOf' = effectsOf
    BY <1>1, <2>4, <2>5, OneView
  <2> QED
    BY <1>2, <2>6 DEF Abstract!RefuseLocally, Abstract!Next
<1> QED
  BY <1>3, <1>4

\* ok was sent, a 4xx never is, and nothing else is claimed.
LEMMA ReplyRefines ==
    ASSUME TInv, NEW w \in Calls, ReplyArrives(w) \/ TransportError(w)
    PROVE  Abstract!Next
<1>1. PICK via \in {"transport", "200", "4xx", "5xx"} :
          Settle(w, via) /\ (via \in {"200", "4xx"} => reply[Req(w)] = via)
  BY ReplyTInv
<1>2. /\ TypeOK /\ Handled(w) /\ tries[w] > 0 /\ result[w] = NoResult
      /\ result' = [result EXCEPT ![w] = Res(via)]
  BY <1>1, SettleTInv DEF TInv
<1>3. tries[w] = 1 /\ UNCHANGED <<tries, sent>>
  BY <1>1, <1>2, OnePost, NeverRetries DEF Settle, TypeOK
<1> DEFINE o == IF via = "200" THEN "done"
                ELSE IF via \in {"transport", "5xx"} THEN "unknown" ELSE "refused"
<1>4. result'[w] = Res(via) /\ Res(via) # NoResult /\ Res(via).via = via /\ Res(via).ok = (via = "200")
  BY <1>2, ResType DEF TypeOK
<1>5. Outcome(w) = "pending" /\ Outcome(w)' = o /\ outcomeOf[w] = "pending"
  <2>1. Outcome(w) = "pending"
    BY <1>2, <1>3 DEF Outcome
  <2>2. Outcome(w)' = o
    BY <1>4 DEF Outcome
  <2> QED
    BY <2>1, <2>2 DEF outcomeOf
<1>6. \A q \in Calls : q # w => tries'[q] = tries[q] /\ result'[q] = result[q]
  BY <1>2, <1>3 DEF TypeOK
<1>7. outcomeOf' = [outcomeOf EXCEPT ![w] = o] /\ effectsOf' = effectsOf
  BY <1>3, <1>5, <1>6, OneView
<1>8. /\ o = "done" => effectsOf[w] # {}
      /\ o = "refused" => effectsOf[w] = {}
  BY <1>1, <1>2, OneEffect DEF Handled
<1>9. Abstract!Return(w, o) /\ o \in {"done", "refused", "unknown"}
  BY <1>5, <1>7, <1>8 DEF Abstract!Return
<1> QED
  BY <1>9 DEF Abstract!Next

\* The transfer takes effect once, and only where the client does not deny it.
LEMMA BroadcastRefines ==
    ASSUME TInv, NEW r \in Reqs, Broadcast(r)
    PROVE  Abstract!Next
<1> DEFINE w == r[1]
<1>1. /\ TypeOK /\ w \in Calls /\ r = Req(w) /\ r \in sending
      /\ Staged(w) /\ Handled(w) /\ Origin(w) /\ tries[w] = 1
  BY BridgeParts DEF Broadcast
<1>2. UNCHANGED <<tries, result>> /\ sent' = sent \cup {r}
  BY DEF Broadcast, clientVars
<1>3. r \notin sent /\ reply[r] # "200" /\ reply[r] # "4xx"
  BY <1>1 DEF Handled
<1>4. Outcome(w) \in {"pending", "unknown"}
  <2>1. CASE result[w] = NoResult
    BY <1>1, <2>1 DEF Outcome
  <2>2. CASE result[w] # NoResult
    <3>1. result[w] \in Results /\ result[w] = Res(result[w].via)
      BY <1>1, <2>2 DEF Origin, TypeOK
    <3>2. result[w].via \in {"transport", "5xx"}
      BY <1>1, <1>3, <3>1 DEF Origin, Results
    <3>3. result[w].ok = FALSE
      <4>1. PICK via \in {"transport", "5xx"} : result[w] = Res(via)
        BY <3>1, <3>2
      <4> QED
        BY <4>1, ResType
    <3> QED
      BY <2>2, <3>2, <3>3 DEF Outcome
  <2> QED
    BY <2>1, <2>2
<1>5. outcomeOf' = outcomeOf /\ outcomeOf[w] = Outcome(w)
  BY <1>1, <1>2 DEF outcomeOf, Outcome
<1>6. effectsOf[w] = {}
  BY <1>1, <1>3, OneEffect
<1>7. effectsOf' = [effectsOf EXCEPT ![w] = {r}]
  <2>1. \A q \in Calls : q # w => {e \in sent' : e[1] = q} = {e \in sent : e[1] = q}
    BY <1>2
  <2>2. {e \in sent' : e[1] = w} = {r}
    BY <1>1, <1>2, <1>6 DEF effectsOf
  <2> QED
    BY <2>1, <2>2 DEF effectsOf
<1> QED
  BY <1>1, <1>4, <1>5, <1>6, <1>7 DEF Abstract!TakeEffect, Abstract!Next

\* Every step is a step of OrderCall or none.
LEMMA StepRefines ==
    ASSUME TInv, [Next]_vars
    PROVE  [Abstract!Next]_(Abstract!vars)
<1>1. CASE \E w \in Calls : Withdraw(w)
  BY <1>1, WithdrawRefines
<1>2. CASE \E w \in Calls : Check(w)
  BY <1>2, CheckRefines
<1>3. CASE \E w \in Calls : ReplyArrives(w) \/ TransportError(w)
  BY <1>3, ReplyRefines
<1>4. CASE \E r \in Reqs : Broadcast(r)
  BY <1>4, BroadcastRefines
<1>5. CASE \/ \E w \in Calls : Looks(w)
           \/ \E r \in Reqs : BridgeReceive(r) \/ SendEnds(r)
           \/ Move \/ ClosePool \/ UNCHANGED vars
  <2>1. UNCHANGED <<tries, result, sent>>
    BY <1>5 DEF Looks, BridgeReceive, SendEnds, Move, ClosePool, vars, clientVars, bridgeVars
  <2> QED
    BY <2>1, NoView
<1> QED
  BY <1>1, <1>2, <1>3, <1>4, <1>5 DEF Next

\* A withdrawal keeps the promise of an order call: at most one transfer, and
\* what the caller is told of it is true now and later.
THEOREM TreasuryRefinement == Spec => ImplementsOrderCall
BY InitRefines, StepRefines, TreasuryInvariance, PTL DEF Spec, ImplementsOrderCall, Abstract!Spec
=============================================================================

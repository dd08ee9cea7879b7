------------------------------- MODULE Treasury -------------------------------
(***************************************************************************)
(* Withdrawals: PolyTrader.withdraw (polytrader/client.py), the single     *)
(* POST of BridgeClient.withdraw, the handler of /withdraw in              *)
(* bridge/index.mjs and the transfer it sends.  Calls run concurrently; a  *)
(* message that is never read stands for a lost one; the pool may be       *)
(* closed, and the balance may move, at any moment.                        *)
(*                                                                         *)
(* The balance read is not repeated here: it is an AtomicRead, which       *)
(* ReadPath implements.  Amounts count half units of the token (0.5e-6     *)
(* USDC), so that an odd amount stands for one with more decimals than the *)
(* token has; balances are whole units, hence even.                        *)
(***************************************************************************)
EXTENDS Integers, HttpRetry

CONSTANTS Calls,      \* the withdrawals, each made once
          MaxAmount,  \* amounts tried are -1..MaxAmount, balances up to that
          MaxMoves    \* bound on the changes of the balance by others

ASSUME TreasuryAssumption == MaxAmount \in Nat /\ MaxMoves \in Nat

VARIABLES collateral,  \* what /balance reads: the collateral of the funder
          stage, got,  \* [Calls -> the balance read], as in AtomicRead
          asked,       \* [Calls -> amount and address, once accepted]
          tries,       \* [Calls -> POSTs sent]
          result,      \* [Calls -> the WithdrawResult]
          handler,     \* [Reqs -> the bridge's handler of that POST]
          reply,       \* [Reqs -> its HTTP status]
          sending,     \* transfers handed to the RPC node, not yet broadcast
          sent,        \* transfers broadcast; they leave the EOA, not the funder
          isOpen,      \* is the client's pool open?
          gates,       \* config.allow_withdraw, BRIDGE_ALLOW_WITHDRAW
          moves

readVars   == <<collateral, stage, got>>
clientVars == <<asked, tries, result>>
bridgeVars == <<handler, reply, sending, sent>>
envVars    == <<isOpen, gates, moves>>
vars == <<readVars, clientVars, bridgeVars, envVars>>

\* Mutation: a withdrawal is retried like a read.
PostRetriesOfReads == 1

\* max_retries of _post_order.
PostRetries == 0

Tries    == 1..Attempts(PostRetries)
Reqs     == Calls \X Tries
Balances == {b \in 0..MaxAmount : b % 2 = 0}

\* parseUnits: the whole number of units nearest to an amount, in half units.
Units(amount) == 2 * ((amount + 1) \div 2)

\* Addresses: "bad" fails _is_valid_address; "odd" passes it and fails isAddress
\* (a wrong checksum, or the underscores that int() takes); "good" passes both.
Addresses == {"bad", "odd", "good"}
Asked   == [amount : 1..MaxAmount, to : Addresses \ {"bad"}]
Nothing == [amount |-> 0, to |-> "bad"]

Results  == [ok : BOOLEAN, via : {"local", "raised", "transport", "200", "4xx", "5xx"}]
NoResult == [ok |-> FALSE, via |-> "none"]
Res(via) == [ok |-> via = "200", via |-> via]

Balance == INSTANCE AtomicRead WITH
               Reads <- Calls, Values <- Balances, truth <- collateral

Init ==
    /\ Balance!Init
    /\ asked   = [w \in Calls |-> Nothing]
    /\ tries   = [w \in Calls |-> 0]
    /\ result  = [w \in Calls |-> NoResult]
    /\ handler = [r \in Reqs |-> "none"]
    /\ reply   = [r \in Reqs |-> "none"]
    /\ sending = {}
    /\ sent    = {}
    /\ isOpen  = TRUE
    /\ gates \in [client : BOOLEAN, bridge : BOOLEAN]
    /\ moves   = 0

-----------------------------------------------------------------------------
(* The client. *)

Return(w, via) == result' = [result EXCEPT ![w] = Res(via)]

\* withdraw, up to its first await: refused, or the balance read begins.
Withdraw(w) ==
    /\ stage[w] = "idle" /\ result[w] = NoResult
    /\ \E amount \in -1..MaxAmount, to \in Addresses :
           IF gates.client /\ to # "bad" /\ amount > 0
           THEN /\ Balance!Begin(w)
                /\ asked' = [asked EXCEPT ![w] = [amount |-> amount, to |-> to]]
                /\ UNCHANGED result
           ELSE Return(w, "local") /\ UNCHANGED <<readVars, asked>>
    /\ UNCHANGED <<tries, bridgeVars, envVars>>

\* The balance read looks at the venue, or loses what it saw.
Looks(w) ==
    /\ Balance!Look(w) \/ Balance!Forget(w)
    /\ UNCHANGED <<clientVars, bridgeVars, envVars>>

\* _post_order: send the next POST of w; a closed pool raises.
Post(w) ==
    IF isOpen
    THEN /\ tries' = [tries EXCEPT ![w] = @ + 1]
         /\ handler' = [handler EXCEPT ![<<w, tries[w] + 1>>] = "wire"]
         /\ UNCHANGED result
    ELSE Return(w, "raised") /\ UNCHANGED <<tries, handler>>

\* Mutation: a balance that could not be read does not stop the withdrawal.
CheckFailsOpen(w) ==
    /\ Balance!Return(w)
    /\ IF \A b \in got'[w] : asked[w].amount <= b
       THEN Post(w)
       ELSE Return(w, "local") /\ UNCHANGED <<tries, handler>>
    /\ UNCHANGED <<asked, reply, sending, sent, envVars>>

\* The balance read returns: refuse if it failed or is short, else post.
Check(w) ==
    /\ Balance!Return(w)
    /\ IF \E b \in got'[w] : asked[w].amount <= b
       THEN Post(w)
       ELSE Return(w, "local") /\ UNCHANGED <<tries, handler>>
    /\ UNCHANGED <<asked, reply, sending, sent, envVars>>

Waiting(w) == tries[w] > 0 /\ result[w] = NoResult

\* request_with_retry, then the WithdrawResult.
Settle(w, via) ==
    /\ Waiting(w)
    /\ IF Retries(via, tries[w] - 1, Attempts(PostRetries))
       THEN Post(w)
       ELSE Return(w, via) /\ UNCHANGED <<tries, handler>>
    /\ UNCHANGED <<readVars, asked, reply, sending, sent, envVars>>

ReplyArrives(w) ==
    /\ Waiting(w)
    /\ reply[<<w, tries[w]>>] # "none"
    /\ Settle(w, reply[<<w, tries[w]>>])

\* Mutation: the pool's timeout does not cover a withdrawal.
NoTimeout(w) == ~isOpen /\ Settle(w, "transport")

TransportError(w) == Settle(w, "transport")

-----------------------------------------------------------------------------
(* The bridge. *)

Respond(r, code) ==
    /\ handler' = [handler EXCEPT ![r] = "closed"]
    /\ reply' = [reply EXCEPT ![r] = code]

\* The checks of /withdraw, then sendTransaction.
BridgeReceive(r) ==
    /\ handler[r] = "wire"
    /\ IF gates.bridge /\ asked[r[1]].to = "good"
       THEN /\ handler' = [handler EXCEPT ![r] = "sending"]
            /\ sending' = sending \cup {r}
            /\ UNCHANGED reply
       ELSE Respond(r, "4xx") /\ UNCHANGED sending
    /\ UNCHANGED <<readVars, clientVars, sent, envVars>>

\* The transfer is broadcast, be the handler still waiting or not.
Broadcast(r) ==
    /\ r \in sending
    /\ sending' = sending \ {r}
    /\ sent' = sent \cup {r}
    /\ UNCHANGED <<readVars, clientVars, handler, reply, envVars>>

\* Mutation: a transfer that could not be confirmed is answered as refused.
SendFailsAs4xx(r) ==
    /\ handler[r] = "sending"
    /\ Respond(r, IF r \in sent THEN "200" ELSE "4xx")
    /\ UNCHANGED <<readVars, clientVars, sending, sent, envVars>>

\* sendTransaction returns the hash of a transfer it broadcast, or throws:
\* before the broadcast, after it, or leaving it to happen later.
SendEnds(r) ==
    /\ handler[r] = "sending"
    /\ \/ r \in sent /\ Respond(r, "200") /\ UNCHANGED sending
       \/ Respond(r, "5xx") /\ sending' \in {sending, sending \ {r}}
    /\ UNCHANGED <<readVars, clientVars, sent, envVars>>

-----------------------------------------------------------------------------
(* Everybody else. *)

\* Trades and deposits move the collateral.
Move ==
    /\ moves < MaxMoves
    /\ Balance!Change
    /\ moves' = moves + 1
    /\ UNCHANGED <<clientVars, bridgeVars, isOpen, gates>>

ClosePool ==
    /\ isOpen
    /\ isOpen' = FALSE
    /\ UNCHANGED <<readVars, clientVars, bridgeVars, gates, moves>>

ClientStep(w) == Check(w) \/ ReplyArrives(w) \/ TransportError(w)

Next ==
    \/ \E w \in Calls : Withdraw(w) \/ Looks(w) \/ Check(w)
                        \/ ReplyArrives(w) \/ TransportError(w)
    \/ \E r \in Reqs : BridgeReceive(r) \/ Broadcast(r) \/ SendEnds(r)
    \/ Move
    \/ ClosePool

Spec == Init /\ [][Next]_vars

\* Reads return (ReadPath!ReadsReturn) and requests time out.
FairSpec == Spec /\ \A w \in Calls : WF_vars(ClientStep(w))

-----------------------------------------------------------------------------
(* Properties. *)

TypeOK ==
    /\ collateral \in Balances
    /\ stage \in [Calls -> {"idle", "open", "returned"}]
    /\ got \in [Calls -> SUBSET Balances]
    /\ asked \in [Calls -> Asked \cup {Nothing}]
    /\ tries \in [Calls -> {0} \cup Tries]
    /\ result \in [Calls -> Results \cup {NoResult}]
    /\ handler \in [Reqs -> {"none", "wire", "sending", "closed"}]
    /\ reply \in [Reqs -> {"none", "200", "4xx", "5xx"}]
    /\ sending \subseteq Reqs /\ sent \subseteq Reqs
    /\ isOpen \in BOOLEAN /\ moves \in 0..MaxMoves
    /\ gates \in [client : BOOLEAN, bridge : BOOLEAN]

\* A transfer, once rounded to the units of the token, is within a balance
\* that this call read, and both switches were on: the withdrawal fails closed
\* (client.py:377-398) whatever was lost, late or concurrent.
SentWasCovered ==
    \A r \in sent \cup sending :
        /\ gates.client /\ gates.bridge
        /\ \E b \in got[r[1]] : Units(asked[r[1]].amount) <= b

\* Refinement: what withdraw promises is what an order call promises.  ok means
\* the transfer was sent; a refusal, by the client or by a 4xx, means it was
\* not and never will be; a transport error or a 5xx settles nothing.  At most
\* one transfer is sent for a call.
Outcome(w) ==
    IF result[w] = NoResult THEN IF tries[w] = 0 THEN "new" ELSE "pending"
    ELSE IF result[w].ok THEN "done"
    ELSE IF result[w].via \in {"transport", "5xx"} THEN "unknown" ELSE "refused"

outcomeOf == [w \in Calls |-> Outcome(w)]
effectsOf == [w \in Calls |-> {r \in sent : r[1] = w}]

Abstract == INSTANCE OrderCall WITH
                Effects <- Reqs, outcome <- outcomeOf, effects <- effectsOf

ImplementsOrderCall == Abstract!Spec

\* Every withdrawal returns, even when nobody answers.
WithdrawalsReturn ==
    \A w \in Calls : (stage[w] = "open") ~> (result[w] # NoResult)
=============================================================================

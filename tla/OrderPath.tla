------------------------------ MODULE OrderPath ------------------------------
(***************************************************************************)
(* The path of an order: a call of PolyTrader.place_market_order,          *)
(* place_limit_order or cancel_order (polytrader/client.py), the single    *)
(* POST of BridgeClient._post_order (polytrader/bridge_client.py), the     *)
(* handler of the Node bridge with its resubmissions on a 401              *)
(* (bridge/index.mjs), the venue (CLOB), and the way back to an            *)
(* OrderResult.  Calls run concurrently; any message may be delayed or     *)
(* lost; the client may give up while the bridge is still working; the     *)
(* bridge process may crash and be started again.                          *)
(*                                                                         *)
(* A step of the bridge is one turn of its event loop: everything a        *)
(* handler does between two awaits.  A message that is never read stands   *)
(* for a lost one.                                                         *)
(***************************************************************************)
EXTENDS Integers, HttpRetry

CONSTANTS Calls,      \* the order calls, each made once
          MinBuy,     \* config.min_marketable_buy_usd, in any unit; 0 disables it
          MaxAmount,  \* amounts tried are -1..MaxAmount
          MaxCrashes  \* bound on the crashes of the bridge

ASSUME OrderPathAssumption ==
    MinBuy \in Nat /\ MaxAmount \in Nat /\ MaxCrashes \in Nat

VARIABLES order,    \* [Calls -> what was posted]
          try,      \* [Calls -> number of POSTs sent so far]
          result,   \* [Calls -> the OrderResult returned]
          wire,     \* POSTs the bridge has not read yet
          handler,  \* [Reqs -> state of the bridge's handler of that POST]
          attempt,  \* [Reqs -> loop counter of submitWithAuthRetry]
          reply,    \* [Reqs -> the bridge's HTTP response]
          transit,  \* submissions on their way to the venue
          answer,   \* [Subs -> the venue's answer]
          up,       \* is the bridge process running?
          crashes

clientVars == <<order, try, result>>
bridgeVars == <<handler, attempt, reply>>
venueVars  == <<transit, answer>>
procVars   == <<up, crashes>>
vars == <<clientVars, wire, bridgeVars, venueVars, procVars>>

-----------------------------------------------------------------------------
(* Identities and data. *)

\* Mutation: an order POST gets the retries of a read.
PostRetriesOfReads == 3

\* max_retries of an order POST: an order write is never retried.
PostRetries == 0

\* submitWithAuthRetry submits at most this many times.
MaxSubmits == 3

Tries == 1..Attempts(PostRetries)
Reqs  == Calls \X Tries
Subs  == Reqs \X (0..MaxSubmits - 1)

CallOf(s) == s[1][1]

(***************************************************************************)
(* What is posted: an order, to one of the two order handlers, which treat *)
(* it alike, or a cancel.  Its body is, as far as the bridge tells bodies  *)
(* apart, "valid"; "missing", without a required field (an empty token id, *)
(* an empty order type) or over the body limit; or "badType", which names  *)
(* no known order type.                                                    *)
(***************************************************************************)
Orders  == [op : {"order", "cancel"}, body : {"valid", "missing", "badType"}]
NoOrder == [op |-> "none", body |-> "none"]

(***************************************************************************)
(* An answer of the venue through its SDK: did the order take effect, and  *)
(* what does submitFn hand back?  "matched" is a success body that names a *)
(* status (matched, live), "bare" a body without status, error or verdict  *)
(* (what a cancel gets, whether or not the order could be cancelled),      *)
(* "unsuccess" a body with success: false and a message, "error" a body    *)
(* with an error and no status; the others are HTTP statuses, returned or  *)
(* thrown.  A server error says nothing about the order; no other error is *)
(* given for an order that was taken.                                      *)
(***************************************************************************)
VenueAnswers ==
    [took : {TRUE},  reply : {"matched", "bare", "5xx"}]
    \cup
    [took : {FALSE}, reply : {"bare", "unsuccess", "error", "4xx", "401", "429", "5xx"}]
NoAnswer == [took |-> FALSE, reply |-> "none"]

Bodies  == {"matched", "bare", "unsuccess", "error"}
Replies == [code : Codes, body : Bodies]
NoReply == [code |-> "none", body |-> "none"]

Results == [ok : BOOLEAN,
            status : {"raised", "error", "rejected", "matched", "ok"},
            via : {"local", "transport"} \cup Codes]
NoResult   == [ok |-> FALSE, status |-> "none",   via |-> "none"]
Raised     == [ok |-> FALSE, status |-> "raised", via |-> "local"]
LocalError == [ok |-> FALSE, status |-> "error",  via |-> "local"]

\* Mutation: every failure is responded as a 4xx.
EveryFailureIs4xx(op, said) ==
    IF said = "matched" THEN [code |-> "200", body |-> said]
    ELSE [code |-> "4xx", body |-> "error"]

(***************************************************************************)
(* The bridge's response to what submitWithAuthRetry said.  An error in a  *)
(* body without an HTTP status is passed on inside a 200 by the two order  *)
(* handlers and turned into a 502 by the cancel handler.  "thrown" is an   *)
(* exception that carries no response.                                     *)
(***************************************************************************)
HttpReply(op, said) ==
    IF said \in {"matched", "bare"} \/ (said \in {"unsuccess", "error"} /\ op # "cancel")
    THEN [code |-> "200", body |-> said]
    ELSE [code |-> IF said \in {"4xx", "401"} THEN "4xx"
                   ELSE IF said = "429" THEN "429" ELSE "5xx",
          body |-> "error"]

\* Mutation: the status of a 200 defaults to matched.
MatchedByDefault(code, body) ==
    IF code = "200" THEN [ok |-> TRUE, status |-> "matched", via |-> code]
    ELSE [ok |-> FALSE, status |-> "rejected", via |-> code]

\* _post_order followed by _to_order_result: only an HTTP error or a transport
\* error makes ok false; the status of a 200 is read from its body.
ToOrderResult(code, body) ==
    IF code = "200"
    THEN [ok |-> TRUE,
          status |-> IF body = "matched" THEN "matched"
                     ELSE IF body = "unsuccess" THEN "rejected" ELSE "ok",
          via |-> code]
    ELSE [ok |-> FALSE, status |-> "rejected", via |-> code]

-----------------------------------------------------------------------------
(* The client. *)

Init ==
    /\ order   = [c \in Calls |-> NoOrder]
    /\ try     = [c \in Calls |-> 0]
    /\ result  = [c \in Calls |-> NoResult]
    /\ wire    = {}
    /\ handler = [r \in Reqs |-> "none"]
    /\ attempt = [r \in Reqs |-> 0]
    /\ reply   = [r \in Reqs |-> NoReply]
    /\ transit = {}
    /\ answer  = [s \in Subs |-> NoAnswer]
    /\ up      = TRUE
    /\ crashes = 0

Idle(c)    == order[c] = NoOrder /\ result[c] = NoResult
Waiting(c) == order[c] # NoOrder /\ result[c] = NoResult

\* The call ends before anything is sent.
EndLocally(c, res) ==
    /\ Idle(c)
    /\ result' = [result EXCEPT ![c] = res]
    /\ UNCHANGED <<order, try, wire, bridgeVars, venueVars, procVars>>

\* client.post: the request reaches a running bridge or nobody.
Send(r) == wire' = IF up THEN wire \cup {r} ELSE wire

Post(c, o) ==
    /\ Idle(c)
    /\ order' = [order EXCEPT ![c] = o]
    /\ try' = [try EXCEPT ![c] = 1]
    /\ Send(<<c, 1>>)
    /\ UNCHANGED <<result, bridgeVars, venueVars, procVars>>

\* place_market_order; an order type the caller leaves out is defaulted, so
\* only the token id can be empty.
PlaceMarketOrder(c) ==
    \E side \in {"BUY", "SELL", "HOLD"}, amount \in -1..MaxAmount :
        LET bad      == side = "HOLD" \/ amount <= 0
            belowMin == side = "BUY" /\ MinBuy > 0 /\ amount < MinBuy
        IN  \/ bad /\ EndLocally(c, Raised)
            \/ ~bad /\ belowMin /\ EndLocally(c, LocalError)
            \/ /\ ~bad /\ ~belowMin
               /\ \E body \in {"valid", "missing", "badType"} :
                      Post(c, [op |-> "order", body |-> body])

\* place_limit_order; "fits" says that shares_for_clean_maker found a size.
PlaceLimitOrder(c) ==
    \E side \in {"BUY", "SELL", "HOLD"}, positive, fits \in BOOLEAN :
        LET bad   == side = "HOLD" \/ ~positive
            noFit == side = "BUY" /\ ~fits
        IN  \/ bad /\ EndLocally(c, Raised)
            \/ ~bad /\ noFit /\ EndLocally(c, LocalError)
            \/ /\ ~bad /\ ~noFit
               /\ \E body \in {"valid", "missing", "badType"} :
                      Post(c, [op |-> "order", body |-> body])

\* cancel_order; a non-empty order id leaves only the body limit to fail.
CancelOrder(c) ==
    \/ EndLocally(c, Raised)
    \/ \E body \in {"valid", "missing"} : Post(c, [op |-> "cancel", body |-> body])

\* request_with_retry, then _post_order and _to_order_result, on the outcome
\* of the current POST of c.
Settle(c, code, body) ==
    /\ IF Retries(code, try[c] - 1, Attempts(PostRetries))
       THEN /\ try' = [try EXCEPT ![c] = @ + 1]
            /\ Send(<<c, try[c] + 1>>)
            /\ UNCHANGED result
       ELSE /\ result' = [result EXCEPT ![c] = ToOrderResult(code, body)]
            /\ UNCHANGED <<try, wire>>
    /\ UNCHANGED <<order, bridgeVars, venueVars, procVars>>

ReplyArrives(c) ==
    /\ Waiting(c)
    /\ reply[<<c, try[c]>>] # NoReply
    /\ Settle(c, reply[<<c, try[c]>>].code, reply[<<c, try[c]>>].body)

\* Mutation: no timeout; only a bridge that is down breaks the connection.
TransportErrorWithoutTimeout(c) ==
    /\ Waiting(c) /\ ~up
    /\ Settle(c, "transport", "error")

\* A timeout, a refused or a broken connection: possible at any time while
\* the client waits, whatever the bridge has done with the request.
TransportError(c) ==
    /\ Waiting(c)
    /\ Settle(c, "transport", "error")

-----------------------------------------------------------------------------
(* The bridge. *)

\* The handler of r submits to the venue with loop counter k.
Submit(r, k) ==
    /\ attempt' = [attempt EXCEPT ![r] = k]
    /\ transit' = transit \cup {<<r, k>>}

\* The handler of r responds and is done.
Respond(r, rep) ==
    /\ handler' = [handler EXCEPT ![r] = "closed"]
    /\ reply' = [reply EXCEPT ![r] = rep]
    /\ UNCHANGED <<attempt, transit>>

BridgeReceive(r) ==
    /\ up /\ r \in wire
    /\ wire' = wire \ {r}
    /\ \/ /\ order[r[1]].body = "missing"
          /\ Respond(r, HttpReply(order[r[1]].op, "4xx"))
       \/ /\ order[r[1]].body = "badType"
          /\ Respond(r, HttpReply(order[r[1]].op, "thrown"))
       \/ /\ order[r[1]].body = "valid"
          /\ handler' = [handler EXCEPT ![r] = "submitting"]
          /\ Submit(r, 0)
          /\ UNCHANGED reply
    /\ UNCHANGED <<clientVars, answer, procVars>>

\* submitFn of the current attempt came back with a 401 (returned or thrown).
Got401(r) ==
    /\ handler[r] = "submitting"
    /\ answer[<<r, attempt[r]>>].reply = "401"

\* Mutation: every 401 is followed by another submission.
RetryEvery401(r) ==
    /\ Got401(r)
    /\ Submit(r, attempt[r] + 1)
    /\ UNCHANGED <<clientVars, wire, handler, reply, answer, procVars>>

\* The first 401: submit again with the same credentials.
RetrySameCreds(r) ==
    /\ Got401(r) /\ attempt[r] = 0
    /\ Submit(r, 1)
    /\ UNCHANGED <<clientVars, wire, handler, reply, answer, procVars>>

\* Mutation: the key is re-derived on the first 401 already.
StartRefreshAtOnce(r) ==
    /\ Got401(r) /\ attempt[r] < MaxSubmits - 1
    /\ handler' = [handler EXCEPT ![r] = "refreshing"]
    /\ UNCHANGED <<clientVars, wire, attempt, reply, venueVars, procVars>>

\* The second 401: await refreshCreds().
StartRefresh(r) ==
    /\ Got401(r) /\ attempt[r] = 1
    /\ handler' = [handler EXCEPT ![r] = "refreshing"]
    /\ UNCHANGED <<clientVars, wire, attempt, reply, venueVars, procVars>>

RefreshSucceeds(r) ==
    /\ handler[r] = "refreshing"
    /\ handler' = [handler EXCEPT ![r] = "submitting"]
    /\ Submit(r, 2)
    /\ UNCHANGED <<clientVars, wire, reply, answer, procVars>>

\* refreshCreds threw: the original 401 is surfaced.
RefreshFails(r) ==
    /\ handler[r] = "refreshing"
    /\ Respond(r, HttpReply(order[r[1]].op, "401"))
    /\ UNCHANGED <<clientVars, wire, answer, procVars>>

\* The loop ends: any answer but a 401, or the 401 of the last submission.
SubmitReturns(r) ==
    LET said == answer[<<r, attempt[r]>>].reply
    IN  /\ handler[r] = "submitting"
        /\ said # "none"
        /\ said = "401" => attempt[r] = MaxSubmits - 1
        /\ Respond(r, HttpReply(order[r[1]].op, said))
        /\ UNCHANGED <<clientVars, wire, answer, procVars>>

\* Mutation: a submission that throws is repeated.
SubmitBreaksResubmits(r) ==
    /\ handler[r] = "submitting" /\ attempt[r] < MaxSubmits - 1
    /\ Submit(r, attempt[r] + 1)
    /\ UNCHANGED <<clientVars, wire, handler, reply, answer, procVars>>

\* The SDK loses the venue: it throws without a response or returns a body with
\* an error.  The submission itself may still be on its way.
SubmitBreaks(r) ==
    /\ handler[r] = "submitting"
    /\ \E said \in {"thrown", "error"} : Respond(r, HttpReply(order[r[1]].op, said))
    /\ UNCHANGED <<clientVars, wire, answer, procVars>>

\* The process dies: handlers and unread requests are gone, responses already
\* written and submissions already sent are not.
Crash ==
    /\ up /\ crashes < MaxCrashes
    /\ up' = FALSE
    /\ crashes' = crashes + 1
    /\ wire' = {}
    /\ handler' = [r \in Reqs |->
                     IF handler[r] = "none" THEN "none" ELSE "closed"]
    /\ UNCHANGED <<clientVars, attempt, reply, venueVars>>

Restart ==
    /\ ~up
    /\ up' = TRUE
    /\ UNCHANGED <<clientVars, wire, bridgeVars, venueVars, crashes>>

-----------------------------------------------------------------------------
(* The venue: one answer to each submission, some time after it was sent. *)

VenueAnswersTo(s) ==
    /\ s \in transit
    /\ transit' = transit \ {s}
    /\ \E a \in VenueAnswers : answer' = [answer EXCEPT ![s] = a]
    /\ UNCHANGED <<clientVars, wire, bridgeVars, procVars>>

-----------------------------------------------------------------------------
BeginCall(c) == PlaceMarketOrder(c) \/ PlaceLimitOrder(c) \/ CancelOrder(c)

EndCall(c) == ReplyArrives(c) \/ TransportError(c)

BridgeStep(r) ==
    \/ BridgeReceive(r)
    \/ RetrySameCreds(r)
    \/ StartRefresh(r)
    \/ RefreshSucceeds(r)
    \/ RefreshFails(r)
    \/ SubmitReturns(r)
    \/ SubmitBreaks(r)

\* Everything that happens without a new call.
Progress ==
    \/ \E c \in Calls : EndCall(c)
    \/ \E r \in Reqs : BridgeStep(r)
    \/ \E s \in Subs : VenueAnswersTo(s)
    \/ Crash
    \/ Restart

Next == (\E c \in Calls : BeginCall(c)) \/ Progress

Spec == Init /\ [][Next]_vars

(***************************************************************************)
(* Every httpx call of the client has a timeout, so a waiting call is      *)
(* settled in the end.  Nothing is assumed of the bridge or the venue.     *)
(***************************************************************************)
Fairness == \A c \in Calls : WF_vars(EndCall(c))

-----------------------------------------------------------------------------
(* Properties. *)

TypeOK ==
    /\ order   \in [Calls -> Orders \cup {NoOrder}]
    /\ try     \in [Calls -> 0..Attempts(PostRetries)]
    /\ result  \in [Calls -> Results \cup {NoResult}]
    /\ wire    \in SUBSET Reqs
    /\ handler \in [Reqs -> {"none", "submitting", "refreshing", "closed"}]
    /\ attempt \in [Reqs -> 0..MaxSubmits - 1]
    /\ reply   \in [Reqs -> Replies \cup {NoReply}]
    /\ transit \in SUBSET Subs
    /\ answer  \in [Subs -> VenueAnswers \cup {NoAnswer}]
    /\ up      \in BOOLEAN
    /\ crashes \in Nat

\* The submissions of a call that took effect at the venue.
EffectsOf(c) == {s \in Subs : CallOf(s) = c /\ answer[s].took}

\* What the caller can conclude from an OrderResult and its HTTP status.
Outcome(c) ==
    LET res == result[c]
    IN  IF res = NoResult THEN IF order[c] = NoOrder THEN "new" ELSE "pending"
        ELSE IF res.status = "matched" THEN "done"
        ELSE IF res.via \in {"local", "4xx", "429"} \/ (res.ok /\ res.status = "rejected")
             THEN "refused"
        ELSE "unknown"

(***************************************************************************)
(* "Orders never auto-retry ... a retry after a lost response could        *)
(* double-fill" (README): whatever is lost, delayed or crashed, and        *)
(* although the bridge submits up to three times, the order of one call    *)
(* takes effect at most once.                                              *)
(***************************************************************************)
AtMostOnce == \A c \in Calls : \A s, t \in EffectsOf(c) : s = t

(***************************************************************************)
(* A definite refusal is final: when the result is a local error, an HTTP  *)
(* 4xx or a refusal in a 200 body, the order has not taken effect and no   *)
(* submission of it is left that could still do so.                        *)
(***************************************************************************)
RefusedMeansNoEffect ==
    \A c \in Calls : Outcome(c) = "refused" =>
        /\ EffectsOf(c) = {}
        /\ \A s \in transit : CallOf(s) # c

\* A result that reports a match was earned: the venue did take the order.
MatchedMeansEffect ==
    \A c \in Calls : Outcome(c) = "done" => EffectsOf(c) # {}

(***************************************************************************)
(* "we first retry with the same creds; only if that still 401s do we      *)
(* re-derive the key" (bridge/index.mjs): the API key is re-derived for an *)
(* order only after two submissions of that order were answered 401.       *)
(***************************************************************************)
RefreshAfterTwo401s ==
    \A r \in Reqs : handler[r] = "refreshing" =>
        \A k \in {0, 1} : answer[<<r, k>>].reply = "401"

(***************************************************************************)
(* The path implements the abstract order call.                            *)
(***************************************************************************)
Abstract == INSTANCE OrderCall WITH
                Effects <- Subs,
                outcome <- [c \in Calls |-> Outcome(c)],
                effects <- [c \in Calls |-> EffectsOf(c)]

ImplementsOrderCall == Abstract!Spec

\* Where the handler of r is in the loop of submitWithAuthRetry.
LoopStage(r) ==
    CASE handler[r] = "submitting" ->
             <<attempt[r] + 1,
               IF answer[<<r, attempt[r]>>].reply = "401" THEN "401" ELSE "sent">>
      [] handler[r] = "refreshing" -> <<2, "refreshing">>
      [] OTHER -> <<0, "idle">>

Loop == INSTANCE AuthRetry WITH
            Handlers <- Reqs, stage <- [r \in Reqs |-> LoopStage(r)]

(***************************************************************************)
(* "we first retry with the same creds; only if that still 401s do we      *)
(* re-derive the key and retry once more" (bridge/index.mjs): each handler *)
(* implements the abstract loop, whatever the others do.                   *)
(***************************************************************************)
ImplementsAuthRetry == Loop!Spec

\* Every call that was posted returns, even when the bridge never answers.
CallsReturn == \A c \in Calls : (order[c] # NoOrder) ~> (result[c] # NoResult)

(***************************************************************************)
(* "CLOB error becomes ok=False" (polytrader/bridge_client.py): when the   *)
(* venue answered a submission with success: false and the bridge passed   *)
(* that answer on, the call does not report ok.                            *)
(***************************************************************************)
VenueErrorIsNotOk ==
    \A s \in Subs :
        answer[s].reply = "unsuccess" /\ reply[s[1]].body = "unsuccess"
            => ~result[CallOf(s)].ok

-----------------------------------------------------------------------------
(* The inductive invariant behind the safety properties, in named parts.   *)

\* What a call posted is where it can be: nothing before the POST, one POST.
Posted ==
    \A c \in Calls :
        /\ try[c] = IF order[c] = NoOrder THEN 0 ELSE 1
        /\ order[c] = NoOrder => \A r \in Reqs :
               r[1] = c => r \notin wire /\ handler[r] = "none"

\* A request the bridge has not read has left no trace.
Unread ==
    \A r \in Reqs :
        /\ r \in wire => handler[r] = "none"
        /\ reply[r] # NoReply => handler[r] = "closed"
        /\ handler[r] = "none" => \A k \in 0..MaxSubmits - 1 :
               <<r, k>> \notin transit /\ answer[<<r, k>>] = NoAnswer

\* Submissions are made one after the other, each only after a 401.
OneAtATime ==
    \A r \in Reqs : \A k \in 0..MaxSubmits - 1 :
        /\ <<r, k>> \in transit => answer[<<r, k>>] = NoAnswer
        /\ k < attempt[r] => answer[<<r, k>>].reply = "401"
        /\ k > attempt[r] => <<r, k>> \notin transit /\ answer[<<r, k>>] = NoAnswer
        /\ handler[r] = "refreshing" =>
               attempt[r] = 1 /\ answer[<<r, 1>>].reply = "401"

\* A response that settles the fate of the order.
Refusal(rep) ==
    rep.code \in {"4xx", "429"} \/ (rep.code = "200" /\ rep.body = "unsuccess")
Match(rep) == rep.code = "200" /\ rep.body = "matched"

\* What the bridge responded is true, and stays true.
HonestReply ==
    \A r \in Reqs :
        /\ Match(reply[r]) => \E k \in 0..MaxSubmits - 1 : answer[<<r, k>>].took
        /\ Refusal(reply[r]) => \A k \in 0..MaxSubmits - 1 :
               <<r, k>> \notin transit /\ ~answer[<<r, k>>].took

\* Every result has one of three origins.
Origin(c) ==
    \/ order[c] = NoOrder /\ result[c] \in {NoResult, Raised, LocalError}
    \/ order[c] # NoOrder /\ result[c] \in {NoResult, ToOrderResult("transport", "error")}
    \/ /\ order[c] # NoOrder
       /\ reply[<<c, 1>>] # NoReply
       /\ result[c] = ToOrderResult(reply[<<c, 1>>].code, reply[<<c, 1>>].body)

(***************************************************************************)
(* The inductive invariant: it holds initially, every step preserves it,   *)
(* and it implies the safety properties above.                             *)
(***************************************************************************)
IInv ==
    /\ TypeOK
    /\ Posted
    /\ Unread
    /\ OneAtATime
    /\ HonestReply
    /\ \A c \in Calls : Origin(c)
=============================================================================

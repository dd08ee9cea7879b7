--------------------------- MODULE OrderPathProofs ---------------------------
(***************************************************************************)
(* Proofs about OrderPath, for every set of calls, every minimum, every    *)
(* range of amounts and every number of crashes.                           *)
(***************************************************************************)
EXTENDS OrderPath, TLAPS

-----------------------------------------------------------------------------
(* Facts about the identities and the pure operators.                      *)

\* An order POST is attempted once: request_with_retry(max_retries = 0).
LEMMA OneTry == Attempts(PostRetries) = 1 /\ Tries = {1}
BY DEF Attempts, PostRetries, Tries

\* A request is named by its call, a submission by its request and counter.
LEMMA Names ==
    /\ \A r \in Reqs : r[1] \in Calls /\ r = <<r[1], 1>>
    /\ \A c \in Calls : <<c, 1>> \in Reqs
    /\ \A r \in Reqs, k \in 0..2 : <<r, k>> \in Subs
    /\ \A s \in Subs : s[1] \in Reqs /\ s[2] \in 0..2 /\ s = <<s[1], s[2]>>
BY OneTry DEF Reqs, Subs, MaxSubmits

\* What the bridge can be told by a submission.
Says == {"matched", "bare", "unsuccess", "error", "4xx", "401", "429", "5xx", "thrown"}

\* The response is one of the responses, and it is a response.
LEMMA HttpReplyType ==
    ASSUME NEW op, NEW said \in Says
    PROVE  HttpReply(op, said) \in Replies /\ HttpReply(op, said) # NoReply
BY DEF HttpReply, Says, Replies, Codes, Bodies, NoReply

\* The OrderResult is a result that has been returned.
LEMMA ToOrderResultType ==
    ASSUME NEW code \in Codes \cup {"transport"}, NEW body \in Bodies
    PROVE  ToOrderResult(code, body) \in Results /\ ToOrderResult(code, body) # NoResult
BY DEF ToOrderResult, Results, NoResult, Codes, Bodies

\* Only a success of the venue is passed on as a match, and only an answer
\* that rules the order out (or a 4xx of the bridge itself) as a refusal.
LEMMA HttpReplyHonest ==
    ASSUME NEW op, NEW said \in Says
    PROVE  /\ Match(HttpReply(op, said)) => said = "matched"
           /\ Refusal(HttpReply(op, said)) => said \in {"unsuccess", "4xx", "401", "429"}
BY DEF HttpReply, Says, Match, Refusal

-----------------------------------------------------------------------------
(* Type correctness.                                                       *)

\* The initial state is well typed.
LEMMA InitType == Init => TypeOK
<1> SUFFICES ASSUME Init PROVE TypeOK
  OBVIOUS
<1> QED
  BY OrderPathAssumption, OneTry
  DEF Init, TypeOK, NoOrder, NoResult, NoReply, NoAnswer, MaxSubmits

\* A call that ends before its POST keeps the types.
LEMMA EndLocallyType ==
    ASSUME TypeOK, NEW c \in Calls, NEW res \in {Raised, LocalError},
           EndLocally(c, res)
    PROVE  TypeOK'
<1>1. res \in Results
  <2>1. Raised \in Results /\ LocalError \in Results
    BY DEF Raised, LocalError, Results, Codes
  <2> QED
    BY <2>1
<1> QED
  BY <1>1 DEF TypeOK, EndLocally, bridgeVars, venueVars, procVars

\* A POST keeps the types.
LEMMA PostType ==
    ASSUME TypeOK, NEW c \in Calls, NEW o \in Orders, Post(c, o)
    PROVE  TypeOK'
<1>1. <<c, 1>> \in Reqs
  BY Names
<1> QED
  BY <1>1, OneTry DEF TypeOK, Post, Send, bridgeVars, venueVars, procVars

\* A call that begins ends at once or posts a well-formed order.
LEMMA BeginCases ==
    ASSUME NEW c \in Calls, BeginCall(c)
    PROVE  \/ \E res \in {Raised, LocalError} : EndLocally(c, res)
           \/ \E o \in Orders : Post(c, o)
<1>1. CASE PlaceMarketOrder(c)
  BY <1>1 DEF PlaceMarketOrder, Orders
<1>2. CASE PlaceLimitOrder(c)
  BY <1>2 DEF PlaceLimitOrder, Orders
<1>3. CASE CancelOrder(c)
  BY <1>3 DEF CancelOrder, Orders
<1> QED
  BY <1>1, <1>2, <1>3 DEF BeginCall

\* So does every way to begin a call.
LEMMA BeginCallType ==
    ASSUME TypeOK, NEW c \in Calls, BeginCall(c)
    PROVE  TypeOK'
BY BeginCases, EndLocallyType, PostType

\* The end of an attempt, retried or not, keeps the types.
LEMMA SettleType ==
    ASSUME TypeOK, NEW c \in Calls,
           NEW code \in Codes \cup {"transport"}, NEW body \in Bodies,
           Settle(c, code, body)
    PROVE  TypeOK'
<1>1. ToOrderResult(code, body) \in Results
  BY ToOrderResultType
<1>2. <<c, 1>> \in Reqs
  BY Names
<1>3. CASE Retries(code, try[c] - 1, Attempts(PostRetries))
  <2>1. try[c] = 0
    BY <1>3, OneTry DEF Retries, TypeOK
  <2> QED
    BY <1>2, <1>3, <2>1, OneTry
    DEF TypeOK, Settle, Send, bridgeVars, venueVars, procVars
<1>4. CASE ~Retries(code, try[c] - 1, Attempts(PostRetries))
  BY <1>1, <1>4 DEF TypeOK, Settle, bridgeVars, venueVars, procVars
<1> QED
  BY <1>3, <1>4

\* So does every way a call can return.
LEMMA EndCallType ==
    ASSUME TypeOK, Posted, NEW c \in Calls, EndCall(c)
    PROVE  TypeOK'
<1>1. CASE ReplyArrives(c)
  <2>1. <<c, try[c]>> \in Reqs
    <3>1. try[c] = 1
      BY <1>1 DEF ReplyArrives, Waiting, Posted
    <3> QED
      BY <3>1, Names
  <2> QED
    BY <1>1, <2>1, SettleType DEF ReplyArrives, TypeOK, Replies
<1>2. CASE TransportError(c)
  BY <1>2, SettleType DEF TransportError, Bodies
<1> QED
  BY <1>1, <1>2 DEF EndCall

\* The two moves of a handler keep the types.
LEMMA SubmitType ==
    ASSUME TypeOK, NEW r \in Reqs, NEW k \in 0..2, Submit(r, k)
    PROVE  attempt' \in [Reqs -> 0..MaxSubmits - 1] /\ transit' \in SUBSET Subs
<1>1. <<r, k>> \in Subs
  BY Names
<1>2. k \in 0..MaxSubmits - 1
  BY DEF MaxSubmits
<1> QED
  BY <1>1, <1>2 DEF TypeOK, Submit

\* A response of the bridge keeps the types.
LEMMA RespondType ==
    ASSUME TypeOK, NEW r \in Reqs, NEW said \in Says, NEW op,
           Respond(r, HttpReply(op, said))
    PROVE  /\ handler' \in [Reqs -> {"none", "submitting", "refreshing", "closed"}]
           /\ reply' \in [Reqs -> Replies \cup {NoReply}]
           /\ attempt' \in [Reqs -> 0..MaxSubmits - 1]
           /\ transit' \in SUBSET Subs
BY HttpReplyType DEF TypeOK, Respond

\* What submitFn hands back is one of the things the bridge can be told.
LEMMA AnswerType ==
    ASSUME TypeOK, NEW s \in Subs
    PROVE  /\ answer[s].reply \in Says \cup {"none"}
           /\ answer[s].took \in BOOLEAN
           /\ answer[s].took => answer[s].reply \in {"matched", "bare", "5xx"}
           /\ answer[s].reply = "matched" => answer[s].took
           /\ answer[s].reply = "none" => answer[s] = NoAnswer
<1>1. CASE answer[s] \in VenueAnswers
  BY <1>1 DEF VenueAnswers, Says
<1>2. CASE answer[s] = NoAnswer
  BY <1>2 DEF NoAnswer, Says
<1> QED
  BY <1>1, <1>2 DEF TypeOK

\* Every turn of a handler keeps the types.
LEMMA BridgeType ==
    ASSUME TypeOK, NEW r \in Reqs, BridgeStep(r)
    PROVE  TypeOK'
<1> USE DEF clientVars, bridgeVars, venueVars, procVars
<1>1. CASE BridgeReceive(r)
  <2>1. UNCHANGED <<clientVars, answer, procVars>> /\ wire' \in SUBSET Reqs
    BY <1>1 DEF BridgeReceive, TypeOK
  <2>2. CASE \E said \in Says : Respond(r, HttpReply(order[r[1]].op, said))
    BY <2>1, <2>2, RespondType DEF TypeOK
  <2>3. CASE /\ handler' = [handler EXCEPT ![r] = "submitting"]
             /\ Submit(r, 0)
             /\ UNCHANGED reply
    BY <2>1, <2>3, SubmitType DEF TypeOK
  <2> QED
    BY <1>1, <2>2, <2>3 DEF BridgeReceive, Says
<1>2. CASE RetrySameCreds(r)
  BY <1>2, SubmitType DEF RetrySameCreds, TypeOK
<1>3. CASE StartRefresh(r)
  BY <1>3 DEF StartRefresh, TypeOK
<1>4. CASE RefreshSucceeds(r)
  BY <1>4, SubmitType DEF RefreshSucceeds, TypeOK
<1>5. CASE RefreshFails(r)
  <2>1. "401" \in Says
    BY DEF Says
  <2> QED
    BY <1>5, <2>1, RespondType DEF RefreshFails, TypeOK
<1>6. CASE SubmitReturns(r)
  <2>1. attempt[r] \in 0..2
    BY DEF TypeOK, MaxSubmits
  <2>2. <<r, attempt[r]>> \in Subs
    BY <2>1, Names
  <2>3. answer[<<r, attempt[r]>>].reply \in Says
    BY <1>6, <2>2, AnswerType DEF SubmitReturns
  <2> QED
    BY <1>6, <2>3, RespondType DEF SubmitReturns, TypeOK
<1>7. CASE SubmitBreaks(r)
  <2>1. "thrown" \in Says /\ "error" \in Says
    BY DEF Says
  <2> QED
    BY <1>7, <2>1, RespondType DEF SubmitBreaks, TypeOK
<1> QED
  BY <1>1, <1>2, <1>3, <1>4, <1>5, <1>6, <1>7 DEF BridgeStep

\* The venue, a crash and a restart keep the types.
LEMMA EnvironmentType ==
    ASSUME TypeOK, Crash \/ Restart \/ \E s \in Subs : VenueAnswersTo(s)
    PROVE  TypeOK'
<1> USE DEF clientVars, bridgeVars, venueVars, procVars
<1>1. CASE Crash
  <2>1. handler' \in [Reqs -> {"none", "submitting", "refreshing", "closed"}]
    BY <1>1 DEF Crash
  <2>2. crashes' \in Nat
    BY <1>1 DEF Crash, TypeOK
  <2> QED
    BY <1>1, <2>1, <2>2 DEF Crash, TypeOK
<1>2. CASE Restart
  BY <1>2 DEF Restart, TypeOK
<1>3. CASE \E s \in Subs : VenueAnswersTo(s)
  BY <1>3 DEF VenueAnswersTo, TypeOK
<1> QED
  BY <1>1, <1>2, <1>3

\* Every step keeps the types.
LEMMA NextType ==
    ASSUME TypeOK, Posted, [Next]_vars
    PROVE  TypeOK'
<1>1. CASE Next
  BY <1>1, BeginCallType, EndCallType, BridgeType, EnvironmentType
  DEF Next, Progress
<1>2. CASE UNCHANGED vars
  BY <1>2 DEF TypeOK, vars, clientVars, bridgeVars, venueVars, procVars
<1> QED
  BY <1>1, <1>2

-----------------------------------------------------------------------------
(* The inductive invariant.                                                *)

\* The inductive invariant holds initially.
LEMMA InitInv == Init => IInv
<1> SUFFICES ASSUME Init PROVE IInv
  OBVIOUS
<1>1. TypeOK
  BY InitType
<1>2. Posted
  BY DEF Init, Posted
<1>a. \A r \in Reqs : \A k \in 0..MaxSubmits - 1 :
          <<r, k>> \notin transit /\ answer[<<r, k>>] = NoAnswer
  <2> SUFFICES ASSUME NEW r \in Reqs, NEW k \in 0..MaxSubmits - 1
               PROVE  <<r, k>> \notin transit /\ answer[<<r, k>>] = NoAnswer
    OBVIOUS
  <2>1. k \in 0..2
    BY DEF MaxSubmits
  <2>2. <<r, k>> \in Subs
    BY <2>1, Names
  <2> QED
    BY <2>2 DEF Init
<1>b. \A r \in Reqs : handler[r] = "none" /\ attempt[r] = 0 /\ reply[r] = NoReply
  BY DEF Init
<1>3. Unread
  BY <1>a, <1>b DEF Init, Unread
<1>4. OneAtATime
  <2> SUFFICES ASSUME NEW r \in Reqs, NEW k \in 0..MaxSubmits - 1
               PROVE  ~(k < attempt[r]) /\ handler[r] # "refreshing"
    BY <1>a DEF OneAtATime
  <2> QED
    BY <1>b DEF MaxSubmits
<1>5. HonestReply
  BY DEF Init, HonestReply, Match, Refusal, NoReply
<1>6. \A c \in Calls : Origin(c)
  BY DEF Init, Origin
<1> QED
  BY <1>1, <1>2, <1>3, <1>4, <1>5, <1>6 DEF IInv

\* A call that ends before its POST touches nothing but its result.
LEMMA EndLocallyInv ==
    ASSUME IInv, NEW c \in Calls, NEW res \in {Raised, LocalError},
           EndLocally(c, res)
    PROVE  IInv'
<1> USE DEF bridgeVars, venueVars, procVars
<1>1. TypeOK'
  BY EndLocallyType DEF IInv
<1>2. Posted' /\ Unread' /\ OneAtATime' /\ HonestReply'
  BY DEF IInv, EndLocally, Posted, Unread, OneAtATime, HonestReply
<1>3. \A d \in Calls : Origin(d)'
  <2> SUFFICES ASSUME NEW d \in Calls PROVE Origin(d)'
    OBVIOUS
  <2>1. CASE d = c
    BY <2>1 DEF IInv, TypeOK, EndLocally, Idle, Origin
  <2>2. CASE d # c
    BY <2>2 DEF IInv, TypeOK, EndLocally, Origin
  <2> QED
    BY <2>1, <2>2
<1> QED
  BY <1>1, <1>2, <1>3 DEF IInv

\* The POST of an idle call: its request is new to the bridge.
LEMMA PostInv ==
    ASSUME IInv, NEW c \in Calls, NEW o \in Orders, Post(c, o)
    PROVE  IInv'
<1> USE DEF bridgeVars, venueVars, procVars
<1>1. TypeOK'
  BY PostType DEF IInv
<1>2. o # NoOrder
  BY DEF Orders, NoOrder
<1>3. <<c, 1>> \in Reqs /\ handler[<<c, 1>>] = "none" /\ order[c] = NoOrder
  BY Names DEF IInv, Posted, Post, Idle
<1>4. wire' \subseteq wire \cup {<<c, 1>>}
  BY DEF Post, Send
<1>5. Posted'
  BY <1>2, <1>4, Names DEF IInv, TypeOK, Posted, Post
<1>6. Unread'
  BY <1>3, <1>4 DEF IInv, Unread, Post
<1>7. OneAtATime' /\ HonestReply'
  BY DEF IInv, Post, OneAtATime, HonestReply
<1>8. \A d \in Calls : Origin(d)'
  <2> SUFFICES ASSUME NEW d \in Calls PROVE Origin(d)'
    OBVIOUS
  <2>1. CASE d = c
    BY <1>2, <2>1 DEF IInv, TypeOK, Post, Idle, Origin
  <2>2. CASE d # c
    BY <2>2 DEF IInv, TypeOK, Post, Origin
  <2> QED
    BY <2>1, <2>2
<1> QED
  BY <1>1, <1>5, <1>6, <1>7, <1>8 DEF IInv

\* A waiting call settles at the first outcome: an order write is not retried.
LEMMA SettleOnce ==
    ASSUME Posted, NEW c \in Calls, NEW code, NEW body,
           Waiting(c), Settle(c, code, body)
    PROVE  /\ result' = [result EXCEPT ![c] = ToOrderResult(code, body)]
           /\ UNCHANGED <<order, try, wire, bridgeVars, venueVars, procVars>>
<1>1. try[c] = 1
  BY DEF Waiting, Posted
<1>2. ~Retries(code, try[c] - 1, Attempts(PostRetries))
  BY <1>1, OneTry DEF Retries
<1> QED
  BY <1>2 DEF Settle

\* A call that returns has a result of one of the three origins.
LEMMA EndCallInv ==
    ASSUME IInv, NEW c \in Calls, EndCall(c)
    PROVE  IInv'
<1> USE DEF bridgeVars, venueVars, procVars
<1> DEFINE rep == reply[<<c, 1>>]
<1>1. TypeOK'
  BY EndCallType DEF IInv
<1>2. Waiting(c) /\ try[c] = 1
  BY DEF EndCall, ReplyArrives, TransportError, Waiting, IInv, Posted
<1>3. /\ \/ result' = [result EXCEPT ![c] = ToOrderResult("transport", "error")]
         \/ /\ rep # NoReply
            /\ result' = [result EXCEPT ![c] = ToOrderResult(rep.code, rep.body)]
      /\ UNCHANGED <<order, try, wire, bridgeVars, venueVars, procVars>>
  BY <1>2, SettleOnce DEF EndCall, ReplyArrives, TransportError, IInv
<1>4. Posted' /\ Unread' /\ OneAtATime' /\ HonestReply'
  BY <1>3 DEF IInv, Posted, Unread, OneAtATime, HonestReply
<1>5. \A d \in Calls : Origin(d)'
  <2> SUFFICES ASSUME NEW d \in Calls PROVE Origin(d)'
    OBVIOUS
  <2>1. CASE d = c
    BY <1>2, <1>3, <2>1 DEF IInv, TypeOK, Waiting, Origin
  <2>2. CASE d # c
    BY <1>3, <2>2 DEF IInv, TypeOK, Origin
  <2> QED
    BY <2>1, <2>2
<1> QED
  BY <1>1, <1>4, <1>5 DEF IInv

\* The responses of the bridge: a request answered for the first time, with a
\* response the venue's answers bear out.
LEMMA RespondInv ==
    ASSUME IInv, TypeOK', NEW r \in Reqs, NEW rep \in Replies, Respond(r, rep),
           rep # NoReply,
           handler[r] \in {"submitting", "refreshing"} \/ r \in wire,
           wire' = wire \/ wire' = wire \ {r},
           r \notin wire',
           Match(rep) => \E k \in 0..MaxSubmits - 1 : answer[<<r, k>>].took,
           Refusal(rep) => \A k \in 0..MaxSubmits - 1 :
               <<r, k>> \notin transit /\ ~answer[<<r, k>>].took,
           UNCHANGED <<clientVars, answer, procVars>>
    PROVE  IInv'
<1> USE DEF clientVars, procVars
<1>1. reply[r] = NoReply /\ order[r[1]] # NoOrder
  BY Names DEF IInv, Unread, Posted
<1>2. Posted'
  BY <1>1 DEF IInv, TypeOK, Posted, Respond
<1>3. Unread'
  BY DEF IInv, TypeOK, Unread, Respond
<1>4. OneAtATime'
  BY DEF IInv, TypeOK, OneAtATime, Respond
<1>5. HonestReply'
  BY DEF IInv, TypeOK, HonestReply, Respond
<1>6. \A d \in Calls : Origin(d)'
  <2> SUFFICES ASSUME NEW d \in Calls PROVE Origin(d)'
    OBVIOUS
  <2>1. reply[<<d, 1>>] # NoReply => reply'[<<d, 1>>] = reply[<<d, 1>>]
    BY <1>1, Names DEF Respond, IInv, TypeOK
  <2> QED
    BY <2>1 DEF IInv, Origin
<1> QED
  BY <1>2, <1>3, <1>4, <1>5, <1>6 DEF IInv

\* The submissions: each is the first, or follows 401s only.
LEMMA SubmitInv ==
    ASSUME IInv, TypeOK', NEW r \in Reqs, NEW k \in 0..MaxSubmits - 1, Submit(r, k),
           handler' = [handler EXCEPT ![r] = "submitting"],
           handler[r] \in {"submitting", "refreshing"} \/ r \in wire,
           wire' = wire \/ wire' = wire \ {r},
           r \notin wire',
           \A j \in 0..MaxSubmits - 1 : j < k => answer[<<r, j>>].reply = "401",
           \A j \in 0..MaxSubmits - 1 : j >= k => answer[<<r, j>>] = NoAnswer,
           \A j \in 0..MaxSubmits - 1 : j > k => <<r, j>> \notin transit,
           UNCHANGED <<clientVars, reply, answer, procVars>>
    PROVE  IInv'
<1> USE DEF clientVars, procVars
<1>1. reply[r] = NoReply /\ order[r[1]] # NoOrder
  BY Names DEF IInv, Unread, Posted
<1>2. Posted'
  BY <1>1 DEF IInv, TypeOK, Posted
<1>3. Unread'
  BY DEF IInv, TypeOK, Unread, Submit
<1>4. OneAtATime'
  <2>1. attempt'[r] = k /\ handler'[r] = "submitting"
    BY DEF IInv, TypeOK, Submit
  <2>2. \A q \in Reqs : q # r => attempt'[q] = attempt[q] /\ handler'[q] = handler[q]
    BY DEF IInv, TypeOK, Submit
  <2>3. \A q \in Reqs, j \in 0..MaxSubmits - 1 :
            <<q, j>> \in transit' <=> <<q, j>> \in transit \/ (q = r /\ j = k)
    BY DEF Submit
  <2> SUFFICES ASSUME NEW q \in Reqs, NEW j \in 0..MaxSubmits - 1
               PROVE  /\ <<q, j>> \in transit' => answer[<<q, j>>] = NoAnswer
                      /\ j < attempt'[q] => answer[<<q, j>>].reply = "401"
                      /\ j > attempt'[q] =>
                             <<q, j>> \notin transit' /\ answer[<<q, j>>] = NoAnswer
                      /\ handler'[q] = "refreshing" =>
                             attempt'[q] = 1 /\ answer[<<q, 1>>].reply = "401"
    BY DEF OneAtATime
  <2>4. CASE q = r
    BY <2>1, <2>3, <2>4 DEF IInv, OneAtATime, MaxSubmits
  <2>5. CASE q # r
    BY <2>2, <2>3, <2>5 DEF IInv, OneAtATime
  <2> QED
    BY <2>4, <2>5
<1>5. HonestReply'
  BY <1>1 DEF IInv, TypeOK, HonestReply, Submit, Match, Refusal, NoReply
<1>6. \A d \in Calls : Origin(d)'
  BY DEF IInv, Origin
<1> QED
  BY <1>2, <1>3, <1>4, <1>5, <1>6 DEF IInv

\* A handler that waits for the venue or for a refresh has made its submissions
\* one after the other: all but the last were answered 401.
LEMMA BusyHandler ==
    ASSUME IInv, NEW r \in Reqs, handler[r] \in {"submitting", "refreshing"}
    PROVE  /\ r \notin wire
           /\ reply[r] = NoReply
           /\ order[r[1]] # NoOrder
           /\ attempt[r] \in 0..MaxSubmits - 1
           /\ <<r, attempt[r]>> \in Subs
           /\ answer[<<r, attempt[r]>>] # NoAnswer =>
                  <<r, attempt[r]>> \notin transit
           /\ \A k \in 0..MaxSubmits - 1 :
                  k # attempt[r] => /\ <<r, k>> \notin transit
                                    /\ ~answer[<<r, k>>].took
<1>1. r \notin wire /\ reply[r] = NoReply /\ order[r[1]] # NoOrder
  BY Names DEF IInv, Unread, Posted
<1>2. attempt[r] \in 0..MaxSubmits - 1
  BY DEF IInv, TypeOK
<1>3. <<r, attempt[r]>> \in Subs
  <2>1. attempt[r] \in 0..2
    BY <1>2 DEF MaxSubmits
  <2> QED
    BY <2>1, Names
<1>4. answer[<<r, attempt[r]>>] # NoAnswer => <<r, attempt[r]>> \notin transit
  BY <1>2 DEF IInv, OneAtATime
<1>5. ASSUME NEW k \in 0..MaxSubmits - 1, k # attempt[r]
      PROVE  <<r, k>> \notin transit /\ ~answer[<<r, k>>].took
  <2>1. <<r, k>> \in Subs
    <3>1. k \in 0..2
      BY DEF MaxSubmits
    <3> QED
      BY <3>1, Names
  <2>2. CASE k < attempt[r]
    <3>1. answer[<<r, k>>].reply = "401"
      BY <2>2 DEF IInv, OneAtATime
    <3>2. ~answer[<<r, k>>].took
      BY <2>1, <3>1, AnswerType DEF IInv
    <3>3. answer[<<r, k>>] # NoAnswer
      BY <3>1 DEF NoAnswer
    <3> QED
      BY <3>2, <3>3 DEF IInv, OneAtATime
  <2>3. CASE k > attempt[r]
    <3>1. <<r, k>> \notin transit /\ answer[<<r, k>>] = NoAnswer
      BY <2>3 DEF IInv, OneAtATime
    <3> QED
      BY <3>1 DEF NoAnswer
  <2>4. k < attempt[r] \/ k > attempt[r]
    BY <1>2, <1>5 DEF MaxSubmits
  <2> QED
    BY <2>2, <2>3, <2>4
<1> QED
  BY <1>1, <1>2, <1>3, <1>4, <1>5

\* A 401 that the handler has seen: all submissions so far were answered 401.
LEMMA All401 ==
    ASSUME IInv, NEW r \in Reqs, handler[r] \in {"submitting", "refreshing"},
           answer[<<r, attempt[r]>>].reply = "401"
    PROVE  \A k \in 0..MaxSubmits - 1 :
               /\ k <= attempt[r] => answer[<<r, k>>].reply = "401"
               /\ k > attempt[r] => answer[<<r, k>>] = NoAnswer
               /\ <<r, k>> \notin transit
               /\ ~answer[<<r, k>>].took
<1>1. answer[<<r, attempt[r]>>] # NoAnswer
  BY DEF NoAnswer
<1>2. /\ attempt[r] \in 0..MaxSubmits - 1
      /\ <<r, attempt[r]>> \notin transit
      /\ ~answer[<<r, attempt[r]>>].took
  BY <1>1, BusyHandler, AnswerType DEF IInv
<1> SUFFICES ASSUME NEW k \in 0..MaxSubmits - 1
             PROVE  /\ k <= attempt[r] => answer[<<r, k>>].reply = "401"
                    /\ k > attempt[r] => answer[<<r, k>>] = NoAnswer
                    /\ <<r, k>> \notin transit
                    /\ ~answer[<<r, k>>].took
  OBVIOUS
<1>3. CASE k = attempt[r]
  <2>1. ~(k > attempt[r])
    BY <1>2, <1>3 DEF MaxSubmits
  <2> QED
    BY <1>2, <1>3, <2>1
<1>4. CASE k # attempt[r]
  <2>1. <<r, k>> \notin transit /\ ~answer[<<r, k>>].took
    BY <1>4, BusyHandler
  <2>2. k <= attempt[r] => k < attempt[r]
    BY <1>2, <1>4 DEF MaxSubmits
  <2> QED
    BY <2>1, <2>2 DEF IInv, OneAtATime
<1> QED
  BY <1>3, <1>4

\* Reading a request leaves its first traces: a response or a submission.
LEMMA BridgeReceiveInv ==
    ASSUME IInv, NEW r \in Reqs, BridgeReceive(r)
    PROVE  IInv'
<1> DEFINE op == order[r[1]].op
<1>1. TypeOK'
  BY BridgeType DEF IInv, BridgeStep
<1>2. r \in wire /\ wire' = wire \ {r} /\ UNCHANGED <<clientVars, answer, procVars>>
  BY DEF BridgeReceive
<1>3. \A k \in 0..MaxSubmits - 1 : <<r, k>> \notin transit /\ answer[<<r, k>>] = NoAnswer
  BY <1>2 DEF IInv, Unread
<1>4. ASSUME NEW said \in {"4xx", "thrown"}, Respond(r, HttpReply(op, said))
      PROVE  IInv'
  <2>1. HttpReply(op, said) \in Replies /\ HttpReply(op, said) # NoReply
    BY HttpReplyType DEF Says
  <2>2. ~Match(HttpReply(op, said))
    BY HttpReplyHonest DEF Says
  <2>3. \A k \in 0..MaxSubmits - 1 : <<r, k>> \notin transit /\ ~answer[<<r, k>>].took
    BY <1>3 DEF NoAnswer
  <2> QED
    BY <1>1, <1>2, <1>4, <2>1, <2>2, <2>3, RespondInv
<1>5. ASSUME handler' = [handler EXCEPT ![r] = "submitting"], Submit(r, 0), reply' = reply
      PROVE  IInv'
  <2>1. 0 \in 0..MaxSubmits - 1 /\ \A j \in 0..MaxSubmits - 1 : ~(j < 0)
    BY DEF MaxSubmits
  <2> QED
    BY <1>1, <1>2, <1>3, <1>5, <2>1, SubmitInv
<1> QED
  BY <1>4, <1>5 DEF BridgeReceive

\* The second submission follows one 401.
LEMMA RetrySameCredsInv ==
    ASSUME IInv, NEW r \in Reqs, RetrySameCreds(r)
    PROVE  IInv'
<1>1. TypeOK'
  BY BridgeType DEF IInv, BridgeStep
<1>2. /\ handler[r] = "submitting" /\ attempt[r] = 0
      /\ answer[<<r, attempt[r]>>].reply = "401"
      /\ Submit(r, 1)
      /\ UNCHANGED <<clientVars, wire, handler, reply, answer, procVars>>
  BY DEF RetrySameCreds, Got401
<1>3. handler' = [handler EXCEPT ![r] = "submitting"] /\ r \notin wire
  BY <1>2, BusyHandler DEF IInv, TypeOK
<1>4. \A k \in 0..MaxSubmits - 1 :
          /\ k < 1 => answer[<<r, k>>].reply = "401"
          /\ k >= 1 => answer[<<r, k>>] = NoAnswer
          /\ <<r, k>> \notin transit
  <2>1. \A k \in 0..MaxSubmits - 1 :
            /\ k <= attempt[r] => answer[<<r, k>>].reply = "401"
            /\ k > attempt[r] => answer[<<r, k>>] = NoAnswer
            /\ <<r, k>> \notin transit
    BY <1>2, All401
  <2> QED
    BY <1>2, <2>1 DEF MaxSubmits
<1>5. 1 \in 0..MaxSubmits - 1
  BY DEF MaxSubmits
<1> QED
  BY <1>1, <1>2, <1>3, <1>4, <1>5, SubmitInv

\* A refresh starts after the second 401.
LEMMA StartRefreshInv ==
    ASSUME IInv, NEW r \in Reqs, StartRefresh(r)
    PROVE  IInv'
<1> USE DEF clientVars, venueVars, procVars
<1>1. TypeOK'
  BY BridgeType DEF IInv, BridgeStep
<1>2. /\ handler[r] = "submitting" /\ attempt[r] = 1
      /\ answer[<<r, 1>>].reply = "401"
      /\ handler' = [handler EXCEPT ![r] = "refreshing"]
      /\ UNCHANGED <<clientVars, wire, attempt, reply, venueVars, procVars>>
  BY DEF StartRefresh, Got401
<1>3. reply[r] = NoReply /\ order[r[1]] # NoOrder /\ r \notin wire
  BY <1>2, BusyHandler
<1>4. Posted' /\ Unread'
  BY <1>2, <1>3 DEF IInv, TypeOK, Posted, Unread
<1>5. OneAtATime'
  BY <1>2 DEF IInv, TypeOK, OneAtATime
<1>6. HonestReply' /\ \A d \in Calls : Origin(d)'
  BY <1>2 DEF IInv, HonestReply, Origin
<1> QED
  BY <1>1, <1>4, <1>5, <1>6 DEF IInv

\* The third submission follows two 401s.
LEMMA RefreshSucceedsInv ==
    ASSUME IInv, NEW r \in Reqs, RefreshSucceeds(r)
    PROVE  IInv'
<1>1. TypeOK'
  BY BridgeType DEF IInv, BridgeStep
<1>2. /\ handler[r] = "refreshing"
      /\ handler' = [handler EXCEPT ![r] = "submitting"]
      /\ Submit(r, 2)
      /\ UNCHANGED <<clientVars, wire, reply, answer, procVars>>
  BY DEF RefreshSucceeds
<1>3. attempt[r] = 1 /\ answer[<<r, attempt[r]>>].reply = "401" /\ r \notin wire
  BY <1>2, BusyHandler DEF IInv, OneAtATime, MaxSubmits
<1>4. \A k \in 0..MaxSubmits - 1 :
          /\ k < 2 => answer[<<r, k>>].reply = "401"
          /\ k >= 2 => answer[<<r, k>>] = NoAnswer
          /\ <<r, k>> \notin transit
  <2>1. \A k \in 0..MaxSubmits - 1 :
            /\ k <= attempt[r] => answer[<<r, k>>].reply = "401"
            /\ k > attempt[r] => answer[<<r, k>>] = NoAnswer
            /\ <<r, k>> \notin transit
    BY <1>2, <1>3, All401
  <2> QED
    BY <1>3, <2>1 DEF MaxSubmits
<1>5. 2 \in 0..MaxSubmits - 1
  BY DEF MaxSubmits
<1> QED
  BY <1>1, <1>2, <1>3, <1>4, <1>5, SubmitInv

\* A failed refresh responds 4xx: both submissions were answered 401.
LEMMA RefreshFailsInv ==
    ASSUME IInv, NEW r \in Reqs, RefreshFails(r)
    PROVE  IInv'
<1> DEFINE rep == HttpReply(order[r[1]].op, "401")
<1>1. TypeOK'
  BY BridgeType DEF IInv, BridgeStep
<1>2. /\ handler[r] = "refreshing"
      /\ Respond(r, rep)
      /\ UNCHANGED <<clientVars, wire, answer, procVars>>
  BY DEF RefreshFails
<1>3. attempt[r] = 1 /\ answer[<<r, attempt[r]>>].reply = "401" /\ r \notin wire
  BY <1>2, BusyHandler DEF IInv, OneAtATime, MaxSubmits
<1>4. \A k \in 0..MaxSubmits - 1 : <<r, k>> \notin transit /\ ~answer[<<r, k>>].took
  BY <1>2, <1>3, All401
<1>5. rep \in Replies /\ rep # NoReply /\ ~Match(rep)
  BY HttpReplyType, HttpReplyHonest DEF Says
<1> QED
  BY <1>1, <1>2, <1>3, <1>4, <1>5, RespondInv

\* The venue's answer to the last submission is passed on as it was.
LEMMA SubmitReturnsInv ==
    ASSUME IInv, NEW r \in Reqs, SubmitReturns(r)
    PROVE  IInv'
<1> DEFINE a == answer[<<r, attempt[r]>>]
           rep == HttpReply(order[r[1]].op, a.reply)
<1>1. TypeOK'
  BY BridgeType DEF IInv, BridgeStep
<1>2. /\ handler[r] = "submitting" /\ a.reply # "none"
      /\ Respond(r, rep)
      /\ UNCHANGED <<clientVars, wire, answer, procVars>>
  BY DEF SubmitReturns
<1>3. /\ r \notin wire
      /\ attempt[r] \in 0..MaxSubmits - 1
      /\ <<r, attempt[r]>> \in Subs
      /\ \A k \in 0..MaxSubmits - 1 : k # attempt[r] =>
             <<r, k>> \notin transit /\ ~answer[<<r, k>>].took
  BY <1>2, BusyHandler
<1>4. /\ a.reply \in Says
      /\ a.reply = "matched" => a.took
      /\ a.took => a.reply \in {"matched", "bare", "5xx"}
  BY <1>2, <1>3, AnswerType DEF IInv
<1>5. <<r, attempt[r]>> \notin transit
  <2>1. a # NoAnswer
    BY <1>2 DEF NoAnswer
  <2> QED
    BY <1>3, <2>1 DEF IInv, OneAtATime
<1>6. rep \in Replies /\ rep # NoReply
  BY <1>4, HttpReplyType
<1>7. Match(rep) => \E k \in 0..MaxSubmits - 1 : answer[<<r, k>>].took
  BY <1>3, <1>4, HttpReplyHonest
<1>8. Refusal(rep) => \A k \in 0..MaxSubmits - 1 :
          <<r, k>> \notin transit /\ ~answer[<<r, k>>].took
  <2> SUFFICES ASSUME Refusal(rep), NEW k \in 0..MaxSubmits - 1
               PROVE  <<r, k>> \notin transit /\ ~answer[<<r, k>>].took
    OBVIOUS
  <2>1. ~a.took
    BY <1>4, HttpReplyHonest
  <2> QED
    BY <1>3, <1>5, <2>1
<1> HIDE DEF rep
<1> QED
  BY <1>1, <1>2, <1>3, <1>6, <1>7, <1>8, RespondInv

\* A submission that breaks is never passed on as a match or a refusal.
LEMMA SubmitBreaksInv ==
    ASSUME IInv, NEW r \in Reqs, SubmitBreaks(r)
    PROVE  IInv'
<1>1. TypeOK'
  BY BridgeType DEF IInv, BridgeStep
<1>2. PICK said \in {"thrown", "error"} : Respond(r, HttpReply(order[r[1]].op, said))
  BY DEF SubmitBreaks
<1>3. handler[r] = "submitting" /\ UNCHANGED <<clientVars, wire, answer, procVars>>
  BY DEF SubmitBreaks
<1>4. r \notin wire
  BY <1>3, BusyHandler
<1> DEFINE rep == HttpReply(order[r[1]].op, said)
<1>5. rep \in Replies /\ rep # NoReply /\ ~Match(rep) /\ ~Refusal(rep)
  BY HttpReplyType, HttpReplyHonest DEF Says
<1> QED
  BY <1>1, <1>2, <1>3, <1>4, <1>5, RespondInv

\* A crash leaves responses and submissions as they were.
LEMMA CrashInv == IInv /\ Crash => IInv'
<1> SUFFICES ASSUME IInv, Crash PROVE IInv'
  OBVIOUS
<1> USE DEF clientVars, venueVars
<1>1. TypeOK'
  BY EnvironmentType DEF IInv
<1>2. \A r \in Reqs : handler'[r] = IF handler[r] = "none" THEN "none" ELSE "closed"
  BY DEF Crash
<1>3. Posted' /\ Unread' /\ OneAtATime'
  BY <1>2 DEF IInv, Crash, Posted, Unread, OneAtATime
<1>4. HonestReply' /\ \A d \in Calls : Origin(d)'
  BY DEF IInv, Crash, HonestReply, Origin
<1> QED
  BY <1>1, <1>3, <1>4 DEF IInv

\* A restart changes nothing but the process.
LEMMA RestartInv == IInv /\ Restart => IInv'
<1> SUFFICES ASSUME IInv, Restart PROVE IInv'
  OBVIOUS
<1>1. TypeOK'
  BY EnvironmentType DEF IInv
<1> QED
  BY <1>1 DEF IInv, Restart, Posted, Unread, OneAtATime, HonestReply, Origin,
     clientVars, bridgeVars, venueVars

\* The venue answers the one submission of a request it has not answered yet.
LEMMA VenueAnswersToInv ==
    ASSUME IInv, NEW s \in Subs, VenueAnswersTo(s)
    PROVE  IInv'
<1> USE DEF clientVars, bridgeVars, procVars
<1>1. TypeOK'
  BY EnvironmentType DEF IInv
<1>2. PICK a \in VenueAnswers : answer' = [answer EXCEPT ![s] = a]
  BY DEF VenueAnswersTo
<1>3. /\ s \in transit /\ transit' = transit \ {s}
      /\ UNCHANGED <<clientVars, wire, bridgeVars, procVars>>
  BY DEF VenueAnswersTo
<1>4. PICK r \in Reqs, k \in 0..MaxSubmits - 1 : s = <<r, k>>
  BY Names DEF MaxSubmits
<1>5. answer[s] = NoAnswer /\ handler[r] # "none"
  BY <1>3, <1>4 DEF IInv, Unread, OneAtATime
<1>6. answer[s].reply # "401" /\ ~answer[s].took
  BY <1>5 DEF NoAnswer
<1>7. answer'[s] = a /\ \A t \in Subs : t # s => answer'[t] = answer[t]
  BY <1>2 DEF IInv, TypeOK
<1>8. \A q \in Reqs : \A j \in 0..MaxSubmits - 1 :
          <<q, j>> \in Subs /\ (<<q, j>> = s <=> q = r /\ j = k)
  <2> SUFFICES ASSUME NEW q \in Reqs, NEW j \in 0..MaxSubmits - 1
               PROVE  <<q, j>> \in Subs /\ (<<q, j>> = s <=> q = r /\ j = k)
    OBVIOUS
  <2>1. j \in 0..2
    BY DEF MaxSubmits
  <2> QED
    BY <1>4, <2>1, Names
<1>9. Posted'
  BY <1>3 DEF IInv, Posted
<1>10. Unread'
  BY <1>3, <1>5, <1>7, <1>8 DEF IInv, Unread
<1>11. OneAtATime'
  <2> SUFFICES ASSUME NEW q \in Reqs, NEW j \in 0..MaxSubmits - 1
               PROVE  /\ <<q, j>> \in transit' => answer'[<<q, j>>] = NoAnswer
                      /\ j < attempt[q] => answer'[<<q, j>>].reply = "401"
                      /\ j > attempt[q] =>
                             <<q, j>> \notin transit' /\ answer'[<<q, j>>] = NoAnswer
                      /\ handler[q] = "refreshing" =>
                             attempt[q] = 1 /\ answer'[<<q, 1>>].reply = "401"
    BY <1>3 DEF OneAtATime
  <2>1. <<q, j>> = s => ~(j < attempt[q]) /\ ~(j > attempt[q])
    BY <1>3, <1>4, <1>6 DEF IInv, OneAtATime
  <2>2. handler[q] = "refreshing" => attempt[q] = 1 /\ answer'[<<q, 1>>].reply = "401"
    <3>1. 1 \in 0..MaxSubmits - 1
      BY DEF MaxSubmits
    <3> QED
      BY <1>6, <1>7, <1>8, <3>1 DEF IInv, OneAtATime
  <2>3. CASE <<q, j>> = s
    BY <1>3, <2>1, <2>2, <2>3
  <2>4. CASE <<q, j>> # s
    BY <1>3, <1>7, <1>8, <2>2, <2>4 DEF IInv, OneAtATime
  <2> QED
    BY <2>3, <2>4
<1>12. HonestReply'
  <2> SUFFICES ASSUME NEW q \in Reqs
               PROVE  /\ Match(reply[q]) =>
                             \E j \in 0..MaxSubmits - 1 : answer'[<<q, j>>].took
                      /\ Refusal(reply[q]) => \A j \in 0..MaxSubmits - 1 :
                             <<q, j>> \notin transit' /\ ~answer'[<<q, j>>].took
    BY <1>3 DEF HonestReply
  <2>1. Match(reply[q]) => \E j \in 0..MaxSubmits - 1 : answer'[<<q, j>>].took
    BY <1>6, <1>7, <1>8 DEF IInv, HonestReply
  <2>2. Refusal(reply[q]) => \A j \in 0..MaxSubmits - 1 :
            <<q, j>> \notin transit' /\ ~answer'[<<q, j>>].took
    BY <1>3, <1>4, <1>7, <1>8 DEF IInv, HonestReply
  <2> QED
    BY <2>1, <2>2
<1>13. \A d \in Calls : Origin(d)'
  BY <1>3 DEF IInv, Origin
<1> QED
  BY <1>1, <1>9, <1>10, <1>11, <1>12, <1>13 DEF IInv

\* Every step preserves the inductive invariant.
LEMMA NextInv == IInv /\ [Next]_vars => IInv'
<1> SUFFICES ASSUME IInv, [Next]_vars PROVE IInv'
  OBVIOUS
<1>1. ASSUME NEW c \in Calls, BeginCall(c) PROVE IInv'
  BY <1>1, BeginCases, EndLocallyInv, PostInv
<1>2. ASSUME NEW c \in Calls, EndCall(c) PROVE IInv'
  BY <1>2, EndCallInv
<1>3. ASSUME NEW r \in Reqs, BridgeStep(r) PROVE IInv'
  BY <1>3, BridgeReceiveInv, RetrySameCredsInv, StartRefreshInv, RefreshSucceedsInv,
     RefreshFailsInv, SubmitReturnsInv, SubmitBreaksInv DEF BridgeStep
<1>4. ASSUME NEW s \in Subs, VenueAnswersTo(s) PROVE IInv'
  BY <1>4, VenueAnswersToInv
<1>5. CASE UNCHANGED vars
  <2>1. TypeOK'
    BY NextType DEF IInv
  <2> QED
    BY <1>5, <2>1 DEF IInv, vars, clientVars, bridgeVars, venueVars, procVars,
       Posted, Unread, OneAtATime, HonestReply, Origin
<1> QED
  BY <1>1, <1>2, <1>3, <1>4, <1>5, CrashInv, RestartInv DEF Next, Progress

\* The inductive invariant holds in every reachable state.
THEOREM Invariance == Spec => []IInv
BY InitInv, NextInv, PTL DEF Spec

\* Without a new call no order changes, and a result that is there stays.
LEMMA ProgressFrame ==
    ASSUME IInv, Progress
    PROVE  /\ order' = order
           /\ \A c \in Calls : result[c] # NoResult => result'[c] = result[c]
<1>1. ASSUME NEW c \in Calls, EndCall(c)
      PROVE  /\ order' = order
             /\ \A d \in Calls : result[d] # NoResult => result'[d] = result[d]
  <2>1. Waiting(c)
    BY <1>1 DEF EndCall, ReplyArrives, TransportError
  <2>2. PICK code, body : Settle(c, code, body)
    BY <1>1 DEF EndCall, ReplyArrives, TransportError
  <2>3. order' = order /\ \A d \in Calls : d # c => result'[d] = result[d]
    BY <2>2 DEF Settle, IInv, TypeOK
  <2> QED
    BY <2>1, <2>3 DEF Waiting
<1>2. ASSUME NEW r \in Reqs, BridgeStep(r) PROVE UNCHANGED <<order, result>>
  BY <1>2 DEF BridgeStep, BridgeReceive, RetrySameCreds, StartRefresh, RefreshSucceeds,
     RefreshFails, SubmitReturns, SubmitBreaks, clientVars
<1>3. ASSUME NEW s \in Subs, VenueAnswersTo(s) PROVE UNCHANGED <<order, result>>
  BY <1>3 DEF VenueAnswersTo, clientVars
<1>4. Crash \/ Restart => UNCHANGED <<order, result>>
  BY DEF Crash, Restart, clientVars
<1> QED
  BY <1>1, <1>2, <1>3, <1>4 DEF Progress

-----------------------------------------------------------------------------
(* What the invariant gives.                                               *)

\* Variables have their types.
THEOREM TypeCorrect == Spec => []TypeOK
BY Invariance, PTL DEF IInv

\* Only the last submission of a request can have taken effect.
LEMMA EffectIsLast ==
    ASSUME IInv, NEW c \in Calls, NEW s \in EffectsOf(c)
    PROVE  s = <<<<c, 1>>, attempt[<<c, 1>>]>>
<1>1. s \in Subs /\ s[1][1] = c /\ answer[s].took
  BY DEF EffectsOf, CallOf
<1>2. PICK r \in Reqs, k \in 0..MaxSubmits - 1 : s = <<r, k>>
  BY <1>1, Names DEF MaxSubmits
<1>3. r = <<c, 1>>
  BY <1>1, <1>2, Names
<1>4. answer[<<r, k>>].took /\ answer[<<r, k>>].reply # "401"
  BY <1>1, <1>2, AnswerType DEF IInv
<1>5. answer[<<r, k>>] # NoAnswer
  BY <1>4 DEF NoAnswer
<1>6. ~(k < attempt[r]) /\ ~(k > attempt[r])
  BY <1>4, <1>5 DEF IInv, OneAtATime
<1>7. attempt[r] \in 0..MaxSubmits - 1
  BY DEF IInv, TypeOK
<1>8. k = attempt[r]
  BY <1>6, <1>7 DEF MaxSubmits
<1> QED
  BY <1>2, <1>3, <1>8

\* The order of a call takes effect at most once, whatever is lost, delayed or
\* crashed, and although the bridge may submit it three times.
THEOREM EffectAtMostOnce == Spec => []AtMostOnce
<1>1. IInv => AtMostOnce
  BY EffectIsLast DEF AtMostOnce
<1> QED
  BY <1>1, Invariance, PTL

\* What an outcome says of the result it was read off.
LEMMA OutcomeReads ==
    ASSUME NEW c \in Calls
    PROVE  /\ Outcome(c) = "done" => result[c].status = "matched"
           /\ Outcome(c) = "refused" =>
                  /\ result[c] # NoResult
                  /\ \/ result[c].via \in {"local", "4xx", "429"}
                     \/ result[c].ok /\ result[c].status = "rejected"
BY DEF Outcome

\* What an OrderResult made from a response says of that response.
LEMMA ResultReads ==
    ASSUME NEW code, NEW body
    PROVE  LET res == ToOrderResult(code, body)
           IN  /\ res.via = code
               /\ res.status = "matched" => code = "200" /\ body = "matched"
               /\ res.ok /\ res.status = "rejected" => code = "200" /\ body = "unsuccess"
BY DEF ToOrderResult

\* What the outcome of a finished call says of the venue.
LEMMA OutcomeHonest ==
    ASSUME IInv, NEW c \in Calls
    PROVE  /\ Outcome(c) = "done" => EffectsOf(c) # {}
           /\ Outcome(c) = "refused" =>
                  /\ EffectsOf(c) = {}
                  /\ \A s \in transit : CallOf(s) # c
<1> DEFINE r == <<c, 1>>
           rep == reply[r]
<1>1. r \in Reqs /\ \A k \in 0..MaxSubmits - 1 : <<r, k>> \in Subs
  <2>1. \A k \in 0..2 : <<r, k>> \in Subs
    BY Names
  <2> QED
    BY <2>1, Names DEF MaxSubmits
<1>2. \A s \in Subs : CallOf(s) = c => \E k \in 0..MaxSubmits - 1 : s = <<r, k>>
  <2> SUFFICES ASSUME NEW s \in Subs, s[1][1] = c
               PROVE  \E k \in 0..MaxSubmits - 1 : s = <<r, k>>
    BY DEF CallOf
  <2>1. s[1] \in Reqs /\ s[2] \in 0..2 /\ s = <<s[1], s[2]>>
    BY Names
  <2>2. s[1] = r
    BY <2>1, Names
  <2> QED
    BY <2>1, <2>2 DEF MaxSubmits
<1>3. transit \subseteq Subs
  BY DEF IInv, TypeOK
<1>4. CASE order[c] = NoOrder
  <2>1. Outcome(c) # "done"
    <3>1. result[c] \in {NoResult, Raised, LocalError}
      BY <1>4 DEF IInv, Origin
    <3>2. result[c].status # "matched"
      BY <3>1 DEF NoResult, Raised, LocalError
    <3> QED
      BY <3>2, OutcomeReads
  <2>2. handler[r] = "none"
    BY <1>1, <1>4 DEF IInv, Posted
  <2>3. \A k \in 0..MaxSubmits - 1 : <<r, k>> \notin transit /\ ~answer[<<r, k>>].took
    BY <1>1, <2>2 DEF IInv, Unread, NoAnswer
  <2> QED
    BY <1>2, <1>3, <2>1, <2>3 DEF EffectsOf
<1>5. CASE order[c] # NoOrder
  <2>0. \/ result[c] = NoResult
        \/ result[c] = ToOrderResult("transport", "error")
        \/ result[c] = ToOrderResult(rep.code, rep.body)
    BY <1>5 DEF IInv, Origin
  <2>1. Outcome(c) = "done" => Match(rep)
    <3> SUFFICES ASSUME result[c].status = "matched" PROVE Match(rep)
      BY OutcomeReads
    <3>1. NoResult.status # "matched" /\ ToOrderResult("transport", "error").status # "matched"
      BY DEF NoResult, ToOrderResult
    <3>2. result[c] = ToOrderResult(rep.code, rep.body)
      BY <2>0, <3>1
    <3> QED
      BY <3>2, ResultReads DEF Match
  <2>2. Outcome(c) = "refused" => Refusal(rep)
    <3> DEFINE res == result[c]
    <3> SUFFICES ASSUME res # NoResult,
                        res.via \in {"local", "4xx", "429"} \/ (res.ok /\ res.status = "rejected")
                 PROVE  Refusal(rep)
      BY OutcomeReads
    <3>1. LET lost == ToOrderResult("transport", "error")
          IN  lost.via = "transport" /\ ~lost.ok
      BY DEF ToOrderResult
    <3>2. res = ToOrderResult(rep.code, rep.body)
      BY <2>0, <3>1
    <3>3. rep.code # "local"
      <4>1. rep \in Replies \cup {NoReply}
        BY <1>1 DEF IInv, TypeOK
      <4> QED
        BY <4>1 DEF Replies, NoReply, Codes
    <3> QED
      BY <3>2, <3>3, ResultReads DEF Refusal
  <2>3. ASSUME Outcome(c) = "done" PROVE EffectsOf(c) # {}
    <3>1. PICK k \in 0..MaxSubmits - 1 : answer[<<r, k>>].took
      BY <1>1, <2>1, <2>3 DEF IInv, HonestReply
    <3>2. <<r, k>> \in EffectsOf(c)
      BY <1>1, <3>1 DEF EffectsOf, CallOf
    <3> QED
      BY <3>2
  <2>4. ASSUME Outcome(c) = "refused"
        PROVE  EffectsOf(c) = {} /\ \A s \in transit : CallOf(s) # c
    <3>1. \A k \in 0..MaxSubmits - 1 : <<r, k>> \notin transit /\ ~answer[<<r, k>>].took
      BY <1>1, <2>2, <2>4 DEF IInv, HonestReply
    <3> QED
      BY <1>2, <1>3, <3>1 DEF EffectsOf
  <2> QED
    BY <2>3, <2>4
<1> QED
  BY <1>4, <1>5

\* The invariant makes refusals final and matches earned.
LEMMA OutcomesHonest == IInv => RefusedMeansNoEffect /\ MatchedMeansEffect
BY OutcomeHonest DEF RefusedMeansNoEffect, MatchedMeansEffect

\* A definite refusal is final: nothing of the order has taken effect, and no
\* submission of it is left that could.
THEOREM RefusalIsFinal == Spec => []RefusedMeansNoEffect
BY OutcomesHonest, Invariance, PTL

\* A result that reports a match was earned at the venue.
THEOREM MatchIsEarned == Spec => []MatchedMeansEffect
BY OutcomesHonest, Invariance, PTL

\* The API key is re-derived for an order only after two answers of 401.
THEOREM RefreshIsLate == Spec => []RefreshAfterTwo401s
<1>1. IInv => RefreshAfterTwo401s
  <2> SUFFICES ASSUME IInv, NEW r \in Reqs, handler[r] = "refreshing"
               PROVE  \A k \in {0, 1} : answer[<<r, k>>].reply = "401"
    BY DEF RefreshAfterTwo401s
  <2>1. 0 \in 0..MaxSubmits - 1
    BY DEF MaxSubmits
  <2>2. attempt[r] = 1 /\ answer[<<r, 1>>].reply = "401"
    BY <2>1 DEF IInv, OneAtATime
  <2>3. answer[<<r, 0>>].reply = "401"
    BY <2>1, <2>2 DEF IInv, OneAtATime
  <2> QED
    BY <2>2, <2>3
<1> QED
  BY <1>1, Invariance, PTL

-----------------------------------------------------------------------------
(* The path implements the abstract order call.                            *)

\* Initial states map to initial states.
LEMMA RefinesInit == Init => Abstract!Init
<1> SUFFICES ASSUME Init PROVE Abstract!Init
  OBVIOUS
<1>1. \A c \in Calls : Outcome(c) = "new"
  BY DEF Init, Outcome
<1>2. \A c \in Calls : EffectsOf(c) = {}
  BY DEF Init, EffectsOf, NoAnswer
<1> QED
  BY <1>1, <1>2 DEF Abstract!Init

\* An outcome is read off the call's own order and result.
LEMMA OutcomeFrame ==
    ASSUME NEW c \in Calls, order'[c] = order[c], result'[c] = result[c]
    PROVE  Outcome(c)' = Outcome(c)
BY DEF Outcome

\* A step that changes no order, result or answer is invisible.
LEMMA Invisible ==
    ASSUME UNCHANGED <<order, result, answer>>
    PROVE  UNCHANGED Abstract!vars
BY DEF Abstract!vars, Outcome, EffectsOf

\* Where a call is, by its outcome.
LEMMA OutcomeStages ==
    ASSUME NEW c \in Calls
    PROVE  /\ Idle(c) => Outcome(c) = "new"
           /\ Waiting(c) => Outcome(c) = "pending"
           /\ Outcome(c) = "new" => order[c] = NoOrder
           /\ result[c] # NoResult => Outcome(c) \in {"done", "refused", "unknown"}
           /\ Outcome(c) \in {"new", "pending", "done", "refused", "unknown"}
BY DEF Outcome, Idle, Waiting

\* The beginning of a call is Begin or RefuseLocally of the abstract call.
LEMMA RefinesBegin ==
    ASSUME IInv, NEW c \in Calls,
           \/ \E res \in {Raised, LocalError} : EndLocally(c, res)
           \/ \E o \in Orders : Post(c, o)
    PROVE  Abstract!Next
<1>1. CASE \E res \in {Raised, LocalError} : EndLocally(c, res)
  <2>1. PICK res \in {Raised, LocalError} : EndLocally(c, res)
    BY <1>1
  <2>2. res # NoResult /\ res.via = "local" /\ res.status # "matched"
    BY DEF Raised, LocalError, NoResult
  <2>3. UNCHANGED <<order, answer>> /\ result' = [result EXCEPT ![c] = res]
    BY <2>1 DEF EndLocally, venueVars
  <2>4. Outcome(c) = "new"
    BY <2>1, OutcomeStages DEF EndLocally
  <2>5. Outcome(c)' = "refused"
    BY <2>2, <2>3 DEF Outcome, IInv, TypeOK
  <2>6. \A d \in Calls : d # c => Outcome(d)' = Outcome(d)
    BY <2>3, OutcomeFrame DEF IInv, TypeOK
  <2>7. \A d \in Calls : EffectsOf(d)' = EffectsOf(d)
    BY <2>3 DEF EffectsOf
  <2>8. Abstract!RefuseLocally(c)
    BY <2>4, <2>5, <2>6, <2>7 DEF Abstract!RefuseLocally
  <2> QED
    BY <2>8 DEF Abstract!Next
<1>2. CASE \E o \in Orders : Post(c, o)
  <2>1. PICK o \in Orders : Post(c, o)
    BY <1>2
  <2>2. o # NoOrder
    BY DEF Orders, NoOrder
  <2>3. /\ UNCHANGED <<result, answer>> /\ order' = [order EXCEPT ![c] = o]
        /\ result[c] = NoResult
    BY <2>1 DEF Post, Idle, venueVars
  <2>4. Outcome(c) = "new"
    BY <2>1, OutcomeStages DEF Post
  <2>5. Outcome(c)' = "pending"
    BY <2>2, <2>3 DEF Outcome, IInv, TypeOK
  <2>6. \A d \in Calls : d # c => Outcome(d)' = Outcome(d)
    BY <2>3, OutcomeFrame DEF IInv, TypeOK
  <2>7. \A d \in Calls : EffectsOf(d)' = EffectsOf(d)
    BY <2>3 DEF EffectsOf
  <2>8. Abstract!Begin(c)
    BY <2>4, <2>5, <2>6, <2>7 DEF Abstract!Begin
  <2> QED
    BY <2>8 DEF Abstract!Next
<1> QED
  BY <1>1, <1>2

\* The end of a call is Return of the abstract call.
LEMMA RefinesEnd ==
    ASSUME IInv, IInv', NEW c \in Calls, EndCall(c)
    PROVE  Abstract!Next
<1>1. Waiting(c)
  BY DEF EndCall, ReplyArrives, TransportError
<1>2. PICK code \in Codes \cup {"transport"}, body \in Bodies : Settle(c, code, body)
  <2>1. CASE TransportError(c)
    BY <2>1 DEF TransportError, Bodies
  <2>2. CASE ReplyArrives(c)
    <3>1. try[c] = 1
      BY <1>1 DEF Waiting, IInv, Posted
    <3>2. reply[<<c, 1>>] \in Replies
      BY <2>2, <3>1, Names DEF ReplyArrives, IInv, TypeOK
    <3> QED
      BY <2>2, <3>1, <3>2 DEF ReplyArrives, Replies
  <2> QED
    BY <2>1, <2>2 DEF EndCall
<1>3. /\ result' = [result EXCEPT ![c] = ToOrderResult(code, body)]
      /\ UNCHANGED <<order, answer>>
  BY <1>1, <1>2, SettleOnce DEF IInv, venueVars
<1>4. Outcome(c) = "pending"
  BY <1>1, OutcomeStages
<1>5. Outcome(c)' \in {"done", "refused", "unknown"}
  <2>1. result'[c] # NoResult
    BY <1>3, ToOrderResultType DEF IInv, TypeOK
  <2> QED
    BY <2>1 DEF Outcome
<1>6. \A d \in Calls : d # c => Outcome(d)' = Outcome(d)
  BY <1>3, OutcomeFrame DEF IInv, TypeOK
<1>7. \A d \in Calls : EffectsOf(d)' = EffectsOf(d)
  BY <1>3 DEF EffectsOf
<1>8. /\ Outcome(c)' = "done" => EffectsOf(c)' # {}
      /\ Outcome(c)' = "refused" => EffectsOf(c)' = {}
  <2>1. RefusedMeansNoEffect' /\ MatchedMeansEffect'
    BY OutcomesHonest, PTL
  <2> QED
    BY <2>1 DEF RefusedMeansNoEffect, MatchedMeansEffect
<1>9. Abstract!Return(c, Outcome(c)')
  BY <1>4, <1>6, <1>7, <1>8 DEF Abstract!Return
<1> QED
  BY <1>5, <1>9 DEF Abstract!Next

\* An answer of the venue is TakeEffect of the abstract call, or invisible.
LEMMA RefinesVenue ==
    ASSUME IInv, NEW s \in Subs, VenueAnswersTo(s)
    PROVE  [Abstract!Next]_Abstract!vars
<1> DEFINE c == CallOf(s)
<1>1. PICK a \in VenueAnswers : answer' = [answer EXCEPT ![s] = a]
  BY DEF VenueAnswersTo
<1>2. s \in transit /\ UNCHANGED <<order, result>>
  BY DEF VenueAnswersTo, clientVars
<1>3. PICK r \in Reqs, k \in 0..MaxSubmits - 1 : s = <<r, k>>
  BY Names DEF MaxSubmits
<1>4. c \in Calls /\ r = <<c, 1>>
  BY <1>3, Names DEF CallOf
<1>5. answer[s] = NoAnswer /\ handler[r] # "none"
  BY <1>2, <1>3 DEF IInv, Unread, OneAtATime
<1>6. EffectsOf(c) = {}
  <2> SUFFICES ASSUME NEW t \in EffectsOf(c) PROVE FALSE
    OBVIOUS
  <2>1. t = <<<<c, 1>>, attempt[<<c, 1>>]>>
    BY <1>4, EffectIsLast
  <2>2. ~(k < attempt[r])
    <3>1. answer[s].reply # "401"
      BY <1>5 DEF NoAnswer
    <3> QED
      BY <1>3, <3>1 DEF IInv, OneAtATime
  <2>3. ~(k > attempt[r])
    BY <1>2, <1>3 DEF IInv, OneAtATime
  <2>4. k = attempt[r]
    BY <2>2, <2>3 DEF IInv, TypeOK, MaxSubmits
  <2>5. t = s
    BY <1>3, <1>4, <2>1, <2>4
  <2> QED
    BY <1>5, <2>5 DEF EffectsOf, NoAnswer
<1>7. Outcome(c) \in {"pending", "unknown"}
  <2>1. Outcome(c) # "new"
    BY <1>4, <1>5, OutcomeStages DEF IInv, Posted
  <2>2. Outcome(c) # "done" /\ Outcome(c) # "refused"
    BY <1>2, <1>4, <1>6, OutcomeHonest
  <2> QED
    BY <1>4, <2>1, <2>2, OutcomeStages
<1>8. \A d \in Calls : Outcome(d)' = Outcome(d)
  BY <1>2, OutcomeFrame
<1>9. \A d \in Calls : d # c => EffectsOf(d)' = EffectsOf(d)
  BY <1>1 DEF EffectsOf, IInv, TypeOK
<1>10. EffectsOf(c)' = IF a.took THEN {s} ELSE {}
  BY <1>1, <1>6 DEF EffectsOf, IInv, TypeOK
<1>11. CASE a.took
  <2>1. Abstract!TakeEffect(c)
    BY <1>4, <1>6, <1>7, <1>8, <1>9, <1>10, <1>11 DEF Abstract!TakeEffect
  <2> QED
    BY <1>4, <2>1 DEF Abstract!Next
<1>12. CASE ~a.took
  BY <1>4, <1>6, <1>8, <1>9, <1>10, <1>12 DEF Abstract!vars
<1> QED
  BY <1>11, <1>12

\* Every step is a step of the abstract call or invisible.
LEMMA RefinesNext == IInv /\ IInv' /\ [Next]_vars => [Abstract!Next]_Abstract!vars
<1> SUFFICES ASSUME IInv, IInv', [Next]_vars PROVE [Abstract!Next]_Abstract!vars
  OBVIOUS
<1>1. ASSUME NEW c \in Calls, BeginCall(c) PROVE Abstract!Next
  BY <1>1, BeginCases, RefinesBegin
<1>2. ASSUME NEW c \in Calls, EndCall(c) PROVE Abstract!Next
  BY <1>2, RefinesEnd
<1>3. ASSUME NEW r \in Reqs, BridgeStep(r) PROVE UNCHANGED Abstract!vars
  <2>1. UNCHANGED <<order, result, answer>>
    BY <1>3 DEF BridgeStep, BridgeReceive, RetrySameCreds, StartRefresh,
       RefreshSucceeds, RefreshFails, SubmitReturns, SubmitBreaks,
       clientVars, venueVars
  <2> QED
    BY <2>1, Invisible
<1>4. ASSUME NEW s \in Subs, VenueAnswersTo(s) PROVE [Abstract!Next]_Abstract!vars
  BY <1>4, RefinesVenue
<1>5. ASSUME Crash \/ Restart \/ UNCHANGED vars PROVE UNCHANGED Abstract!vars
  <2>1. UNCHANGED <<order, result, answer>>
    BY <1>5 DEF Crash, Restart, vars, clientVars, venueVars
  <2> QED
    BY <2>1, Invisible
<1> QED
  BY <1>1, <1>2, <1>3, <1>4, <1>5 DEF Next, Progress

\* The client, the bridge and the venue together implement the abstract call.
THEOREM Refinement == Spec => ImplementsOrderCall
BY RefinesInit, RefinesNext, Invariance, PTL DEF Spec, ImplementsOrderCall, Abstract!Spec

-----------------------------------------------------------------------------
(* The handlers implement the loop.                                        *)

\* A handler whose state and current answer stay is where it was.
LEMMA StageFrame ==
    ASSUME NEW r, handler'[r] = handler[r],
           handler[r] = "submitting" =>
               /\ attempt'[r] = attempt[r]
               /\ answer'[<<r, attempt[r]>>] = answer[<<r, attempt[r]>>]
    PROVE  LoopStage(r)' = LoopStage(r)
BY DEF LoopStage

\* One handler may move along the loop, or end.
LEMMA LoopMove ==
    ASSUME NEW r \in Reqs,
           \A q \in Reqs : q # r => LoopStage(q)' = LoopStage(q),
           \/ LoopStage(r)' = LoopStage(r)
           \/ LoopStage(r)' = <<0, "idle">>
           \/ LoopStage(r) = <<0, "idle">> /\ LoopStage(r)' = <<1, "sent">>
           \/ \E n \in 1..3 : LoopStage(r) = <<n, "sent">> /\ LoopStage(r)' = <<n, "401">>
           \/ LoopStage(r) = <<1, "401">> /\ LoopStage(r)' = <<2, "sent">>
           \/ LoopStage(r) = <<2, "401">> /\ LoopStage(r)' = <<2, "refreshing">>
           \/ LoopStage(r) = <<2, "refreshing">> /\ LoopStage(r)' = <<3, "sent">>
    PROVE  [Loop!Next]_Loop!vars
<1> DEFINE st == [q \in Reqs |-> LoopStage(q)]
<1>1. st[r] = LoopStage(r) /\ st' = [st EXCEPT ![r] = LoopStage(r)']
  OBVIOUS
<1>2. CASE LoopStage(r)' = LoopStage(r)
  BY <1>1, <1>2 DEF Loop!vars
<1>3. CASE LoopStage(r)' = <<0, "idle">>
  <2>1. Loop!End(r)
    BY <1>1, <1>3 DEF Loop!End, Loop!Move, Loop!Idle
  <2> QED
    BY <2>1 DEF Loop!Next
<1>4. CASE LoopStage(r) = <<0, "idle">> /\ LoopStage(r)' = <<1, "sent">>
  <2>1. Loop!Submit(r)
    BY <1>1, <1>4 DEF Loop!Submit, Loop!Move, Loop!Idle
  <2> QED
    BY <2>1 DEF Loop!Next
<1>5. CASE \E n \in 1..3 : LoopStage(r) = <<n, "sent">> /\ LoopStage(r)' = <<n, "401">>
  <2>1. Loop!Reject(r)
    BY <1>1, <1>5 DEF Loop!Reject, Loop!Move
  <2> QED
    BY <2>1 DEF Loop!Next
<1>6. CASE LoopStage(r) = <<1, "401">> /\ LoopStage(r)' = <<2, "sent">>
  <2>1. Loop!SubmitAgain(r)
    BY <1>1, <1>6 DEF Loop!SubmitAgain, Loop!Move
  <2> QED
    BY <2>1 DEF Loop!Next
<1>7. CASE LoopStage(r) = <<2, "401">> /\ LoopStage(r)' = <<2, "refreshing">>
  <2>1. Loop!Refresh(r)
    BY <1>1, <1>7 DEF Loop!Refresh, Loop!Move
  <2> QED
    BY <2>1 DEF Loop!Next
<1>8. CASE LoopStage(r) = <<2, "refreshing">> /\ LoopStage(r)' = <<3, "sent">>
  <2>1. Loop!SubmitLast(r)
    BY <1>1, <1>8 DEF Loop!SubmitLast, Loop!Move
  <2> QED
    BY <2>1 DEF Loop!Next
<1> QED
  BY <1>2, <1>3, <1>4, <1>5, <1>6, <1>7, <1>8

\* What the invariant says of a handler and its submission k.
LEMMA LoopFacts ==
    ASSUME IInv, NEW r \in Reqs, NEW k \in 0..2
    PROVE  /\ attempt[r] \in 0..2 /\ <<r, k>> \in Subs
           /\ <<r, k>> \in transit => answer[<<r, k>>] = NoAnswer
           /\ k > attempt[r] => answer[<<r, k>>] = NoAnswer
           /\ handler[r] = "none" => answer[<<r, k>>] = NoAnswer
           /\ handler[r] = "refreshing" => attempt[r] = 1
<1>1. 0..MaxSubmits - 1 = 0..2
  BY DEF MaxSubmits
<1>2. attempt[r] \in 0..2 /\ <<r, k>> \in Subs
  BY <1>1 DEF IInv, TypeOK, Subs
<1>3. /\ <<r, k>> \in transit => answer[<<r, k>>] = NoAnswer
      /\ k > attempt[r] => answer[<<r, k>>] = NoAnswer
      /\ handler[r] = "refreshing" => attempt[r] = 1
  BY <1>1 DEF IInv, OneAtATime
<1>4. handler[r] = "none" => answer[<<r, k>>] = NoAnswer
  BY <1>1 DEF IInv, Unread
<1> QED
  BY <1>2, <1>3, <1>4

\* A turn of one handler is a step along the loop.
LEMMA BridgeStepLoops ==
    ASSUME IInv, NEW r \in Reqs, BridgeStep(r)
    PROVE  [Loop!Next]_Loop!vars
<1>0. 0 \in 0..2 /\ 1 \in 0..2 /\ 2 \in 0..2
  OBVIOUS
<1>1. /\ handler \in [Reqs -> {"none", "submitting", "refreshing", "closed"}]
      /\ attempt \in [Reqs -> 0..2]
  BY DEF IInv, TypeOK, MaxSubmits
<1>2. answer' = answer
  BY DEF BridgeStep, BridgeReceive, RetrySameCreds, StartRefresh, RefreshSucceeds,
     RefreshFails, SubmitReturns, SubmitBreaks, venueVars
\* A submission with counter k that has no answer yet.
<1>3. ASSUME NEW k \in 0..2, Submit(r, k), answer[<<r, k>>] = NoAnswer,
             handler' = [handler EXCEPT ![r] = "submitting"] \/
                 (handler' = handler /\ handler[r] = "submitting")
      PROVE  /\ LoopStage(r)' = <<k + 1, "sent">>
             /\ \A q \in Reqs : q # r => LoopStage(q)' = LoopStage(q)
  <2>1. handler'[r] = "submitting" /\ attempt'[r] = k
    BY <1>1, <1>3 DEF Submit
  <2>2. LoopStage(r)' = <<k + 1, "sent">>
    BY <1>2, <1>3, <2>1 DEF LoopStage, NoAnswer
  <2>3. \A q \in Reqs : q # r => handler'[q] = handler[q] /\ attempt'[q] = attempt[q]
    BY <1>1, <1>3 DEF Submit
  <2> QED
    BY <1>2, <2>2, <2>3, StageFrame
\* A response.
<1>4. ASSUME NEW rep, Respond(r, rep)
      PROVE  /\ LoopStage(r)' = <<0, "idle">>
             /\ \A q \in Reqs : q # r => LoopStage(q)' = LoopStage(q)
  <2>1. /\ handler'[r] = "closed" /\ attempt' = attempt
        /\ \A q \in Reqs : q # r => handler'[q] = handler[q]
    BY <1>1, <1>4 DEF Respond
  <2> QED
    BY <1>2, <2>1, StageFrame DEF LoopStage
<1>5. CASE BridgeReceive(r)
  <2>1. handler[r] = "none" /\ answer[<<r, 0>>] = NoAnswer
    <3>1. handler[r] = "none"
      BY <1>5 DEF BridgeReceive, IInv, Unread
    <3> QED
      BY <1>0, <3>1, LoopFacts
  <2>2. LoopStage(r) = <<0, "idle">>
    BY <2>1 DEF LoopStage
  <2>3. CASE \E rep : Respond(r, rep)
    BY <1>4, <2>3, LoopMove
  <2>4. CASE Submit(r, 0) /\ handler' = [handler EXCEPT ![r] = "submitting"]
    <3>1. LoopStage(r)' = <<0 + 1, "sent">>
      BY <1>3, <2>1, <2>4
    <3>2. \A q \in Reqs : q # r => LoopStage(q)' = LoopStage(q)
      BY <1>3, <2>1, <2>4
    <3> QED
      BY <2>2, <3>1, <3>2, LoopMove
  <2> QED
    BY <1>5, <2>3, <2>4 DEF BridgeReceive
<1>6. CASE RetrySameCreds(r)
  <2>1. handler[r] = "submitting" /\ attempt[r] = 0 /\ answer[<<r, 0>>].reply = "401"
    BY <1>6 DEF RetrySameCreds, Got401
  <2>2. answer[<<r, 1>>] = NoAnswer
    <3>1. 1 > attempt[r]
      BY <2>1
    <3> QED
      BY <1>0, <3>1, LoopFacts
  <2>3. LoopStage(r) = <<1, "401">>
    BY <2>1 DEF LoopStage
  <2>4. Submit(r, 1) /\ handler' = handler
    BY <1>6 DEF RetrySameCreds
  <2>5. LoopStage(r)' = <<1 + 1, "sent">>
    BY <1>3, <2>1, <2>2, <2>4
  <2>6. \A q \in Reqs : q # r => LoopStage(q)' = LoopStage(q)
    BY <1>3, <2>1, <2>2, <2>4
  <2> QED
    BY <2>3, <2>5, <2>6, LoopMove
<1>7. CASE StartRefresh(r)
  <2>1. handler[r] = "submitting" /\ attempt[r] = 1 /\ answer[<<r, 1>>].reply = "401"
    BY <1>7 DEF StartRefresh, Got401
  <2>2. LoopStage(r) = <<2, "401">>
    BY <2>1 DEF LoopStage
  <2>3. /\ handler'[r] = "refreshing" /\ attempt' = attempt
        /\ \A q \in Reqs : q # r => handler'[q] = handler[q]
    BY <1>1, <1>7 DEF StartRefresh
  <2>4. LoopStage(r)' = <<2, "refreshing">>
    BY <2>3 DEF LoopStage
  <2>5. \A q \in Reqs : q # r => LoopStage(q)' = LoopStage(q)
    BY <1>2, <2>3, StageFrame
  <2> QED
    BY <2>2, <2>4, <2>5, LoopMove
<1>8. CASE RefreshSucceeds(r)
  <2>1. handler[r] = "refreshing" /\ attempt[r] = 1
    BY <1>0, <1>8, LoopFacts DEF RefreshSucceeds
  <2>2. answer[<<r, 2>>] = NoAnswer
    <3>1. 2 > attempt[r]
      BY <2>1
    <3> QED
      BY <1>0, <3>1, LoopFacts
  <2>3. LoopStage(r) = <<2, "refreshing">>
    BY <2>1 DEF LoopStage
  <2>4. Submit(r, 2) /\ handler' = [handler EXCEPT ![r] = "submitting"]
    BY <1>8 DEF RefreshSucceeds
  <2>5. LoopStage(r)' = <<2 + 1, "sent">>
    BY <1>3, <2>2, <2>4
  <2>6. \A q \in Reqs : q # r => LoopStage(q)' = LoopStage(q)
    BY <1>3, <2>2, <2>4
  <2> QED
    BY <2>3, <2>5, <2>6, LoopMove
<1>9. CASE RefreshFails(r) \/ SubmitReturns(r) \/ SubmitBreaks(r)
  <2>1. \E rep : Respond(r, rep)
    BY <1>9 DEF RefreshFails, SubmitReturns, SubmitBreaks
  <2> QED
    BY <1>4, <2>1, LoopMove
<1> QED
  BY <1>5, <1>6, <1>7, <1>8, <1>9 DEF BridgeStep

\* An answer of the venue is a rejection of the current submission, or does not
\* matter to the loop.
LEMMA VenueLoops ==
    ASSUME IInv, NEW s \in Subs, VenueAnswersTo(s)
    PROVE  [Loop!Next]_Loop!vars
<1>1. s[1] \in Reqs /\ s[2] \in 0..2 /\ s = <<s[1], s[2]>>
  BY Names
<1> DEFINE r == s[1]
<1>2. /\ UNCHANGED <<handler, attempt>> /\ s \in transit
      /\ \A u \in Subs : u # s => answer'[u] = answer[u]
  BY DEF VenueAnswersTo, bridgeVars, IInv, TypeOK
<1>3. \A q \in Reqs : attempt[q] \in 0..2 /\ <<q, attempt[q]>> \in Subs
  <2> SUFFICES ASSUME NEW q \in Reqs
               PROVE  attempt[q] \in 0..2 /\ <<q, attempt[q]>> \in Subs
    OBVIOUS
  <2>1. attempt[q] \in 0..2
    BY DEF IInv, TypeOK, MaxSubmits
  <2> QED
    BY <2>1, LoopFacts
<1>4. \A q \in Reqs : q # r => LoopStage(q)' = LoopStage(q)
  <2> SUFFICES ASSUME NEW q \in Reqs, q # r PROVE LoopStage(q)' = LoopStage(q)
    OBVIOUS
  <2>1. <<q, attempt[q]>> # s
    BY <1>1
  <2>2. answer'[<<q, attempt[q]>>] = answer[<<q, attempt[q]>>]
    BY <1>2, <1>3, <2>1
  <2> QED
    BY <1>2, <2>2, StageFrame
<1>5. CASE handler[r] # "submitting" \/ s # <<r, attempt[r]>>
  <2>1. LoopStage(r)' = LoopStage(r)
    BY <1>1, <1>2, <1>3, <1>5, StageFrame
  <2> QED
    BY <1>1, <1>4, <2>1, LoopMove
<1>6. CASE handler[r] = "submitting" /\ s = <<r, attempt[r]>>
  <2>1. answer[<<r, attempt[r]>>] = NoAnswer
    <3>1. attempt[r] \in 0..2 /\ <<r, attempt[r]>> \in transit
      BY <1>1, <1>2, <1>3, <1>6
    <3> QED
      BY <1>1, <3>1, LoopFacts
  <2>2. LoopStage(r) = <<attempt[r] + 1, "sent">>
    BY <1>6, <2>1 DEF LoopStage, NoAnswer
  <2>3. LoopStage(r)' \in {<<attempt[r] + 1, "sent">>, <<attempt[r] + 1, "401">>}
    BY <1>2, <1>6 DEF LoopStage
  <2>4. attempt[r] + 1 \in 1..3
    <3>1. attempt[r] \in 0..2
      BY <1>1, <1>3
    <3> QED
      BY <3>1
  <2> QED
    BY <1>1, <1>4, <2>2, <2>3, <2>4, LoopMove
<1> QED
  BY <1>5, <1>6

\* The submissions of every handler follow the loop of submitWithAuthRetry, for
\* any number of handlers, whatever the client, the venue and the process do.
THEOREM LoopRefinement == Spec => ImplementsAuthRetry
<1>1. Init => Loop!Init
  BY DEF Init, Loop!Init, Loop!Idle, LoopStage
<1>2. IInv /\ [Next]_vars => [Loop!Next]_Loop!vars
  <2> SUFFICES ASSUME IInv, [Next]_vars PROVE [Loop!Next]_Loop!vars
    OBVIOUS
  <2>1. ASSUME UNCHANGED <<handler, attempt, answer>> PROVE UNCHANGED Loop!vars
    BY <2>1 DEF Loop!vars, LoopStage
  <2>2. ASSUME NEW c \in Calls, BeginCall(c) PROVE UNCHANGED <<handler, attempt, answer>>
    BY <2>2, BeginCases DEF EndLocally, Post, bridgeVars, venueVars
  <2>3. ASSUME NEW c \in Calls, EndCall(c) PROVE UNCHANGED <<handler, attempt, answer>>
    BY <2>3 DEF EndCall, ReplyArrives, TransportError, Settle, bridgeVars, venueVars
  <2>4. CASE Restart \/ UNCHANGED vars
    BY <2>1, <2>4 DEF Restart, vars, bridgeVars, venueVars
  <2>5. CASE Crash
    <3>1. \A r \in Reqs : LoopStage(r)' = <<0, "idle">>
      BY <2>5 DEF Crash, LoopStage
    <3>2. Loop!Die
      BY <3>1 DEF Loop!Die, Loop!Idle
    <3> QED
      BY <3>2 DEF Loop!Next
  <2> QED
    BY <2>1, <2>2, <2>3, <2>4, <2>5, BridgeStepLoops, VenueLoops DEF Next, Progress
<1> QED
  BY <1>1, <1>2, Invariance, PTL DEF Spec, ImplementsAuthRetry, Loop!Spec
=============================================================================

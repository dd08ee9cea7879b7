------------------------------- MODULE ReadPath -------------------------------
(***************************************************************************)
(* The reads of the client: verify_conn_health, verify_balance, and the    *)
(* quotes (get_market, get_order_book, get_price).  Each is one GET, health*)
(* is two in a row; a GET is retried by request_with_retry.  Reads go      *)
(* through a pool of HTTP connections that a trader has made for itself or *)
(* has borrowed from the program, and that may be closed at any moment.    *)
(* Meanwhile the bridge stops and starts, it loses and finds the venue,    *)
(* and the value that is read changes.                                     *)
(***************************************************************************)
EXTENDS HttpRetry

CONSTANTS Reads,       \* the reads, each made once
          Traders,     \* PolyTrader objects
          Values,      \* what a read can find: a balance, a book, a market
          Shared,      \* the pool the program injects
          MaxRetries   \* config.max_retries

ASSUME ReadPathAssumption ==
    /\ MaxRetries \in Nat
    /\ Shared \notin Traders
    /\ Values \cap {"none", "null", "junk"} = {}

VARIABLES pool,      \* [Traders -> the pool it uses: its own, named after it, or Shared]
          open,      \* pools that are open
          closed,    \* traders whose close() was called, and Shared once the program closed it
          op,        \* [Reads -> which method]
          by,        \* [Reads -> whose method]
          get,       \* [Reads -> the GET in progress]
          phase,     \* [Reads -> where that GET is]
          try,       \* [Reads -> attempts sent of that GET]
          reply,     \* [Reads -> the answer to the attempt in flight]
          result,    \* [Reads -> what the method returned]
          serving,   \* is the bridge up?
          reach,     \* does the bridge reach the venue?
          truth,     \* the value at the venue
          was        \* history: [Reads -> what was alive since the read began]

poolVars == <<pool, open, closed>>
getVars  == <<get, phase, try, reply, result>>
callVars == <<op, by>>
worldVars == <<serving, reach, truth, was>>
vars == <<poolVars, callVars, getVars, worldVars>>

Ops     == {"health", "balance", "quote"}
Gets    == {"healthz", "balance", "quote"}
Pools   == Traders \cup {Shared}
Replies == [code : Codes, body : Values \cup {"none", "null", "junk"}]
NoReply == [code |-> "none", body |-> "none"]
Broken  == [code |-> "transport", body |-> "none"]   \* an httpx.HTTPError
Refused == [code |-> "closed", body |-> "none"]      \* httpx's RuntimeError
Budget  == Attempts(MaxRetries)

(***************************************************************************)
(* What a method returns.  ok: the last GET gave a usable value; bridge:   *)
(* bridge_ok of a HealthStatus; raised: the method raised; why: how the    *)
(* last GET ended.                                                         *)
(***************************************************************************)
Results  == [ok : BOOLEAN, bridge : BOOLEAN, raised : BOOLEAN,
             value : Values \cup {"none"}, why : Codes \cup {"transport", "closed"}]
NoResult == [ok |-> FALSE, bridge |-> FALSE, raised |-> FALSE,
             value |-> "none", why |-> "none"]

Active(r)   == phase[r] \in {"ready", "flight"}
IsOpen(r)   == pool[by[r]] \in open
\* What is alive now: the bridge, and the venue seen through it.
Alive(s, c) == (IF s THEN {"bridge"} ELSE {}) \cup (IF s /\ c THEN {"clob"} ELSE {})

\* PolyTrader.__init__ of every trader, with or without an injected client.
Init ==
    /\ pool \in [Traders -> Pools]
    /\ \A t \in Traders : pool[t] \in {t, Shared}
    /\ open    = Pools
    /\ closed  = {}
    /\ op      = [r \in Reads |-> "none"]
    /\ by      \in [Reads -> Traders]
    /\ get     = [r \in Reads |-> "none"]
    /\ phase   = [r \in Reads |-> "idle"]
    /\ try     = [r \in Reads |-> 0]
    /\ reply   = [r \in Reads |-> NoReply]
    /\ result  = [r \in Reads |-> NoResult]
    /\ serving \in BOOLEAN
    /\ reach   \in BOOLEAN
    /\ truth   \in Values
    /\ was     = [r \in Reads |-> {}]

-----------------------------------------------------------------------------
(* Pools. *)

\* Mutation: close() closes the pool whoever made it.
CloseWithoutAsking(t) ==
    /\ t \notin closed
    /\ closed' = closed \cup {t}
    /\ open' = open \ {pool[t]}
    /\ UNCHANGED <<pool, callVars, getVars, worldVars>>

\* close(), also at the end of "async with"; closing the BridgeClient does
\* nothing, since it always borrows.
Close(t) ==
    /\ t \notin closed
    /\ closed' = closed \cup {t}
    /\ open' = IF pool[t] = t THEN open \ {t} ELSE open
    /\ UNCHANGED <<pool, callVars, getVars, worldVars>>

\* The program closes the pool it has lent.
ProgramCloses ==
    /\ Shared \notin closed
    /\ closed' = closed \cup {Shared}
    /\ open' = open \ {Shared}
    /\ UNCHANGED <<pool, callVars, getVars, worldVars>>

-----------------------------------------------------------------------------
(* A read. *)

Begin(r, what) ==
    /\ phase[r] = "idle"
    /\ op' = [op EXCEPT ![r] = what]
    /\ get' = [get EXCEPT ![r] = IF what = "health" THEN "healthz" ELSE what]
    /\ phase' = [phase EXCEPT ![r] = "ready"]
    /\ was' = [was EXCEPT ![r] = Alive(serving, reach)]
    /\ UNCHANGED <<poolVars, by, try, reply, result, serving, reach, truth>>

\* Mutation: the CLOB counts as reachable unless it says no.
ReportHopefully(what, g, end) ==
    LET usable == end.code \in {"200", "transport"} /\ end.body # "null"
    IN  [ok     |-> usable,
         bridge |-> what = "health" /\ g = "balance",
         raised |-> what = "quote" /\ end.code = "closed",
         value  |-> IF usable /\ what # "health" THEN end.body ELSE "none",
         why    |-> end.code]

(***************************************************************************)
(* What the method makes of the end of its last GET.  verify_balance and   *)
(* verify_conn_health catch every exception; the fetches of markets.py     *)
(* catch httpx.HTTPError and ValueError, and the error of a closed pool is *)
(* neither.                                                                *)
(***************************************************************************)
Report(what, g, end) ==
    LET usable == end.code = "200" /\ end.body \in Values
    IN  [ok     |-> usable,
         bridge |-> what = "health" /\ g = "balance",
         raised |-> what = "quote" /\ end.code = "closed",
         value  |-> IF usable /\ what # "health" THEN end.body ELSE "none",
         why    |-> end.code]

\* Mutation: health goes on to the second probe from every probe.
ConcludeByOp(r, end) ==
    IF op[r] = "health" /\ end.code = "200" /\ end.body # "junk"
    THEN /\ get' = [get EXCEPT ![r] = "balance"]
         /\ phase' = [phase EXCEPT ![r] = "ready"]
         /\ try' = [try EXCEPT ![r] = 0]
         /\ UNCHANGED result
    ELSE /\ phase' = [phase EXCEPT ![r] = "done"]
         /\ result' = [result EXCEPT ![r] = Report(op[r], get[r], end)]
         /\ UNCHANGED <<get, try>>

\* A GET has ended: health goes on to its second probe once the first has
\* given any JSON, everything else returns.
Conclude(r, end) ==
    IF get[r] = "healthz" /\ end.code = "200" /\ end.body # "junk"
    THEN /\ get' = [get EXCEPT ![r] = "balance"]
         /\ phase' = [phase EXCEPT ![r] = "ready"]
         /\ try' = [try EXCEPT ![r] = 0]
         /\ UNCHANGED result
    ELSE /\ phase' = [phase EXCEPT ![r] = "done"]
         /\ result' = [result EXCEPT ![r] = Report(op[r], get[r], end)]
         /\ UNCHANGED <<get, try>>

\* client.get: a new attempt, at once or after the backoff.
Send(r) ==
    /\ phase[r] = "ready"
    /\ IF IsOpen(r)
       THEN /\ phase' = [phase EXCEPT ![r] = "flight"]
            /\ try' = [try EXCEPT ![r] = @ + 1]
            /\ UNCHANGED <<get, result>>
       ELSE Conclude(r, Refused)
    /\ UNCHANGED <<poolVars, callVars, reply, worldVars>>

\* The loop of request_with_retry after an attempt.
AfterAttempt(r, end) ==
    /\ IF Retries(end.code, try[r] - 1, Budget)
       THEN /\ phase' = [phase EXCEPT ![r] = "ready"]
            /\ UNCHANGED <<get, try, result>>
       ELSE Conclude(r, end)
    /\ reply' = [reply EXCEPT ![r] = NoReply]
    /\ UNCHANGED <<poolVars, callVars, worldVars>>

\* Mutation: a read whose answer does not come is answered from what is at
\* hand, true or not.
ReceiveCached(r) ==
    /\ phase[r] = "flight"
    /\ \E v \in Values : AfterAttempt(r, [code |-> "200", body |-> v])

Receive(r) ==
    /\ phase[r] = "flight"
    /\ reply[r] # NoReply
    /\ AfterAttempt(r, reply[r])

\* Mutation: the connection may hang for ever.
BreakWithoutTimeout(r) ==
    /\ phase[r] = "flight"
    /\ ~IsOpen(r)
    /\ AfterAttempt(r, Broken)

\* A timeout, a lost connection, or the pool closed under the request.
Break(r) ==
    /\ phase[r] = "flight"
    /\ AfterAttempt(r, Broken)

-----------------------------------------------------------------------------
(* The other side. *)

(***************************************************************************)
(* Answers to a GET now.  Whatever stands in front of the server may give  *)
(* an error or a page that is not JSON; "null" is JSON without a usable    *)
(* value.                                                                  *)
(***************************************************************************)
Answers(g) ==
    LET ok(bodies) == [code : {"200"}, body : bodies]
    IN  [code : Codes \ {"200"}, body : {"none"}] \cup ok({"junk"})
        \cup (IF g = "healthz" /\ serving THEN ok({"null"}) ELSE {})
        \cup (IF g = "quote" \/ (g = "balance" /\ serving /\ reach)
              THEN ok({truth, "null"}) ELSE {})

Answer(r) ==
    /\ phase[r] = "flight"
    /\ reply[r] = NoReply
    /\ \E a \in Answers(get[r]) : reply' = [reply EXCEPT ![r] = a]
    /\ UNCHANGED <<poolVars, callVars, get, phase, try, result, worldVars>>

\* The bridge stops or starts, the venue is lost or found, its value changes.
World ==
    /\ serving' \in BOOLEAN /\ reach' \in BOOLEAN /\ truth' \in Values
    /\ was' = [r \in Reads |-> IF Active(r) THEN was[r] \cup Alive(serving', reach')
                               ELSE was[r]]
    /\ UNCHANGED <<poolVars, callVars, getVars>>

ReadStep(r) == Send(r) \/ Receive(r) \/ Break(r)

Next ==
    \/ \E t \in Traders : Close(t)
    \/ ProgramCloses
    \/ \E r \in Reads, what \in Ops : Begin(r, what)
    \/ \E r \in Reads : Send(r) \/ Receive(r) \/ Break(r) \/ Answer(r)
    \/ World

Spec == Init /\ [][Next]_vars

\* asyncio runs a task that can run, and every request carries a timeout.
FairSpec == Spec /\ \A r \in Reads : WF_vars(ReadStep(r))

-----------------------------------------------------------------------------
(* Properties. *)

\* Types, with the bound on the attempts of a GET: max_retries + 1.
TypeOK ==
    /\ pool \in [Traders -> Pools] /\ open \subseteq Pools /\ closed \subseteq Pools
    /\ op \in [Reads -> Ops \cup {"none"}]
    /\ by \in [Reads -> Traders]
    /\ get \in [Reads -> Gets \cup {"none"}]
    /\ phase \in [Reads -> {"idle", "ready", "flight", "done"}]
    /\ try \in [Reads -> 0..Budget]
    /\ reply \in [Reads -> Replies \cup {NoReply}]
    /\ result \in [Reads -> Results \cup {NoResult}]
    /\ serving \in BOOLEAN /\ reach \in BOOLEAN /\ truth \in Values
    /\ was \in [Reads -> SUBSET {"bridge", "clob"}]

\* A read gives up on a failure that may pass only when its budget is spent
\* (_http.py:58-60), whichever of its GETs failed.
NoEarlyGiveUp ==
    \A r \in Reads : Transient(result[r].why) => try[r] = Budget

\* verify_conn_health: bridge_ok means the bridge was up, and ok that it
\* reached the venue, at some moment of this call; not that both still hold,
\* nor that they held together.
HealthWasTrue ==
    \A r \in Reads : op[r] = "health" =>
        /\ result[r].bridge => "bridge" \in was[r]
        /\ result[r].ok => result[r].bridge /\ "clob" \in was[r]

\* A read meets a closed pool only if its own trader or the owner of the pool
\* was closed: closing one trader never disturbs another one that shares its
\* pool (client.py:85-89).
OthersUndisturbed ==
    \A r \in Reads : result[r].why = "closed" => {by[r], pool[by[r]]} \cap closed # {}

\* Every read returns (README, Reliability: "bounded backoff").
ReadsReturn == \A r \in Reads : (phase[r] = "ready") ~> (phase[r] = "done")

\* The steps a read has ahead of it at most: the attempts that its GET has left,
\* and those of the second probe of health.
StepsLeft(r) ==
    LET here == 2 * (Budget - try[r]) + (IF phase[r] = "flight" THEN 2 ELSE 1)
        then == IF get[r] = "healthz" THEN 2 * Budget + 1 ELSE 0
    IN  IF Active(r) THEN here + then ELSE 0

\* Whatever the bridge answers and whoever closes a pool, a read never goes back:
\* one GET after the other, one attempt after the other, each within the budget.
ReadsAdvance ==
    [][\A r \in Reads :
           <<get[r], phase[r], try[r]>>' # <<get[r], phase[r], try[r]>> =>
               phase[r] = "idle" \/ StepsLeft(r)' < StepsLeft(r)]_vars

\* Refinement: a balance or quote that is returned was the true one at some
\* moment of the call, whatever was lost, late or retried.
stageOf == [r \in Reads |-> IF phase[r] = "idle" THEN "idle"
                            ELSE IF phase[r] = "done" THEN "returned" ELSE "open"]
gotOf == [r \in Reads |-> {reply[r].body, result[r].value} \cap Values]

Atomic == INSTANCE AtomicRead WITH stage <- stageOf, got <- gotOf
ImplementsAtomicRead == Atomic!Spec
=============================================================================

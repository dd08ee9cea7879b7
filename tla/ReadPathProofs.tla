---------------------------- MODULE ReadPathProofs ----------------------------
(***************************************************************************)
(* Safety of the reads, for any set of reads, traders and values and any   *)
(* number of retries, and the refinement of AtomicRead.                    *)
(***************************************************************************)
EXTENDS ReadPath, TLAPS

-----------------------------------------------------------------------------
(* The inductive invariant. *)

\* The parts of a read fit the phase it is in.
Placed(r) ==
    /\ phase[r] # "done" => result[r] = NoResult
    /\ phase[r] # "flight" => reply[r] = NoReply
    /\ phase[r] = "ready" => try[r] < Budget
    /\ phase[r] = "flight" => try[r] > 0
    /\ phase[r] = "idle" => try[r] = 0
    /\ Active(r) => /\ op[r] = "health" => get[r] \in {"healthz", "balance"}
                    /\ op[r] # "health" => get[r] = op[r] /\ op[r] \in Ops

\* What an answer shows has been so since the read began.
Seen(r) ==
    /\ Active(r) => Alive(serving, reach) \subseteq was[r]
    /\ Active(r) /\ op[r] = "health" /\ get[r] = "balance" => "bridge" \in was[r]
    /\ reply[r].code = "200" /\ reply[r].body # "junk" =>
           /\ get[r] = "healthz" => "bridge" \in was[r]
           /\ get[r] = "balance" => "clob" \in was[r]

\* The three safety properties, of one read.
Kept(r) ==
    /\ Transient(result[r].why) => try[r] = Budget
    /\ op[r] = "health" =>
           /\ result[r].bridge => "bridge" \in was[r]
           /\ result[r].ok => result[r].bridge /\ "clob" \in was[r]
    /\ result[r].why = "closed" => {by[r], pool[by[r]]} \cap closed # {}

\* A pool that is not open was closed by its owner.
ClosedByOwner == Pools \ open \subseteq closed

RInv == TypeOK /\ ClosedByOwner /\ \A r \in Reads : Placed(r) /\ Seen(r) /\ Kept(r)

-----------------------------------------------------------------------------
(* Facts about the data. *)

LEMMA BudgetType == Budget \in Nat /\ Budget >= 1
BY ReadPathAssumption DEF Budget, Attempts

\* The words that stand for an answer without a value are no values.
LEMMA WordsApart == "none" \notin Values /\ "null" \notin Values /\ "junk" \notin Values
BY ReadPathAssumption

\* How a GET can end.
Ends == Replies \cup {Broken, Refused}

LEMMA ReportType ==
    ASSUME NEW what \in Ops, NEW g \in Gets, NEW end \in Ends
    PROVE  /\ Report(what, g, end) \in Results
           /\ Report(what, g, end).why = end.code
           /\ Report(what, g, end).bridge = (what = "health" /\ g = "balance")
           /\ Report(what, g, end).ok = (end.code = "200" /\ end.body \in Values)
BY DEF Report, Results, Ends, Replies, Broken, Refused, Codes

-----------------------------------------------------------------------------
(* A step that concerns one read keeps the rest. *)

LEMMA OthersStay ==
    ASSUME RInv, NEW r \in Reads, TypeOK', Placed(r)', Seen(r)', Kept(r)',
           \A q \in Reads : q # r =>
               /\ get'[q] = get[q] /\ phase'[q] = phase[q] /\ try'[q] = try[q]
               /\ reply'[q] = reply[q] /\ result'[q] = result[q],
           UNCHANGED <<poolVars, callVars, worldVars>>
    PROVE  RInv'
<1>1. ASSUME NEW q \in Reads, q # r PROVE Placed(q)' /\ Seen(q)' /\ Kept(q)'
  <2>1. Placed(q) /\ Seen(q) /\ Kept(q)
    BY DEF RInv
  <2>2. /\ get'[q] = get[q] /\ phase'[q] = phase[q] /\ try'[q] = try[q]
        /\ reply'[q] = reply[q] /\ result'[q] = result[q]
    BY <1>1
  <2> QED
    BY <2>1, <2>2 DEF Placed, Seen, Kept, Active, poolVars, callVars, worldVars
<1> QED
  BY <1>1 DEF RInv, ClosedByOwner, poolVars

\* What must be known of the end of a GET for the read to go on from it.
Fair(r, end) ==
    /\ end \in Ends
    /\ Transient(end.code) => try[r] = Budget
    /\ end.code = "closed" => {by[r], pool[by[r]]} \cap closed # {}
    /\ end.code = "200" /\ end.body # "junk" =>
           /\ get[r] = "healthz" => "bridge" \in was[r]
           /\ get[r] = "balance" => "clob" \in was[r]

\* The read goes on from the end of a GET.
LEMMA ConcludeStep ==
    ASSUME RInv, NEW r \in Reads, NEW end, Fair(r, end), Active(r), Conclude(r, end),
           reply' = [reply EXCEPT ![r] = NoReply],
           UNCHANGED <<poolVars, callVars, worldVars>>
    PROVE  RInv'
<1>1. TypeOK /\ Placed(r) /\ Seen(r) /\ Kept(r)
  BY DEF RInv
<1>2. /\ op[r] \in Ops /\ get[r] \in Gets /\ try[r] \in 0..Budget
      /\ get[r] = "balance" \/ get[r] = "healthz" \/ get[r] = "quote"
  BY <1>1 DEF Placed, Active, Ops, Gets, TypeOK
<1>3. CASE get[r] = "healthz" /\ end.code = "200" /\ end.body # "junk"
  <2>1. /\ get' = [get EXCEPT ![r] = "balance"]
        /\ phase' = [phase EXCEPT ![r] = "ready"]
        /\ try' = [try EXCEPT ![r] = 0]
        /\ result' = result
    BY <1>3 DEF Conclude
  <2>2. \A q \in Reads : q # r =>
            /\ get'[q] = get[q] /\ phase'[q] = phase[q] /\ try'[q] = try[q]
            /\ reply'[q] = reply[q] /\ result'[q] = result[q]
    BY <1>1, <2>1 DEF TypeOK
  <2>3. TypeOK'
    BY <1>1, <2>1, BudgetType DEF TypeOK, poolVars, callVars, worldVars, Gets
  <2>4. Placed(r)' /\ Seen(r)' /\ Kept(r)'
    <3>1. op[r] = "health" /\ result[r] = NoResult /\ "bridge" \in was[r]
      BY <1>1, <1>3 DEF Placed, Active, Ops, Fair
    <3>2. /\ phase'[r] = "ready" /\ get'[r] = "balance" /\ try'[r] = 0
          /\ reply'[r] = NoReply /\ result'[r] = NoResult
      BY <1>1, <2>1, <3>1 DEF TypeOK
    <3>3. Placed(r)'
      BY <3>1, <3>2, BudgetType DEF Placed, Active, callVars
    <3>4. Seen(r)'
      BY <1>1, <3>1, <3>2 DEF Seen, Active, NoReply, callVars, worldVars
    <3>5. Kept(r)'
      BY <3>2 DEF Kept, NoResult, Transient
    <3> QED
      BY <3>3, <3>4, <3>5
  <2> QED
    BY <2>2, <2>3, <2>4, OthersStay
<1>4. CASE ~(get[r] = "healthz" /\ end.code = "200" /\ end.body # "junk")
  <2> DEFINE res == Report(op[r], get[r], end)
  <2>1. /\ phase' = [phase EXCEPT ![r] = "done"]
        /\ result' = [result EXCEPT ![r] = res]
        /\ get' = get /\ try' = try
    BY <1>4 DEF Conclude
  <2>2. \A q \in Reads : q # r =>
            /\ get'[q] = get[q] /\ phase'[q] = phase[q] /\ try'[q] = try[q]
            /\ reply'[q] = reply[q] /\ result'[q] = result[q]
    BY <1>1, <2>1 DEF TypeOK
  <2>3. /\ res \in Results /\ res.why = end.code
        /\ res.bridge = (op[r] = "health" /\ get[r] = "balance")
        /\ res.ok = (end.code = "200" /\ end.body \in Values)
    BY <1>2, ReportType DEF Fair
  <2>4. TypeOK'
    BY <1>1, <2>1, <2>3 DEF TypeOK, poolVars, callVars, worldVars
  <2>5. /\ phase'[r] = "done" /\ get'[r] = get[r] /\ try'[r] = try[r]
        /\ reply'[r] = NoReply /\ result'[r] = res
    BY <1>1, <2>1 DEF TypeOK
  <2>6. Placed(r)'
    BY <2>5 DEF Placed, Active
  <2>7. Seen(r)'
    BY <2>5 DEF Seen, Active, NoReply
  <2>8. Kept(r)'
    <3>1. res.ok /\ op[r] = "health" => get[r] = "balance"
      BY <1>1, <1>4, <2>3, WordsApart DEF Placed, Active
    <3> QED
      BY <1>1, <2>3, <2>5, <3>1, WordsApart DEF Kept, Fair, Seen, poolVars, callVars, worldVars
  <2> QED
    BY <2>2, <2>4, <2>6, <2>7, <2>8, OthersStay
<1> QED
  BY <1>3, <1>4

-----------------------------------------------------------------------------
(* The steps. *)

LEMMA InitRInv == Init => RInv
<1> SUFFICES ASSUME Init PROVE RInv
  OBVIOUS
<1>1. TypeOK
  BY BudgetType DEF Init, TypeOK, Pools, NoReply, NoResult
<1>2. ClosedByOwner
  BY DEF Init, ClosedByOwner
<1>3. \A r \in Reads : Placed(r) /\ Seen(r) /\ Kept(r)
  BY BudgetType DEF Init, Placed, Seen, Kept, Active, NoReply, NoResult, Transient
<1> QED
  BY <1>1, <1>2, <1>3 DEF RInv

\* The pools matter to no part but the last.
LEMMA PoolStep ==
    ASSUME RInv, closed' \subseteq Pools, closed \subseteq closed', open' \subseteq Pools,
           open \ open' \subseteq closed',
           UNCHANGED <<pool, callVars, getVars, worldVars>>
    PROVE  RInv'
<1>1. TypeOK'
  BY DEF RInv, TypeOK, callVars, getVars, worldVars
<1>2. ClosedByOwner'
  BY DEF RInv, ClosedByOwner
<1>3. ASSUME NEW r \in Reads PROVE Placed(r)' /\ Seen(r)' /\ Kept(r)'
  <2>1. Placed(r)' /\ Seen(r)'
    BY <1>3 DEF RInv, Placed, Seen, Active, callVars, getVars, worldVars
  <2>2. Kept(r)'
    BY <1>3 DEF RInv, Kept, callVars, getVars, worldVars
  <2> QED
    BY <2>1, <2>2
<1> QED
  BY <1>1, <1>2, <1>3 DEF RInv

LEMMA CloseRInv == ASSUME RInv, NEW t \in Traders, Close(t) PROVE RInv'
<1>1. t \in Pools /\ open \subseteq Pools /\ closed \subseteq Pools
  BY DEF RInv, TypeOK, Pools
<1>2. /\ closed' \subseteq Pools /\ closed \subseteq closed'
      /\ open' \subseteq Pools /\ open \ open' \subseteq closed'
      /\ UNCHANGED <<pool, callVars, getVars, worldVars>>
  BY <1>1 DEF Close
<1> QED
  BY <1>2, PoolStep

LEMMA ProgramClosesRInv == ASSUME RInv, ProgramCloses PROVE RInv'
<1>1. /\ closed' \subseteq Pools /\ closed \subseteq closed'
      /\ open' \subseteq Pools /\ open \ open' \subseteq closed'
      /\ UNCHANGED <<pool, callVars, getVars, worldVars>>
  BY DEF RInv, TypeOK, Pools, ProgramCloses
<1> QED
  BY <1>1, PoolStep

LEMMA BeginRInv ==
    ASSUME RInv, NEW r \in Reads, NEW what \in Ops, Begin(r, what)
    PROVE  RInv'
<1>1. TypeOK /\ Placed(r) /\ Kept(r)
  BY DEF RInv
<1>2. /\ phase'[r] = "ready" /\ op'[r] = what /\ was'[r] = Alive(serving, reach)
      /\ get'[r] = IF what = "health" THEN "healthz" ELSE what
      /\ try'[r] = 0 /\ reply'[r] = NoReply /\ result'[r] = NoResult
  BY <1>1 DEF Begin, TypeOK, Placed
<1>3. TypeOK'
  BY <1>1 DEF Begin, TypeOK, Ops, Gets, Alive, poolVars
<1>4. Placed(r)'
  BY <1>2, BudgetType DEF Placed, Active, Ops
<1>5. Seen(r)'
  BY <1>2 DEF Seen, Active, NoReply, Begin
<1>6. Kept(r)'
  BY <1>2 DEF Kept, NoResult, Transient
<1>7. ASSUME NEW q \in Reads, q # r PROVE Placed(q)' /\ Seen(q)' /\ Kept(q)'
  <2>1. Placed(q) /\ Seen(q) /\ Kept(q)
    BY DEF RInv
  <2>2. /\ phase'[q] = phase[q] /\ op'[q] = op[q] /\ was'[q] = was[q] /\ get'[q] = get[q]
        /\ UNCHANGED <<by, try, reply, result, pool, closed, serving, reach>>
    BY <1>1, <1>7 DEF Begin, TypeOK, poolVars
  <2> QED
    BY <2>1, <2>2 DEF Placed, Seen, Kept, Active
<1> QED
  BY <1>3, <1>4, <1>5, <1>6, <1>7 DEF RInv, ClosedByOwner, Begin, poolVars

LEMMA SendRInv == ASSUME RInv, NEW r \in Reads, Send(r) PROVE RInv'
<1>1. TypeOK /\ ClosedByOwner /\ Placed(r) /\ Seen(r) /\ Kept(r)
  BY DEF RInv
<1>2. CASE IsOpen(r)
  <2>1. /\ phase' = [phase EXCEPT ![r] = "flight"]
        /\ try' = [try EXCEPT ![r] = try[r] + 1]
        /\ get' = get /\ result' = result /\ reply' = reply
        /\ UNCHANGED <<poolVars, callVars, worldVars>>
    BY <1>2 DEF Send
  <2>2. \A q \in Reads : q # r =>
            /\ get'[q] = get[q] /\ phase'[q] = phase[q] /\ try'[q] = try[q]
            /\ reply'[q] = reply[q] /\ result'[q] = result[q]
    BY <1>1, <2>1 DEF TypeOK
  <2>3. /\ phase[r] = "ready" /\ reply[r] = NoReply /\ result[r] = NoResult
        /\ try[r] \in Nat /\ try[r] < Budget
    BY <1>1, BudgetType DEF Send, Placed, TypeOK
  <2>4. phase'[r] = "flight" /\ try'[r] = try[r] + 1
    BY <1>1, <2>1 DEF TypeOK
  <2>5. try[r] + 1 \in 0..Budget
    BY <2>3, BudgetType
  <2>6. TypeOK'
    BY <1>1, <2>1, <2>5 DEF TypeOK, poolVars, callVars, worldVars
  <2>7. Placed(r)'
    BY <1>1, <2>1, <2>3, <2>4 DEF Placed, Active, callVars
  <2>8. Seen(r)'
    BY <1>1, <2>1, <2>3, <2>4 DEF Seen, Active, callVars, worldVars
  <2>9. Kept(r)'
    BY <2>1, <2>3 DEF Kept, NoResult, Transient
  <2> QED
    BY <2>1, <2>2, <2>6, <2>7, <2>8, <2>9, OthersStay
<1>3. CASE ~IsOpen(r)
  <2>1. /\ Conclude(r, Refused) /\ UNCHANGED <<poolVars, callVars, worldVars>>
        /\ Active(r) /\ reply' = [reply EXCEPT ![r] = NoReply]
    BY <1>1, <1>3 DEF Send, Active, Placed, TypeOK
  <2>2. pool[by[r]] \in closed
    BY <1>1, <1>3 DEF IsOpen, ClosedByOwner, TypeOK
  <2>3. Fair(r, Refused)
    BY <2>2 DEF Fair, Ends, Refused, Transient
  <2> QED
    BY <2>1, <2>3, ConcludeStep
<1> QED
  BY <1>2, <1>3

\* The loop of request_with_retry, whatever the end of the attempt.
LEMMA AfterAttemptRInv ==
    ASSUME RInv, NEW r \in Reads, NEW end \in Replies \cup {Broken}, phase[r] = "flight",
           end.code = "200" /\ end.body # "junk" =>
               /\ get[r] = "healthz" => "bridge" \in was[r]
               /\ get[r] = "balance" => "clob" \in was[r],
           AfterAttempt(r, end)
    PROVE  RInv'
<1>1. TypeOK /\ Placed(r) /\ Seen(r) /\ Kept(r)
  BY DEF RInv
<1>2. reply' = [reply EXCEPT ![r] = NoReply] /\ UNCHANGED <<poolVars, callVars, worldVars>>
  BY DEF AfterAttempt
<1>3. try[r] \in Nat /\ try[r] > 0 /\ try[r] <= Budget
  BY <1>1, BudgetType DEF TypeOK, Placed
<1>4. CASE Retries(end.code, try[r] - 1, Budget)
  <2>1. /\ phase' = [phase EXCEPT ![r] = "ready"]
        /\ get' = get /\ result' = result /\ try' = try
    BY <1>4 DEF AfterAttempt
  <2>2. \A q \in Reads : q # r =>
            /\ get'[q] = get[q] /\ phase'[q] = phase[q] /\ try'[q] = try[q]
            /\ reply'[q] = reply[q] /\ result'[q] = result[q]
    BY <1>1, <1>2, <2>1 DEF TypeOK
  <2>3. try[r] < Budget /\ result[r] = NoResult
    BY <1>1, <1>3, <1>4, BudgetType DEF Retries, Placed
  <2>4. phase'[r] = "ready" /\ reply'[r] = NoReply
    BY <1>1, <1>2, <2>1 DEF TypeOK
  <2>5. TypeOK'
    BY <1>1, <1>2, <2>1 DEF TypeOK, poolVars, callVars, worldVars
  <2>6. Placed(r)'
    BY <1>1, <1>2, <2>1, <2>3, <2>4 DEF Placed, Active, callVars
  <2>7. Seen(r)'
    BY <1>1, <1>2, <2>1, <2>4 DEF Seen, Active, NoReply, callVars, worldVars
  <2>8. Kept(r)'
    BY <2>1, <2>3 DEF Kept, NoResult, Transient
  <2> QED
    BY <1>2, <2>2, <2>5, <2>6, <2>7, <2>8, OthersStay
<1>5. CASE ~Retries(end.code, try[r] - 1, Budget)
  <2>1. Conclude(r, end) /\ Active(r)
    BY <1>5 DEF AfterAttempt, Active
  <2>2. Transient(end.code) => try[r] = Budget
    BY <1>3, <1>5, BudgetType DEF Retries
  <2>3. end \in Ends /\ end.code # "closed"
    BY DEF Ends, Replies, Broken, Codes
  <2>4. Fair(r, end)
    BY <2>2, <2>3 DEF Fair
  <2> QED
    BY <1>2, <2>1, <2>4, ConcludeStep
<1> QED
  BY <1>4, <1>5

LEMMA ReceiveRInv == ASSUME RInv, NEW r \in Reads, Receive(r) PROVE RInv'
<1>1. reply[r] \in Replies /\ phase[r] = "flight" /\ AfterAttempt(r, reply[r])
  BY DEF Receive, RInv, TypeOK
<1>2. reply[r].code = "200" /\ reply[r].body # "junk" =>
          /\ get[r] = "healthz" => "bridge" \in was[r]
          /\ get[r] = "balance" => "clob" \in was[r]
  BY DEF RInv, Seen
<1> QED
  BY <1>1, <1>2, AfterAttemptRInv

LEMMA BreakRInv == ASSUME RInv, NEW r \in Reads, Break(r) PROVE RInv'
<1>1. Broken.code # "200" /\ phase[r] = "flight" /\ AfterAttempt(r, Broken)
  BY DEF Broken, Break
<1> QED
  BY <1>1, AfterAttemptRInv

\* What the other side can say, and what it shows.
LEMMA AnswerShows ==
    ASSUME truth \in Values, NEW g \in Gets, NEW a \in Answers(g)
    PROVE  /\ a \in Replies
           /\ a.body \in Values => a.body = truth
           /\ a.code = "200" /\ a.body # "junk" =>
                  /\ g = "healthz" => "bridge" \in Alive(serving, reach)
                  /\ g = "balance" => "clob" \in Alive(serving, reach)
<1>1. \/ a \in [code : Codes \ {"200"}, body : {"none"}]
      \/ a \in [code : {"200"}, body : {"junk"}]
      \/ g = "healthz" /\ serving /\ a \in [code : {"200"}, body : {"null"}]
      \/ /\ g = "quote" \/ (g = "balance" /\ serving /\ reach)
         /\ a \in [code : {"200"}, body : {truth, "null"}]
  BY DEF Answers
<1> QED
  BY <1>1, WordsApart DEF Replies, Codes, Alive

LEMMA AnswerRInv == ASSUME RInv, NEW r \in Reads, Answer(r) PROVE RInv'
<1>1. TypeOK /\ Placed(r) /\ Seen(r) /\ Kept(r)
  BY DEF RInv
<1>2. PICK a \in Answers(get[r]) : reply' = [reply EXCEPT ![r] = a]
  BY DEF Answer
<1>3. /\ phase[r] = "flight" /\ get[r] \in Gets
      /\ UNCHANGED <<poolVars, callVars, get, phase, try, result, worldVars>>
  BY <1>1 DEF Answer, Placed, Active, Ops, Gets
<1>4. /\ a \in Replies
      /\ a.code = "200" /\ a.body # "junk" =>
             /\ get[r] = "healthz" => "bridge" \in Alive(serving, reach)
             /\ get[r] = "balance" => "clob" \in Alive(serving, reach)
  BY <1>1, <1>3, AnswerShows DEF TypeOK
<1>5. reply'[r] = a
  BY <1>1, <1>2 DEF TypeOK
<1>6. TypeOK'
  BY <1>1, <1>2, <1>3, <1>4 DEF TypeOK, poolVars, callVars, worldVars
<1>7. Placed(r)' /\ Kept(r)'
  BY <1>1, <1>3 DEF Placed, Kept, Active, poolVars, callVars, worldVars
<1>8. Seen(r)'
  BY <1>1, <1>3, <1>4, <1>5 DEF Seen, Active, callVars, worldVars
<1>9. \A q \in Reads : q # r =>
          /\ get'[q] = get[q] /\ phase'[q] = phase[q] /\ try'[q] = try[q]
          /\ reply'[q] = reply[q] /\ result'[q] = result[q]
  BY <1>1, <1>2, <1>3 DEF TypeOK
<1> QED
  BY <1>3, <1>6, <1>7, <1>8, <1>9, OthersStay

LEMMA WorldRInv == ASSUME RInv, World PROVE RInv'
<1>1. UNCHANGED <<pool, open, closed, op, by, get, phase, try, reply, result>>
  BY DEF World, poolVars, callVars, getVars
<1>2. ASSUME NEW r \in Reads
      PROVE  /\ was'[r] = IF Active(r) THEN was[r] \cup Alive(serving', reach') ELSE was[r]
             /\ was[r] \subseteq was'[r] /\ was'[r] \subseteq {"bridge", "clob"}
  BY <1>2 DEF World, RInv, TypeOK, Alive
<1>3. was' \in [Reads -> SUBSET {"bridge", "clob"}]
  BY <1>2 DEF World
<1>4. TypeOK'
  BY <1>1, <1>3 DEF World, RInv, TypeOK
<1>5. ASSUME NEW r \in Reads PROVE Placed(r)' /\ Seen(r)' /\ Kept(r)'
  <2>1. Placed(r) /\ Seen(r) /\ Kept(r)
    BY DEF RInv
  <2>2. Placed(r)' /\ Kept(r)'
    BY <1>1, <1>2, <2>1 DEF Placed, Kept, Active
  <2>3. Seen(r)'
    BY <1>1, <1>2, <2>1 DEF Seen, Active
  <2> QED
    BY <2>2, <2>3
<1> QED
  BY <1>1, <1>4, <1>5 DEF RInv, ClosedByOwner

LEMMA StutterRInv == ASSUME RInv, UNCHANGED vars PROVE RInv'
BY DEF RInv, TypeOK, ClosedByOwner, Placed, Seen, Kept, Active, vars, poolVars, callVars,
       getVars, worldVars

\* Every step keeps the inductive invariant.
THEOREM RInvInductive == ASSUME RInv, [Next]_vars PROVE RInv'
<1>1. CASE \E t \in Traders : Close(t)
  BY <1>1, CloseRInv
<1>2. CASE ProgramCloses
  BY <1>2, ProgramClosesRInv
<1>3. CASE \E r \in Reads, what \in Ops : Begin(r, what)
  BY <1>3, BeginRInv
<1>4. CASE \E r \in Reads : Send(r) \/ Receive(r) \/ Break(r) \/ Answer(r)
  BY <1>4, SendRInv, ReceiveRInv, BreakRInv, AnswerRInv
<1>5. CASE World
  BY <1>5, WorldRInv
<1>6. CASE UNCHANGED vars
  BY <1>6, StutterRInv
<1> QED
  BY <1>1, <1>2, <1>3, <1>4, <1>5, <1>6 DEF Next

-----------------------------------------------------------------------------
(* The properties. *)

\* The inductive invariant holds in every reachable state.
THEOREM ReadInvariance == Spec => []RInv
BY InitRInv, RInvInductive, PTL DEF Spec

\* Types, with the bound on the attempts of a GET.
THEOREM ReadTypeCorrect == Spec => []TypeOK
<1>1. RInv => TypeOK
  BY DEF RInv
<1> QED
  BY <1>1, ReadInvariance, PTL

\* A read gives up on a failure that may pass only when its budget is spent.
THEOREM BudgetIsSpent == Spec => []NoEarlyGiveUp
<1>1. RInv => NoEarlyGiveUp
  BY DEF RInv, Kept, NoEarlyGiveUp
<1> QED
  BY <1>1, ReadInvariance, PTL

\* What verify_conn_health reports was so at some moment of the call.
THEOREM HealthIsHonest == Spec => []HealthWasTrue
<1>1. RInv => HealthWasTrue
  BY DEF RInv, Kept, HealthWasTrue
<1> QED
  BY <1>1, ReadInvariance, PTL

\* Closing one trader does not disturb another that shares its pool.
THEOREM SharedPoolSurvives == Spec => []OthersUndisturbed
<1>1. RInv => OthersUndisturbed
  BY DEF RInv, Kept, OthersUndisturbed
<1> QED
  BY <1>1, ReadInvariance, PTL

-----------------------------------------------------------------------------
(* The refinement of AtomicRead. *)

\* What a step that concerns one read does to the two abstract variables.
LEMMA OneView ==
    ASSUME NEW r \in Reads,
           \A q \in Reads : q # r =>
               phase'[q] = phase[q] /\ reply'[q] = reply[q] /\ result'[q] = result[q]
    PROVE  /\ stageOf' = [stageOf EXCEPT ![r] = stageOf'[r]]
           /\ gotOf' = [gotOf EXCEPT ![r] = gotOf'[r]]
BY DEF stageOf, gotOf

\* No read is concerned.
LEMMA NoView ==
    ASSUME UNCHANGED <<phase, reply, result>>
    PROVE  UNCHANGED <<stageOf, gotOf>>
BY DEF stageOf, gotOf

LEMMA InitRefines == Init => Atomic!Init
<1> SUFFICES ASSUME Init PROVE Atomic!Init
  OBVIOUS
<1>1. stageOf = [r \in Reads |-> "idle"]
  BY DEF Init, stageOf
<1>2. gotOf = [r \in Reads |-> {}]
  BY WordsApart DEF Init, gotOf, NoReply, NoResult
<1> QED
  BY <1>1, <1>2 DEF Init, Atomic!Init

LEMMA BeginRefines ==
    ASSUME RInv, NEW r \in Reads, NEW what \in Ops, Begin(r, what)
    PROVE  Atomic!Begin(r)
<1>1. TypeOK
  BY DEF RInv
<1>2. phase[r] = "idle" /\ phase' = [phase EXCEPT ![r] = "ready"]
  BY DEF Begin
<1>3. UNCHANGED <<reply, result, truth>>
  BY DEF Begin
<1>4. gotOf' = gotOf
  BY <1>3 DEF gotOf
<1>5. stageOf[r] = "idle" /\ stageOf'[r] = "open"
  BY <1>1, <1>2 DEF stageOf, TypeOK
<1>6. \A q \in Reads : q # r => phase'[q] = phase[q] /\ reply'[q] = reply[q] /\ result'[q] = result[q]
  BY <1>1, <1>2, <1>3 DEF TypeOK
<1>7. stageOf' = [stageOf EXCEPT ![r] = "open"]
  BY <1>5, <1>6, OneView
<1> QED
  BY <1>3, <1>4, <1>5, <1>7 DEF Atomic!Begin

\* At the end of an attempt the read forgets what it saw, or returns it.
LEMMA ConcludeRefines ==
    ASSUME RInv, NEW r \in Reads, NEW end \in Ends, Active(r), Conclude(r, end),
           end.body \in Values => end = reply[r],
           reply' = [reply EXCEPT ![r] = NoReply], UNCHANGED truth
    PROVE  Atomic!Forget(r) \/ Atomic!Return(r)
<1>1. TypeOK /\ Placed(r) /\ result[r] = NoResult
  BY DEF RInv, Placed, Active
<1>2. stageOf[r] = "open" /\ reply'[r] = NoReply
  BY <1>1 DEF stageOf, Active, TypeOK
<1>3. CASE get[r] = "healthz" /\ end.code = "200" /\ end.body # "junk"
  <2>1. phase' = [phase EXCEPT ![r] = "ready"] /\ result' = result
    BY <1>3 DEF Conclude
  <2>2. \A q \in Reads : q # r =>
            phase'[q] = phase[q] /\ reply'[q] = reply[q] /\ result'[q] = result[q]
    BY <1>1, <2>1 DEF TypeOK
  <2>3. stageOf[r] = "open" /\ stageOf'[r] = "open" /\ gotOf'[r] = {}
    BY <1>1, <1>2, <2>1, WordsApart DEF stageOf, gotOf, TypeOK, NoReply, NoResult
  <2>4. /\ stageOf' = [stageOf EXCEPT ![r] = "open"]
        /\ gotOf' = [gotOf EXCEPT ![r] = {}]
    BY <2>2, <2>3, OneView
  <2>5. stageOf' = stageOf
    BY <2>3, <2>4 DEF stageOf
  <2> QED
    BY <2>3, <2>4, <2>5 DEF Atomic!Forget
<1>4. CASE ~(get[r] = "healthz" /\ end.code = "200" /\ end.body # "junk")
  <2> DEFINE res == Report(op[r], get[r], end)
  <2>1. phase' = [phase EXCEPT ![r] = "done"] /\ result' = [result EXCEPT ![r] = res]
    BY <1>4 DEF Conclude
  <2>2. \A q \in Reads : q # r =>
            phase'[q] = phase[q] /\ reply'[q] = reply[q] /\ result'[q] = result[q]
    BY <1>1, <2>1 DEF TypeOK
  <2>3. res.value \in Values => res.value = end.body
    BY WordsApart DEF Report
  <2>4. stageOf'[r] = "returned" /\ result'[r] = res
    BY <1>1, <2>1 DEF stageOf, TypeOK
  <2>5. gotOf'[r] = {res.value} \cap Values
    BY <1>2, <2>4, WordsApart DEF gotOf, NoReply
  <2>6. gotOf[r] = {reply[r].body} \cap Values
    BY <1>1, WordsApart DEF gotOf, NoResult
  <2>7. gotOf'[r] = {} \/ gotOf'[r] = gotOf[r]
    BY <2>3, <2>5, <2>6
  <2>8. gotOf' \in {gotOf, [gotOf EXCEPT ![r] = {}]}
    BY <2>2, <2>7, OneView DEF gotOf
  <2>9. stageOf' = [stageOf EXCEPT ![r] = "returned"]
    BY <2>2, <2>4, OneView
  <2> QED
    BY <1>2, <2>8, <2>9 DEF Atomic!Return
<1> QED
  BY <1>3, <1>4

LEMMA SendRefines ==
    ASSUME RInv, NEW r \in Reads, Send(r)
    PROVE  Atomic!Forget(r) \/ Atomic!Return(r) \/ UNCHANGED Atomic!vars
<1>1. TypeOK /\ Placed(r) /\ phase[r] = "ready" /\ reply[r] = NoReply
  BY DEF RInv, Send, Placed
<1>2. CASE IsOpen(r)
  <2>1. phase' = [phase EXCEPT ![r] = "flight"] /\ UNCHANGED <<reply, result, truth>>
    BY <1>2 DEF Send, worldVars
  <2>2. UNCHANGED <<stageOf, gotOf>>
    BY <1>1, <2>1 DEF stageOf, gotOf, TypeOK
  <2> QED
    BY <2>1, <2>2 DEF Atomic!vars
<1>3. CASE ~IsOpen(r)
  <2>1. Conclude(r, Refused) /\ reply' = [reply EXCEPT ![r] = NoReply] /\ UNCHANGED truth
    BY <1>1, <1>3 DEF Send, worldVars, TypeOK
  <2>2. Refused \in Ends /\ Refused.body \notin Values /\ Active(r)
    BY <1>1, WordsApart DEF Ends, Refused, Active
  <2> QED
    BY <2>1, <2>2, ConcludeRefines
<1> QED
  BY <1>2, <1>3

LEMMA AfterAttemptRefines ==
    ASSUME RInv, NEW r \in Reads, NEW end \in Replies \cup {Broken}, phase[r] = "flight",
           end.body \in Values => end = reply[r],
           AfterAttempt(r, end)
    PROVE  Atomic!Forget(r) \/ Atomic!Return(r)
<1>1. TypeOK /\ Placed(r) /\ result[r] = NoResult /\ Active(r)
  BY DEF RInv, Placed, Active
<1>2. reply' = [reply EXCEPT ![r] = NoReply] /\ UNCHANGED truth
  BY DEF AfterAttempt, worldVars
<1>3. CASE Retries(end.code, try[r] - 1, Budget)
  <2>1. phase' = [phase EXCEPT ![r] = "ready"] /\ result' = result
    BY <1>3 DEF AfterAttempt
  <2>2. \A q \in Reads : q # r =>
            phase'[q] = phase[q] /\ reply'[q] = reply[q] /\ result'[q] = result[q]
    BY <1>1, <1>2, <2>1 DEF TypeOK
  <2>3. stageOf[r] = "open" /\ stageOf'[r] = "open" /\ gotOf'[r] = {}
    BY <1>1, <1>2, <2>1, WordsApart DEF stageOf, gotOf, TypeOK, NoReply, NoResult, Active
  <2>4. stageOf' = stageOf /\ gotOf' = [gotOf EXCEPT ![r] = {}]
    BY <2>2, <2>3, OneView DEF stageOf
  <2> QED
    BY <1>2, <2>3, <2>4 DEF Atomic!Forget
<1>4. CASE ~Retries(end.code, try[r] - 1, Budget)
  <2>1. Conclude(r, end) /\ end \in Ends
    BY <1>4 DEF AfterAttempt, Ends
  <2> QED
    BY <1>1, <1>2, <2>1, ConcludeRefines
<1> QED
  BY <1>3, <1>4

\* An answer looks at the value, or brings none.
LEMMA AnswerRefines ==
    ASSUME RInv, NEW r \in Reads, Answer(r)
    PROVE  Atomic!Look(r) \/ UNCHANGED Atomic!vars
<1>1. TypeOK /\ Placed(r) /\ result[r] = NoResult /\ reply[r] = NoReply
  BY DEF RInv, Answer, Placed
<1>2. PICK a \in Answers(get[r]) : reply' = [reply EXCEPT ![r] = a]
  BY DEF Answer
<1>3. phase[r] = "flight" /\ get[r] \in Gets /\ UNCHANGED <<phase, result, truth>>
  BY <1>1 DEF Answer, Placed, Active, Ops, Gets, worldVars
<1>4. a.body \in Values => a.body = truth
  BY <1>1, <1>3, AnswerShows DEF TypeOK
<1>5. \A q \in Reads : q # r => phase'[q] = phase[q] /\ reply'[q] = reply[q] /\ result'[q] = result[q]
  BY <1>1, <1>2, <1>3 DEF TypeOK
<1>6. stageOf' = stageOf /\ stageOf[r] = "open"
  BY <1>3 DEF stageOf
<1>7. gotOf[r] = {} /\ gotOf'[r] = {a.body} \cap Values
  BY <1>1, <1>2, <1>3, WordsApart DEF gotOf, NoReply, NoResult, TypeOK
<1>8. CASE a.body \in Values
  <2>1. gotOf' = [gotOf EXCEPT ![r] = {truth}]
    BY <1>4, <1>5, <1>7, <1>8, OneView
  <2> QED
    BY <1>3, <1>6, <2>1 DEF Atomic!Look
<1>9. CASE a.body \notin Values
  <2>1. gotOf' = gotOf
    BY <1>5, <1>7, <1>9, OneView DEF gotOf
  <2> QED
    BY <1>3, <1>6, <2>1 DEF Atomic!vars
<1> QED
  BY <1>8, <1>9

\* Every step is a step of AtomicRead or none.
LEMMA StepRefines ==
    ASSUME RInv, [Next]_vars
    PROVE  [Atomic!Next]_(Atomic!vars)
<1>1. CASE (\E t \in Traders : Close(t)) \/ ProgramCloses
  <2>1. UNCHANGED <<phase, reply, result, truth>>
    BY <1>1 DEF Close, ProgramCloses, getVars, worldVars
  <2> QED
    BY <2>1, NoView DEF Atomic!vars
<1>2. ASSUME NEW r \in Reads, NEW what \in Ops, Begin(r, what) PROVE Atomic!Next
  BY <1>2, BeginRefines DEF Atomic!Next
<1>3. ASSUME NEW r \in Reads, Send(r) PROVE [Atomic!Next]_(Atomic!vars)
  BY <1>3, SendRefines DEF Atomic!Next
<1>4. ASSUME NEW r \in Reads, Receive(r) PROVE Atomic!Next
  <2>1. reply[r] \in Replies /\ phase[r] = "flight" /\ AfterAttempt(r, reply[r])
    BY <1>4 DEF Receive, RInv, TypeOK
  <2> QED
    BY <2>1, AfterAttemptRefines DEF Atomic!Next
<1>5. ASSUME NEW r \in Reads, Break(r) PROVE Atomic!Next
  <2>1. phase[r] = "flight" /\ AfterAttempt(r, Broken) /\ Broken.body \notin Values
    BY <1>5, WordsApart DEF Break, Broken
  <2> QED
    BY <2>1, AfterAttemptRefines DEF Atomic!Next
<1>6. ASSUME NEW r \in Reads, Answer(r) PROVE [Atomic!Next]_(Atomic!vars)
  BY <1>6, AnswerRefines DEF Atomic!Next
<1>7. CASE World
  <2>1. UNCHANGED <<phase, reply, result>> /\ truth' \in Values
    BY <1>7 DEF World, getVars
  <2> QED
    BY <2>1, NoView DEF Atomic!Change, Atomic!Next
<1>8. CASE UNCHANGED vars
  <2>1. UNCHANGED <<phase, reply, result, truth>>
    BY <1>8 DEF vars, getVars, worldVars
  <2> QED
    BY <2>1, NoView DEF Atomic!vars
<1> QED
  BY <1>1, <1>2, <1>3, <1>4, <1>5, <1>6, <1>7, <1>8 DEF Next

\* A value that a read returns was true at some moment of the call.
THEOREM ReadRefinement == Spec => ImplementsAtomicRead
BY InitRefines, StepRefines, ReadInvariance, PTL DEF Spec, ImplementsAtomicRead, Atomic!Spec

-----------------------------------------------------------------------------
(* No read goes back. *)

\* The numbers behind StepsLeft, of a read that is not over.
LEMMA StepsLeftOf ==
    ASSUME TypeOK, NEW r \in Reads
    PROVE  /\ Budget \in Nat /\ try[r] \in 0..Budget
           /\ phase[r] = "ready" => StepsLeft(r) =
                  2 * (Budget - try[r]) + 1 + (IF get[r] = "healthz" THEN 2 * Budget + 1 ELSE 0)
           /\ phase[r] = "flight" => StepsLeft(r) =
                  2 * (Budget - try[r]) + 2 + (IF get[r] = "healthz" THEN 2 * Budget + 1 ELSE 0)
           /\ phase[r] = "done" => StepsLeft(r) = 0
BY BudgetType DEF TypeOK, StepsLeft, Active

\* The end of a GET is nearer to the end of the read.
LEMMA ConcludeAdvances ==
    ASSUME TypeOK, TypeOK', NEW r \in Reads, NEW end, Active(r), Conclude(r, end)
    PROVE  StepsLeft(r)' < StepsLeft(r)
<1>1. \/ phase[r] = "ready" \/ phase[r] = "flight"
  BY DEF Active
<1>2. CASE get[r] = "healthz" /\ end.code = "200" /\ end.body # "junk"
  <2>1. get'[r] = "balance" /\ phase'[r] = "ready" /\ try'[r] = 0
    BY <1>2 DEF Conclude, TypeOK
  <2>2. StepsLeft(r)' = 2 * Budget + 1
    BY <2>1, BudgetType DEF StepsLeft, Active
  <2>3. StepsLeft(r) > 2 * Budget + 1
    BY <1>1, <1>2, StepsLeftOf
  <2> QED
    BY <2>2, <2>3, BudgetType, StepsLeftOf
<1>3. CASE ~(get[r] = "healthz" /\ end.code = "200" /\ end.body # "junk")
  <2>1. phase'[r] = "done"
    BY <1>3 DEF Conclude, TypeOK
  <2>2. StepsLeft(r)' = 0
    BY <2>1 DEF StepsLeft, Active
  <2>3. StepsLeft(r) > 0
    BY <1>1, StepsLeftOf
  <2> QED
    BY <2>2, <2>3
<1> QED
  BY <1>2, <1>3

\* So is the end of an attempt.
LEMMA AfterAttemptAdvances ==
    ASSUME TypeOK, TypeOK', NEW r \in Reads, NEW end, phase[r] = "flight",
           AfterAttempt(r, end)
    PROVE  StepsLeft(r)' < StepsLeft(r)
<1>1. CASE Retries(end.code, try[r] - 1, Budget)
  <2>1. phase'[r] = "ready" /\ get' = get /\ try' = try
    BY <1>1 DEF AfterAttempt, TypeOK
  <2>2. StepsLeft(r)' = 2 * (Budget - try[r]) + 1
                            + (IF get[r] = "healthz" THEN 2 * Budget + 1 ELSE 0)
    BY <2>1 DEF StepsLeft, Active
  <2> QED
    BY <2>2, StepsLeftOf
<1>2. CASE ~Retries(end.code, try[r] - 1, Budget)
  BY <1>2, ConcludeAdvances DEF AfterAttempt, Active
<1> QED
  BY <1>1, <1>2

LEMMA SendAdvances ==
    ASSUME TypeOK, TypeOK', NEW r \in Reads, Send(r)
    PROVE  StepsLeft(r)' < StepsLeft(r)
<1>1. CASE IsOpen(r)
  <2>1. phase'[r] = "flight" /\ get' = get /\ try'[r] = try[r] + 1
    BY <1>1 DEF Send, TypeOK
  <2>2. StepsLeft(r)' = 2 * (Budget - (try[r] + 1)) + 2
                            + (IF get[r] = "healthz" THEN 2 * Budget + 1 ELSE 0)
    BY <2>1 DEF StepsLeft, Active
  <2> QED
    BY <2>2, StepsLeftOf DEF Send
<1>2. CASE ~IsOpen(r)
  BY <1>2, ConcludeAdvances DEF Send, Active
<1> QED
  BY <1>1, <1>2

\* With any number of retries a read moves to its end only: at most two GETs of
\* max_retries + 1 attempts each, whatever the other side and the pools do.
THEOREM NoReadGoesBack == Spec => ReadsAdvance
<1> DEFINE at(r) == <<get[r], phase[r], try[r]>>
<1>1. ASSUME TypeOK, TypeOK', [Next]_vars, NEW r \in Reads, at(r)' # at(r), phase[r] # "idle"
      PROVE  StepsLeft(r)' < StepsLeft(r)
  <2> USE <1>1
  <2>1. ASSUME UNCHANGED <<get, phase, try>> PROVE FALSE
    BY <2>1
  <2>2. CASE (\E t \in Traders : Close(t)) \/ ProgramCloses \/ World \/ UNCHANGED vars
    BY <2>1, <2>2 DEF Close, ProgramCloses, World, getVars, vars
  <2>3. ASSUME NEW q \in Reads, NEW what \in Ops, Begin(q, what) PROVE FALSE
    <3>1. q # r
      BY <2>3 DEF Begin
    <3> QED
      BY <2>3, <3>1 DEF Begin, TypeOK
  <2>4. ASSUME NEW q \in Reads, Answer(q) PROVE FALSE
    BY <2>1, <2>4 DEF Answer
  <2>5. ASSUME NEW q \in Reads, Send(q) \/ Receive(q) \/ Break(q)
        PROVE  StepsLeft(r)' < StepsLeft(r)
    <3>1. q = r
      BY <2>5 DEF Send, Receive, Break, AfterAttempt, Conclude, TypeOK
    <3> QED
      BY <2>5, <3>1, SendAdvances, AfterAttemptAdvances DEF Receive, Break
  <2> QED
    BY <2>2, <2>3, <2>4, <2>5 DEF Next
<1>2. TypeOK /\ TypeOK' /\ [Next]_vars =>
          [\A r \in Reads :
               <<get[r], phase[r], try[r]>>' # <<get[r], phase[r], try[r]>> =>
                   phase[r] = "idle" \/ StepsLeft(r)' < StepsLeft(r)]_vars
  BY <1>1
<1> QED
  BY <1>2, ReadTypeCorrect, PTL DEF Spec, ReadsAdvance
=============================================================================

------------------------------ MODULE Reconcile ------------------------------
(***************************************************************************)
(* A program that wants one market order filled once.  It places the order *)
(* with a call; when that call has returned it may read the balance        *)
(* (PolyTrader.verify_balance) and, by its policy, place the same order    *)
(* with another call, and so on, one call at a time.  Below the calls is   *)
(* the whole of OrderPath: what an earlier call has left behind in the     *)
(* bridge goes on while the next one is made.                              *)
(*                                                                         *)
(* Two policies: TrustBalance resubmits after an ambiguous failure when    *)
(* the balance has not moved; the other resubmits only after an outcome    *)
(* that says the order was refused.  The balance is taken to show a fill   *)
(* at once, which favours the first policy.                                *)
(***************************************************************************)
EXTENDS OrderPath

CONSTANT TrustBalance  \* the policy, a Boolean

ASSUME ReconcileAssumption == TrustBalance \in BOOLEAN /\ "none" \notin Calls

VARIABLES last,  \* the call made last, or "none"
          seen   \* what verify_balance has said since: "none", "failed", "same", "moved"

callerVars == <<vars, last, seen>>

CallerInit == Init /\ last = "none" /\ seen = "none"

\* The program makes a call, and knows nothing of the balance since.
Place(c) ==
    /\ PlaceMarketOrder(c)
    /\ last' = c
    /\ seen' = "none"

PlaceFirst(c) == last = "none" /\ Place(c)

Returned == last \in Calls /\ result[last] # NoResult

\* verify_balance: it fails, or tells what the venue shows now of all calls.
\* The program reads it between two calls and acts on it when it likes.
VerifyBalance ==
    /\ Returned
    /\ \/ seen' = "failed"
       \/ up /\ seen' = IF \A c \in Calls : EffectsOf(c) = {} THEN "same" ELSE "moved"
    /\ UNCHANGED <<vars, last>>

MayResubmit ==
    IF TrustBalance
    THEN Outcome(last) \in {"refused", "unknown"} /\ seen = "same"
    ELSE Outcome(last) = "refused"

Resubmit(c) == Returned /\ MayResubmit /\ Place(c)

CallerNext ==
    \/ \E c \in Calls : PlaceFirst(c) \/ Resubmit(c)
    \/ VerifyBalance
    \/ Progress /\ UNCHANGED <<last, seen>>

CallerSpec == CallerInit /\ [][CallerNext]_callerVars

FairCallerSpec == CallerSpec /\ Fairness

-----------------------------------------------------------------------------
CallerTypeOK ==
    /\ TypeOK
    /\ last \in Calls \cup {"none"}
    /\ seen \in {"none", "failed", "same", "moved"}

(***************************************************************************)
(* "a retry after a lost response could double-fill.  On an ambiguous      *)
(* failure, reconcile with verify_balance() before resubmitting" (README): *)
(* a program that follows its policy, however often it resubmits, never    *)
(* has the order filled twice.                                             *)
(***************************************************************************)
NoDoubleFill ==
    \A c, d \in Calls : EffectsOf(c) # {} /\ EffectsOf(d) # {} => c = d
=============================================================================

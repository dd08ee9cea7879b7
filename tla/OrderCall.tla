------------------------------ MODULE OrderCall ------------------------------
(***************************************************************************)
(* What one order call of the client promises, whatever happens between    *)
(* the caller and the venue.  A call is begun once and returns at most     *)
(* once.  Its order takes effect at the venue at most once.  The outcome   *)
(* the caller can read off the result is one of                            *)
(*                                                                         *)
(*   "done"     the venue took the order;                                  *)
(*   "refused"  the venue did not take the order and never will;           *)
(*   "unknown"  the call failed without settling the question: the order   *)
(*              may have been taken, or may still be taken later.          *)
(*                                                                         *)
(* The third outcome is the price of never retrying: the client answers    *)
(* "unknown" rather than submit a second time.                             *)
(***************************************************************************)
CONSTANTS Calls,     \* the order calls made by the program
          Effects    \* identities of the effects a venue can produce

VARIABLES outcome,   \* [Calls -> Outcomes], what the caller knows of the call
          effects    \* [Calls -> SUBSET Effects], what the call did at the venue

vars == <<outcome, effects>>

Outcomes == {"new", "pending", "done", "refused", "unknown"}

Init ==
    /\ outcome = [c \in Calls |-> "new"]
    /\ effects = [c \in Calls |-> {}]

\* The call leaves the program.
Begin(c) ==
    /\ outcome[c] = "new"
    /\ outcome' = [outcome EXCEPT ![c] = "pending"]
    /\ UNCHANGED effects

\* The venue takes the order: once, and even after the caller has given up.
TakeEffect(c) ==
    /\ outcome[c] \in {"pending", "unknown"}
    /\ effects[c] = {}
    /\ \E e \in Effects : effects' = [effects EXCEPT ![c] = {e}]
    /\ UNCHANGED outcome

\* The call is refused before it leaves the program.
RefuseLocally(c) ==
    /\ outcome[c] = "new"
    /\ outcome' = [outcome EXCEPT ![c] = "refused"]
    /\ UNCHANGED effects

\* The call returns with what it can claim.
Return(c, o) ==
    /\ outcome[c] = "pending"
    /\ o = "done" => effects[c] # {}
    /\ o = "refused" => effects[c] = {}
    /\ outcome' = [outcome EXCEPT ![c] = o]
    /\ UNCHANGED effects

Next == \E c \in Calls :
    \/ Begin(c)
    \/ TakeEffect(c)
    \/ RefuseLocally(c)
    \/ \E o \in {"done", "refused", "unknown"} : Return(c, o)

Spec == Init /\ [][Next]_vars
=============================================================================

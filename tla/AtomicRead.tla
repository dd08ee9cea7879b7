------------------------------ MODULE AtomicRead ------------------------------
(***************************************************************************)
(* What a read through the client promises, however often it is retried:   *)
(* a value that is returned was the true one at some moment between the    *)
(* call and its return.  A read may also fail, having learnt nothing.      *)
(***************************************************************************)
CONSTANTS Reads,   \* the reads made by the program
          Values   \* what can be read

VARIABLES truth,   \* the value at the venue now
          stage,   \* [Reads -> {"idle", "open", "returned"}]
          got      \* [Reads -> SUBSET Values], what the read has learnt

vars == <<truth, stage, got>>

Init ==
    /\ truth \in Values
    /\ stage = [r \in Reads |-> "idle"]
    /\ got   = [r \in Reads |-> {}]

\* The venue's value changes.
Change ==
    /\ truth' \in Values
    /\ UNCHANGED <<stage, got>>

Begin(r) ==
    /\ stage[r] = "idle"
    /\ stage' = [stage EXCEPT ![r] = "open"]
    /\ UNCHANGED <<truth, got>>

\* The venue is asked: the answer is true now and may be stale when it is used.
Look(r) ==
    /\ stage[r] = "open"
    /\ got' = [got EXCEPT ![r] = {truth}]
    /\ UNCHANGED <<truth, stage>>

\* The answer is lost, or comes too late to be used.
Forget(r) ==
    /\ stage[r] = "open"
    /\ got' = [got EXCEPT ![r] = {}]
    /\ UNCHANGED <<truth, stage>>

\* The read returns what it last learnt, or fails.
Return(r) ==
    /\ stage[r] = "open"
    /\ stage' = [stage EXCEPT ![r] = "returned"]
    /\ got' \in {got, [got EXCEPT ![r] = {}]}
    /\ UNCHANGED truth

Next == Change \/ \E r \in Reads : Begin(r) \/ Look(r) \/ Forget(r) \/ Return(r)

Spec == Init /\ [][Next]_vars
=============================================================================

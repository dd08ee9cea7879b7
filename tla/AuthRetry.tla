------------------------------ MODULE AuthRetry ------------------------------
(***************************************************************************)
(* What the bridge promises of the submissions of one order, whatever its  *)
(* other handlers, the venue and the process do: a submission is repeated  *)
(* only after a 401, once with the same credentials and once after the API *)
(* key has been re-derived.  A handler may end at any point: with an       *)
(* answer, with an error, or with the process.                             *)
(*                                                                         *)
(* A handler is at <<n, "sent">> after its submission n, at <<n, "401">>   *)
(* when that was rejected, at <<2, "refreshing">> while it re-derives the  *)
(* key.                                                                    *)
(***************************************************************************)
EXTENDS Naturals

CONSTANT Handlers

VARIABLE stage   \* [Handlers -> where the handler is]

vars == <<stage>>

Idle == <<0, "idle">>

Init == stage = [h \in Handlers |-> Idle]

Move(h, from, to) == stage[h] = from /\ stage' = [stage EXCEPT ![h] = to]

Submit(h)      == Move(h, Idle, <<1, "sent">>)
Reject(h)      == \E n \in 1..3 : Move(h, <<n, "sent">>, <<n, "401">>)
SubmitAgain(h) == Move(h, <<1, "401">>, <<2, "sent">>)
Refresh(h)     == Move(h, <<2, "401">>, <<2, "refreshing">>)
SubmitLast(h)  == Move(h, <<2, "refreshing">>, <<3, "sent">>)
End(h)         == Move(h, stage[h], Idle)

\* The process dies, and all its handlers with it.
Die == stage' = [h \in Handlers |-> Idle]

Next ==
    \/ \E h \in Handlers :
           \/ Submit(h) \/ Reject(h) \/ SubmitAgain(h)
           \/ Refresh(h) \/ SubmitLast(h) \/ End(h)
    \/ Die

Spec == Init /\ [][Next]_vars
=============================================================================

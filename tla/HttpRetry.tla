------------------------------ MODULE HttpRetry ------------------------------
(***************************************************************************)
(* The decision taken by request_with_retry (polytrader/_http.py) after    *)
(* each attempt.  An attempt ends in a transport error ("transport") or in *)
(* a response, of which only the class of the status code matters:         *)
(* "200", "4xx" (any rejection but 429), "429" or "5xx".  Attempts are     *)
(* numbered from 0, as in the code.  The delays of the backoff are not     *)
(* modelled: a later attempt may happen at any time.                       *)
(***************************************************************************)
EXTENDS Integers

Codes == {"200", "4xx", "429", "5xx"}

\* Total number of attempts: max(0, max_retries) + 1.
Attempts(maxRetries) == (IF maxRetries > 0 THEN maxRetries ELSE 0) + 1

\* 5xx and 429 are worth another attempt; so is every transport error.
Transient(outcome) == outcome \in {"transport", "5xx", "429"}

\* Mutation: the loop goes round once too often.
RetriesOnceMore(outcome, attempt, attempts) ==
    Transient(outcome) /\ attempt + 1 <= attempts

\* Mutation: the last attempt is never made.
RetriesAllButLast(outcome, attempt, attempts) ==
    Transient(outcome) /\ attempt + 2 < attempts

\* Does the loop go round again after this outcome of this attempt?  When it
\* does not, a transport error is raised and a response is returned, even a
\* response of 5xx.
Retries(outcome, attempt, attempts) ==
    Transient(outcome) /\ attempt + 1 < attempts
=============================================================================

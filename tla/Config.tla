-------------------------------- MODULE Config --------------------------------
(***************************************************************************)
(* PolyTraderConfig (polytrader/config.py): a configuration is made from   *)
(* keyword arguments or from the environment, checked and normalised by    *)
(* __post_init__, and copied with overrides, by the program or by          *)
(* PolyTrader(config, **overrides).  Of the URLs bridge_url is modelled,   *)
(* the only one that is checked; of the numbers those that are.            *)
(***************************************************************************)
EXTENDS Integers

CONSTANTS Unset,  \* the argument or variable is not given
          NaN,    \* float("nan")
          Text    \* a variable that is not a number

ASSUME ConfigAssumption == Unset # NaN /\ Text \notin {Unset, NaN}

VARIABLES cfg,    \* the configuration in use
          given,  \* history: every argument that went into it
          end,    \* how the last attempt to make one ended
          atOnce  \* history: how constructing from all its arguments would have

vars == <<cfg, given, end, atOnce>>

Urls    == {"url", "url/", "url//", "/", ""}
Numbers == {-1, 0, 1}
\* Arguments; in the environment a number may be a text.
Arguments(odd) ==
    [bridge  : Urls \cup {Unset},
     timeout : Numbers \cup {Unset, NaN} \cup odd,
     retries : Numbers \cup {Unset} \cup odd,
     backoff : Numbers \cup {Unset, NaN} \cup odd]

Defaults == [bridge |-> "url", timeout |-> 1, retries |-> 1, backoff |-> 1]

Fields == DOMAIN Defaults

Merge(old, new) == [f \in Fields |-> IF new[f] = Unset THEN old[f] ELSE new[f]]

\* Mutation: one slash is removed, not all.
StripOne(url) == IF url = "url//" THEN "url/"
                 ELSE IF url = "url/" THEN "url" ELSE IF url = "/" THEN "" ELSE url

\* rstrip("/")
Strip(url) == IF url \in {"url", "url/", "url//"} THEN "url" ELSE ""

\* Mutation: the number of retries is not checked.
AcceptsAnyRetries(k) ==
    /\ k.bridge # ""
    /\ k.timeout = NaN \/ k.timeout > 0
    /\ k.backoff = NaN \/ k.backoff >= 0

\* The checks of __post_init__: no comparison with NaN is true.
Accepts(k) ==
    /\ k.bridge # ""
    /\ k.timeout = NaN \/ k.timeout > 0
    /\ k.retries >= 0
    /\ k.backoff = NaN \/ k.backoff >= 0

\* How __post_init__ of the fields k ends, and what it makes of them.
End(k)    == IF Accepts(k) THEN "ok" ELSE "ConfigError"
Normal(k) == [k EXCEPT !.bridge = Strip(@)]

Init ==
    /\ cfg = Defaults /\ given = Defaults
    /\ end = "ok" /\ atOnce = "ok"

\* An attempt that fails whatever the configuration in use is.
Refuse(error) ==
    /\ end' = error /\ atOnce' = error
    /\ UNCHANGED <<cfg, given>>

\* __post_init__ of the fields k, which go back to the arguments args.
Make(k, args) ==
    /\ end' = End(k) /\ atOnce' = End(args)
    /\ IF Accepts(k)
       THEN cfg' = Normal(k) /\ given' = args
       ELSE UNCHANGED <<cfg, given>>

\* PolyTraderConfig(**kwargs).
Construct ==
    \E a \in Arguments({}) : Make(Merge(Defaults, a), Merge(Defaults, a))

\* from_env: int() and float() come before the checks.
FromEnv ==
    \E a \in Arguments({Text}) :
        IF Text \in {a[f] : f \in Fields}
        THEN Refuse("ValueError")
        ELSE Make(Merge(Defaults, a), Merge(Defaults, a))

\* with_overrides: an unknown field is refused, else a copy is made.
WithOverrides ==
    \/ Refuse("ConfigError")
    \/ \E a \in Arguments({}) : Make(Merge(cfg, a), Merge(given, a))

Next == Construct \/ FromEnv \/ WithOverrides

Spec == Init /\ [][Next]_vars

-----------------------------------------------------------------------------
(* Properties. *)

\* A configuration in use has passed the checks, however it came about: the
\* retry budget is at least one attempt, no backoff is negative.
TypeOK ==
    /\ cfg \in [bridge : {"url", ""}, timeout : {1, NaN}, retries : {0, 1}, backoff : {0, 1, NaN}]
    /\ given \in Arguments({})
    /\ {end, atOnce} \subseteq {"ok", "ConfigError", "ValueError"}

(***************************************************************************)
(* with_overrides, "a copy with the given fields replaced" (config.py):    *)
(* the configuration in use is the one that all the arguments of its chain *)
(* of overrides give at once, for normalising twice is normalising once;   *)
(* and an override is refused only when constructing at once would be.     *)
(* The exception: the copy of a configuration made with bridge_url "/" is  *)
(* checked again when "/" is already normalised to "".                     *)
(***************************************************************************)
OverridesAgree ==
    /\ Accepts(given) /\ cfg = Normal(given)
    /\ end # "ok" /\ atOnce = "ok" => given.bridge = "/"
=============================================================================

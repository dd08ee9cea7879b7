----------------------------- MODULE ConfigProofs -----------------------------
(***************************************************************************)
(* However a configuration came about, through any chain of constructions, *)
(* environments and overrides, it has passed the checks, and it is the one *)
(* that all the arguments together would have given at once; an override   *)
(* that is refused although they would not be follows a bridge_url "/".    *)
(***************************************************************************)
EXTENDS Config, TLAPS

\* Arguments of which every one is given.
Complete == [bridge  : Urls,
             timeout : Numbers \cup {NaN},
             retries : Numbers,
             backoff : Numbers \cup {NaN}]

CInv == /\ given \in Complete
        /\ OverridesAgree
        /\ {end, atOnce} \subseteq {"ok", "ConfigError", "ValueError"}

LEMMA FieldNames == Fields = {"bridge", "timeout", "retries", "backoff"}
BY DEF Fields, Defaults

\* Merging keeps an argument complete, field by field.
LEMMA MergeComplete ==
    ASSUME NEW old \in Complete, NEW a \in Arguments({})
    PROVE  /\ Merge(old, a) \in Complete
           /\ \A f \in Fields : Merge(old, a)[f] = IF a[f] = Unset THEN old[f] ELSE a[f]
<1>1. \A f \in Fields : Merge(old, a)[f] = IF a[f] = Unset THEN old[f] ELSE a[f]
  BY DEF Merge
<1>2. /\ Merge(old, a) = [bridge  |-> Merge(old, a).bridge,
                          timeout |-> Merge(old, a).timeout,
                          retries |-> Merge(old, a).retries,
                          backoff |-> Merge(old, a).backoff]
  BY FieldNames DEF Merge
<1>3. /\ Merge(old, a).bridge \in Urls
      /\ Merge(old, a).timeout \in Numbers \cup {NaN}
      /\ Merge(old, a).retries \in Numbers
      /\ Merge(old, a).backoff \in Numbers \cup {NaN}
  BY <1>1, FieldNames DEF Complete, Arguments
<1> QED
  BY <1>1, <1>2, <1>3 DEF Complete

LEMMA DefaultsComplete == Defaults \in Complete
BY DEF Defaults, Complete, Urls, Numbers

\* Stripping twice is stripping once.
LEMMA StripOnce ==
    ASSUME NEW url \in Urls
    PROVE  Strip(url) \in {"url", ""} /\ Strip(Strip(url)) = Strip(url)
BY DEF Strip

\* A configuration that is made of fields that agree with args but for slashes.
LEMMA MakeCInv ==
    ASSUME CInv, NEW k \in Complete, NEW args \in Complete, Make(k, args),
           k.bridge # "" => args.bridge # "",
           k.bridge = "" /\ args.bridge # "" => given.bridge = "/",
           Strip(k.bridge) = Strip(args.bridge),
           k.timeout = args.timeout, k.retries = args.retries, k.backoff = args.backoff
    PROVE  CInv'
<1>1. /\ {end', atOnce'} \subseteq {"ok", "ConfigError", "ValueError"}
      /\ end' # "ok" => ~Accepts(k)
      /\ atOnce' = "ok" => Accepts(args)
  BY DEF Make, End
<1>2. CASE Accepts(k)
  <2>1. /\ cfg' = Normal(k) /\ given' = args /\ end' = "ok"
    BY <1>2 DEF Make, End
  <2>2. Accepts(args)
    BY <1>2 DEF Accepts
  <2>3. Normal(k) = Normal(args)
    BY DEF Complete, Normal
  <2> QED
    BY <1>1, <2>1, <2>2, <2>3 DEF CInv, OverridesAgree, Accepts, Normal
<1>3. CASE ~Accepts(k)
  <2>1. UNCHANGED <<cfg, given>>
    BY <1>3 DEF Make
  <2>2. Accepts(args) => k.bridge = "" /\ args.bridge # ""
    BY <1>3 DEF Accepts
  <2> QED
    BY <1>1, <2>1, <2>2 DEF CInv, OverridesAgree, Accepts, Normal
<1> QED
  BY <1>2, <1>3

\* A refused attempt changes nothing that is in use.
LEMMA RefuseCInv ==
    ASSUME CInv, NEW error \in {"ConfigError", "ValueError"}, Refuse(error)
    PROVE  CInv'
BY DEF Refuse, CInv, OverridesAgree, Accepts, Normal

LEMMA ConstructCInv == ASSUME CInv, Construct PROVE CInv'
<1>1. PICK a \in Arguments({}) : Make(Merge(Defaults, a), Merge(Defaults, a))
  BY DEF Construct
<1> QED
  BY <1>1, MergeComplete, DefaultsComplete, MakeCInv

LEMMA FromEnvCInv == ASSUME CInv, FromEnv PROVE CInv'
<1>1. PICK a \in Arguments({Text}) :
          IF Text \in {a[f] : f \in Fields}
          THEN Refuse("ValueError")
          ELSE Make(Merge(Defaults, a), Merge(Defaults, a))
  BY DEF FromEnv
<1>2. CASE Text \in {a[f] : f \in Fields}
  BY <1>1, <1>2, RefuseCInv
<1>3. CASE Text \notin {a[f] : f \in Fields}
  <2>1. a.timeout # Text /\ a.retries # Text /\ a.backoff # Text
    BY <1>3, FieldNames
  <2>2. a \in Arguments({})
    BY <2>1 DEF Arguments
  <2> QED
    BY <1>1, <1>3, <2>2, MergeComplete, DefaultsComplete, MakeCInv
<1> QED
  BY <1>2, <1>3

LEMMA WithOverridesCInv == ASSUME CInv, WithOverrides PROVE CInv'
<1>1. CASE Refuse("ConfigError")
  BY <1>1, RefuseCInv
<1>2. ASSUME NEW a \in Arguments({}), Make(Merge(cfg, a), Merge(given, a)) PROVE CInv'
  <2>1. /\ given \in Complete /\ Accepts(given)
        /\ cfg = [given EXCEPT !.bridge = Strip(given.bridge)]
    BY DEF CInv, OverridesAgree, Normal
  <2>2. /\ cfg \in Complete /\ cfg.bridge = Strip(given.bridge)
        /\ cfg.timeout = given.timeout /\ cfg.retries = given.retries
        /\ cfg.backoff = given.backoff
    BY <2>1, StripOnce DEF Complete, Urls
  <2> DEFINE k == Merge(cfg, a)
             args == Merge(given, a)
  <2>3. k \in Complete /\ args \in Complete
    BY <2>1, <2>2, MergeComplete
  <2>4. \A f \in Fields : /\ k[f] = IF a[f] = Unset THEN cfg[f] ELSE a[f]
                          /\ args[f] = IF a[f] = Unset THEN given[f] ELSE a[f]
    BY <2>1, <2>2, MergeComplete
  <2>5. k.timeout = args.timeout /\ k.retries = args.retries /\ k.backoff = args.backoff
    BY <2>2, <2>4, FieldNames
  <2>6. \/ k.bridge = args.bridge
        \/ k.bridge = Strip(given.bridge) /\ args.bridge = given.bridge
    BY <2>2, <2>4, FieldNames
  <2>7. given.bridge # "" /\ given.bridge \in Urls
    BY <2>1 DEF Accepts, Complete
  <2>8. Strip(k.bridge) = Strip(args.bridge) /\ (k.bridge # "" => args.bridge # "")
    BY <2>6, <2>7, StripOnce
  <2>9. k.bridge = "" /\ args.bridge # "" => given.bridge = "/"
    BY <2>6, <2>7 DEF Strip, Urls
  <2> QED
    BY <1>2, <2>3, <2>5, <2>8, <2>9, MakeCInv
<1> QED
  BY <1>1, <1>2 DEF WithOverrides

\* Every step keeps the inductive invariant.
LEMMA CInvInductive == ASSUME CInv, [Next]_vars PROVE CInv'
<1>1. CASE UNCHANGED vars
  BY <1>1 DEF vars, CInv, OverridesAgree, Accepts, Normal
<1> QED
  BY <1>1, ConstructCInv, FromEnvCInv, WithOverridesCInv DEF Next

LEMMA InitCInv == Init => CInv
BY DefaultsComplete DEF Init, CInv, OverridesAgree, Accepts, Normal, Strip, Defaults

LEMMA CInvTypes == CInv => TypeOK
<1> SUFFICES ASSUME CInv PROVE TypeOK
  OBVIOUS
<1>1. /\ given \in Complete /\ Accepts(given)
      /\ cfg = [given EXCEPT !.bridge = Strip(given.bridge)]
  BY DEF CInv, OverridesAgree, Normal
<1>2. /\ Strip(given.bridge) \in {"url", ""}
      /\ given.timeout \in {1, NaN} /\ given.retries \in {0, 1}
      /\ given.backoff \in {0, 1, NaN}
  <2>1. /\ given.bridge \in Urls /\ given.retries \in Numbers
        /\ given.timeout = NaN \/ given.timeout \in Numbers
        /\ given.backoff = NaN \/ given.backoff \in Numbers
    BY <1>1 DEF Complete
  <2>2. given.timeout = NaN \/ given.timeout > 0
    BY <1>1 DEF Accepts
  <2>3. given.backoff = NaN \/ given.backoff >= 0
    BY <1>1 DEF Accepts
  <2>4. given.retries >= 0
    BY <1>1 DEF Accepts
  <2>5. given.timeout \in {1, NaN}
    BY <2>1, <2>2 DEF Numbers
  <2>6. given.backoff \in {0, 1, NaN}
    BY <2>1, <2>3 DEF Numbers
  <2>7. given.retries \in {0, 1}
    BY <2>1, <2>4 DEF Numbers
  <2> QED
    BY <2>1, <2>5, <2>6, <2>7, StripOnce
<1>3. cfg \in [bridge : {"url", ""}, timeout : {1, NaN}, retries : {0, 1}, backoff : {0, 1, NaN}]
  BY <1>1, <1>2 DEF Complete
<1>4. given \in Arguments({})
  BY <1>1 DEF Complete, Arguments
<1> QED
  BY <1>3, <1>4 DEF TypeOK, CInv

\* A configuration in use has passed the checks.
THEOREM ConfigTypeCorrect == Spec => []TypeOK
BY InitCInv, CInvInductive, CInvTypes, PTL DEF Spec

\* A chain of overrides gives what all its arguments at once give, and is refused
\* only if they are, unless a bridge_url "/" is among them.
THEOREM OverridesCompose == Spec => []OverridesAgree
<1>1. CInv => OverridesAgree
  BY DEF CInv
<1> QED
  BY <1>1, InitCInv, CInvInductive, PTL DEF Spec
=============================================================================

-------------------------------- MODULE BetOn --------------------------------
(***************************************************************************)
(* bet_on (polytrader/client.py): look the market up at Gamma, parse it    *)
(* (polytrader/markets.py), resolve the outcome that was asked for to a    *)
(* token id, and place a market BUY of that token through OrderPath.       *)
(*                                                                         *)
(* Labels, selectors and token ids are strings; a label or selector stands *)
(* for all its spellings, which the code strips and lower-cases.  A market *)
(* the caller has at hand is one that is found at once.  Prices and the    *)
(* other fields of a market are left out.                                  *)
(***************************************************************************)
EXTENDS OrderPath, SequencesExt

CONSTANTS Documents,  \* what Gamma may answer
          Selectors   \* what a caller may ask for

NoToken == "no token"

(***************************************************************************)
(* A document is an answer of Gamma as far as parse_market goes into it:   *)
(* "good"; "bad", in a way that raises KeyError or ValueError (no slug, a  *)
(* list that is no JSON); or "mistyped", so that TypeError or              *)
(* AttributeError is raised (a list that is not a string, an element that  *)
(* is no object).  A selector is an index or, when that is -1, a text.     *)
(***************************************************************************)
ASSUME BetOnAssumption ==
    /\ \A doc \in Documents : /\ doc.shape \in {"good", "bad", "mistyped"}
                              /\ doc.labels \in Seq(STRING) /\ doc.ids \in Seq(STRING)
                              /\ NoToken \notin Range(doc.ids)
    /\ \A sel \in Selectors : sel.index \in Nat \cup {-1} /\ sel.text \in STRING

VARIABLES selector,  \* [Calls -> the outcome asked for]
          market,    \* [Calls -> the outcomes of the market found]
          token      \* [Calls -> the token id resolved]

betVars == <<selector, market, token>>
allVars == <<vars, betVars>>

NoSelector == [index |-> -1, text |-> "nothing asked"]
NoMarket   == <<"no market">>

-----------------------------------------------------------------------------
(* Markets. *)

\* parse_market: the outcomes, zipped with their token ids.
ParseMarket(doc) ==
    [i \in DOMAIN doc.labels |->
        [label |-> doc.labels[i],
         token |-> IF i <= Len(doc.ids) THEN doc.ids[i] ELSE ""]]

\* outcome_by_token, outcome_by_label: the first that matches, 0 for none.
OutcomeByToken(outs, t) == SelectInSeq(outs, LAMBDA o : o.token = t)
OutcomeByLabel(outs, l) == SelectInSeq(outs, LAMBDA o : o.label = l)

\* _LABEL_ALIASES, without the label itself.
Alias  == [up |-> "yes", yes |-> "up", down |-> "no", no |-> "down"]
ByAlias(outs, l) == IF l \in DOMAIN Alias THEN OutcomeByLabel(outs, Alias[l]) ELSE 0

\* Mutation: only the market's own labels are understood.
ResolveOwnLabels(outs, sel) ==
    LET t == OutcomeByToken(outs, sel.text)
    IN  IF sel.index >= 0 THEN (IF sel.index < Len(outs) THEN sel.index + 1 ELSE 0)
        ELSE IF t # 0 THEN t ELSE OutcomeByLabel(outs, sel.text)

\* Mutation: the first outcome that matches the label or its alias.
ResolveEither(outs, sel) ==
    LET t == OutcomeByToken(outs, sel.text)
        a == ByAlias(outs, sel.text)
    IN  IF sel.index >= 0 THEN (IF sel.index < Len(outs) THEN sel.index + 1 ELSE 0)
        ELSE IF t # 0 THEN t
        ELSE IF a # 0 THEN a ELSE OutcomeByLabel(outs, sel.text)

(***************************************************************************)
(* _resolve_token_id, as the position of the outcome, 0 for None: by       *)
(* index, else by token id, else by label, else by the alias of a label.   *)
(***************************************************************************)
Resolve(outs, sel) ==
    LET t == OutcomeByToken(outs, sel.text)
        l == OutcomeByLabel(outs, sel.text)
    IN  IF sel.index >= 0 THEN (IF sel.index < Len(outs) THEN sel.index + 1 ELSE 0)
        ELSE IF t # 0 THEN t
        ELSE IF l # 0 THEN l ELSE ByAlias(outs, sel.text)

-----------------------------------------------------------------------------
(* bet_on. *)

BetInit ==
    /\ Init
    /\ selector = [c \in Calls |-> NoSelector]
    /\ market   = [c \in Calls |-> NoMarket]
    /\ token    = [c \in Calls |-> NoToken]

\* bet_on up to its await: the amount is no amount, or get_market begins.
AskFor(c) ==
    /\ Idle(c) /\ selector[c] = NoSelector
    /\ \/ EndLocally(c, Raised) /\ UNCHANGED selector
       \/ \E sel \in Selectors : /\ selector' = [selector EXCEPT ![c] = sel]
                                 /\ UNCHANGED vars
    /\ UNCHANGED <<market, token>>

Fetching(c) == Idle(c) /\ selector[c] # NoSelector

\* get_market found nothing, or raised what fetch_market does not catch.
MarketFails(c) ==
    /\ Fetching(c)
    /\ \/ EndLocally(c, LocalError)
       \/ \E doc \in Documents :
              \/ doc.shape = "bad"      /\ EndLocally(c, LocalError)
              \/ doc.shape = "mistyped" /\ EndLocally(c, Raised)
    /\ UNCHANGED betVars

\* place_market_order of a positive amount; the bridge rejects an empty token.
PlaceBet(c, tokenId) ==
    \E amount \in 1..MaxAmount :
        IF amount < MinBuy
        THEN EndLocally(c, LocalError)
        ELSE \E body \in (IF tokenId = "" THEN {"missing"} ELSE {"valid", "badType"}) :
                 Post(c, [op |-> "order", body |-> body])

\* get_market returned a market: resolve the outcome and place the order.
MarketFound(c) ==
    /\ Fetching(c)
    /\ \E doc \in Documents :
           LET outs == ParseMarket(doc)
               i    == Resolve(outs, selector[c])
           IN  /\ doc.shape = "good"
               /\ market' = [market EXCEPT ![c] = outs]
               /\ IF i = 0
                  THEN EndLocally(c, LocalError) /\ UNCHANGED token
                  ELSE /\ token' = [token EXCEPT ![c] = outs[i].token]
                       /\ PlaceBet(c, outs[i].token)
    /\ UNCHANGED selector

BetNext ==
    \/ \E c \in Calls : AskFor(c) \/ MarketFails(c) \/ MarketFound(c)
    \/ Progress /\ UNCHANGED betVars

BetSpec == BetInit /\ [][BetNext]_allVars

-----------------------------------------------------------------------------
(* Properties. *)

BetTypeOK ==
    /\ TypeOK
    /\ selector \in [Calls -> Selectors \cup {NoSelector}]
    /\ market \in [Calls -> {NoMarket} \cup {ParseMarket(doc) : doc \in Documents}]
    /\ \A c \in Calls : token[c] = NoToken \/ \E o \in Range(market[c]) : token[c] = o.token

\* Does the selector name outcome i?  A synonym only counts where no outcome
\* has the label itself.
Denotes(sel, outs, i) ==
    IF sel.index >= 0 THEN i = sel.index + 1
    ELSE \/ sel.text \in {outs[i].token, outs[i].label}
         \/ /\ {sel.text, outs[i].label} \in {{"up", "yes"}, {"down", "no"}}
            /\ \A o \in Range(outs) : o.label # sel.text

\* Money is spent only on a token that the selector names in the market that
\* was found; in particular never on an outcome without a token id
\* (markets.py:68), even if that is what was resolved.
BuysWhatWasAsked ==
    \A c \in Calls : EffectsOf(c) # {} =>
        /\ token[c] # ""
        /\ \E i \in DOMAIN market[c] :
               market[c][i].token = token[c] /\ Denotes(selector[c], market[c], i)

\* A selector is turned down only if it names no outcome of the market: every
\* label, token id, index and alias is understood (client.py:463-487).
RefusesOnlyTheUnknown ==
    \A c \in Calls : market[c] # NoMarket /\ token[c] = NoToken =>
        \A i \in DOMAIN market[c] : ~Denotes(selector[c], market[c], i)
=============================================================================

# poly-trader in TLA+

poly-trader is a Python client (`polytrader/`) and a Node sidecar, the bridge
(`bridge/index.mjs`), for placing orders on a prediction market. The client never
talks to the venue about orders: it posts them to the bridge, which signs and
submits them through the venue's SDK. This directory models that system, checks the
models with TLC and proves the central results with TLAPS.

## The system

| Part | State | Operations | Interacts with |
|---|---|---|---|
| Order client (`client.py`, `bridge_client.py`) | per call only locals | `place_market_order`, `place_limit_order`, `cancel_order`, `bet_on` | one POST per call to the bridge |
| Retry policy (`_http.py`) | attempt counter | `request_with_retry` | wraps every HTTP request |
| Bridge order handlers (`index.mjs`) | one coroutine per request, `attempt` | `/place-market-order`, `/place-order`, `/cancel`, `submitWithAuthRetry` | venue SDK, global `client` |
| Bridge API key (`index.mjs`) | globals `creds`, `client`; the file at `CREDS_PATH` | `ensureCreds`, `refreshCreds`, `loadCreds`, `saveCreds` | all handlers, the venue, the disk |
| Reads (`client.py`, `bridge_client.py`, `/balance`, `/healthz`) | per call only locals | `verify_balance`, `verify_conn_health`, `get_market`, `get_order_book`, `get_price` | retried GETs |
| Treasury (`client.py`, `/withdraw`) | two switches | `withdraw`, `deposit` | balance read, then a POST, then a transfer |
| Client lifecycle (`client.py`) | ownership of the HTTP pool | `close`, `async with` | everything in flight |
| Market data (`markets.py`, `models.py`) | none | parse and fetch markets and books, resolve an outcome, slots | Gamma and CLOB APIs, `bet_on` |
| Order sizing (`markets.py`) | none | `shares_for_clean_maker` | `place_limit_order` |
| Event ring (`index.mjs`) | last 50 events | `recordEvent`, `/recent-events` | all bridge handlers |
| Configuration (`config.py`) | immutable record | validation, `from_env`, `with_overrides` | everything |

What is hard here:

- **Lost and late answers.** The venue does not deduplicate, so nothing that may have
  been taken may be submitted again; but the bridge does submit up to three times.
  A transfer is no different.
- **The client gives up first.** The bridge neither notices nor stops. What the
  caller was told must stay true whatever happens afterwards.
- **Crashes of the bridge** between a submission and its response, and in the middle
  of writing the key file.
- **Concurrent refreshes of the key.** `creds` and `client` are globals that every
  handler reads and writes on both sides of an `await`.
- **A failed derivation of the key** that returns an error object where the code expects
  a key, and checks for none.
- **Stale answers.** A balance is checked, and a transfer is posted later; health is
  put together from two probes; a quote may be the answer to an earlier attempt.
- **A pool closed under a call.** Its error is not an `httpx.HTTPError`, so it takes
  other paths than a lost connection, which differ from method to method.
- **Three encodings of an outcome**: the SDK's (status, thrown, or a field in a
  body), the bridge's HTTP response and the client's `OrderResult`.
- **Names and numbers at the edges**: aliases of labels, missing token ids, NaN,
  prices that are not in lowest terms, options that are overridden twice.

What makes each part correct:

- *Order client and handlers*: an order takes effect at most once; a definite refusal
  is final; a reported match is real; every call returns; a venue error is not ok.
- *API key*: the client follows the last key obtained; the bridge recovers a rotated
  key or is left without one by a derivation that answered with nothing; it starts
  again after a crash, but for a torn file; no handler spins.
- *Reads*: the budget of each GET is spent on failures that may pass and on nothing
  else; a value that is returned was true during the call; health is what was seen.
- *Treasury*: what is sent was covered by a balance that was read; it is sent at most
  once; a refusal is final. *Lifecycle*: closing a trader disturbs nobody else.
- *Market data*: only the outcome that was asked for is bought, and every name of it is
  understood; a quote is the best price; a bad level costs itself.
- *Sizing*: the size is clean, fits the budget and is the largest that does.
- *Configuration*: what is in use has passed the checks; overrides compose, but
  for a `bridge_url` of `"/"`, after which overrides are refused.

## Modules

| Module | Models |
|---|---|
| `HttpRetry` | the decision of `request_with_retry` after an attempt |
| `OrderCall` | abstract: what one order call, or one withdrawal, promises |
| `AtomicRead` | abstract: what one read promises |
| `AuthRetry` | abstract: when the bridge may repeat the submission of an order |
| `OrderPath` | client, bridge handlers, venue and the messages between them |
| `Reconcile` | a program that resubmits, on top of `OrderPath` |
| `BetOn` | `bet_on`: market lookup, parsing and resolution, on top of `OrderPath` |
| `BridgeCreds` | the life of the API key inside and outside the bridge process |
| `ReadPath` | reads, their retries, and the pools they go through |
| `Treasury` | withdrawals, on both sides, on top of `AtomicRead` |
| `OrderBook` | parsing of a book, and the quotes taken from it |
| `Sizing` | the checks and the arithmetic of `place_limit_order` |
| `Config` | the making of a configuration |
| `MCOrderPath`, `MCBetOn`, `MCOrderBook`, `MCSizing` | symmetry and data for TLC |
| `OrderPathProofs`, `CallerProofs` (of `Reconcile` and `BetOn`), `BridgeCredsProofs`, `ReadPathProofs`, `TreasuryProofs`, `OrderBookProofs`, `SizingProofs`, `ConfigProofs` | theorems |

How they fit together:

- `Reconcile` and `BetOn` extend `OrderPath` and run its own actions (`Progress`), so
  what they say of effects is about real submissions at the venue.
- `OrderPath` and `Treasury` both implement `OrderCall`, and so do `Reconcile` and `BetOn`,
  whose calls are begun by other actions than those of `OrderPath`; `ReadPath` implements
  `AtomicRead`; `Treasury` instantiates `AtomicRead` for its balance read in place of
  repeating the retry loop.
- `OrderPath` and `BridgeCreds` look at the bridge from two sides: the first knows what
  an answer means for the order and takes the refresh of the key as one step that works or
  fails, the second knows the refresh and takes the answer as accepted or 401. Both
  implement `AuthRetry`, the loop of `submitWithAuthRetry`, so they agree on
  what they have in common.
- `HttpRetry` decides about another attempt in `OrderPath`, `ReadPath` and `Treasury`.

Definitions marked "Mutation" are variants of a definition with a plausible mistake
in it. No specification uses them; `PROJECT.json` names the property that each breaks.

### OrderPath

One call is `order[c]` (what was posted), `try[c]` (POSTs so far) and `result[c]`
(the `OrderResult`, with `via`, which says where it came from: the local checks,
a transport error, or an HTTP status). `via` is in `BridgeOrderResult.status_code`;
`_to_order_result` drops it, so a caller can read it only from the error message
(see Reconcile for one that does not).
A bridge handler is `handler[r]`, `attempt[r]` and `reply[r]` for each request `r`;
the venue is `transit` (submissions on their way) and `answer[s]`.

| Action | Code |
|---|---|
| `PlaceMarketOrder`, `PlaceLimitOrder`, `CancelOrder` | validation, early returns and the POST of the methods of `PolyTrader` |
| `ReplyArrives`, `TransportError` | `request_with_retry`, `_post_order`, `_to_order_result` |
| `BridgeReceive` | body parser, missing fields, order type, first `submitFn()` |
| `RetrySameCreds`, `StartRefresh`, `RefreshSucceeds`, `RefreshFails` | the loop of `submitWithAuthRetry` |
| `SubmitReturns`, `SubmitBreaks` | its ends, then the mapping to an HTTP response (`HttpReply`) |
| `Crash`, `Restart`, `VenueAnswersTo` | the environment |

A bridge step is one turn of the event loop, from one `await` to the next. The
bridge's response and the venue's answer may stay unread for ever, which is how a
lost message is modelled; a timeout is possible whenever a call waits. A body is
`valid`, `missing` (a 400, or over the body limit) or `badType` (thrown before the
submission). A success body that names a status is `matched`, whichever status it
is; one without (what a cancel gets) is `bare`.

Assumed of the venue: it answers a submission with an error other than a 5xx only if
it did not take the order. That is what makes a resubmission after a 401 safe at all.

### BridgeCreds

`creds`, `client` and `disk` hold keys, numbered as the venue registers them.
`task[t]` is where the coroutine of an order, or of the start-up, is.

| Action | Code |
|---|---|
| `BootFromDisk`, `BootFresh` | `loadCreds` and the start of `ensureCreds` |
| `VenueDerives`, `VenueDerivesNothing` | `createOrDeriveApiKey` returns an object, with a key or without one |
| `KeyArrives` | the object is stored in the global, as it is |
| `OpenFile`, `SaveSucceeds` | `saveCreds`: truncate, then write; then the client is built and the order submitted again |
| `RefreshThrows` | any of these throws |
| `Submit`, `VenueJudges`, `SigningFails`, `HandlerReacts` | the loop of `submitWithAuthRetry` around one `submitFn()` |
| `Rotate`, `Crash` | the environment |

There is a start from a file that holds a key, and from no file or one that `loadCreds`
calls malformed; there is none from a torn file, since `loadCreds` rethrows what
`JSON.parse` throws (`Stuck`).

A derivation that fails may throw, or may return an object that describes the error:
the bridge expects the latter of the same SDK elsewhere (`index.mjs:174-180`,
`index.mjs:239-244`). Nothing checks that object for a key (`index.mjs:146`), so creds, file
and client are without one afterwards (`Blank`); in a refresh only `creds.key.slice` throws
(`index.mjs:156`), when the client has been rebuilt. What the SDK does with a client
without a key is external: an order may fail before it is sent (`SigningFails`), which
is no 401 and so derives nothing, or be answered 401. Either may go on for ever, so
the bridge may stay up without a key until it is restarted (`Keyless`). An object with
only a part of key, secret and passphrase is not considered.

`/balance` has no action: it uses the client as it is and changes nothing, so it
succeeds when `client` is the registered key.

`OrderPath` abstracts all this to `RefreshSucceeds` or `RefreshFails`, and `BridgeCreds`
abstracts `OrderPath` to accepted or 401. In both, `LoopStage` says where a handler is in
the loop: `AuthRetry` sees the submissions, the 401s and that a refresh is under way.

### Reconcile

The program is not in the repository: the README advises it. It wants one market order
filled once, and makes one call after the other: the first (`PlaceFirst`), and, once
the `last` one has returned, another (`Resubmit`) if its policy allows it, as often as
there are calls. There are two policies, trusting an unchanged balance after a
failure, or trusting only a definite refusal. The latter tells a refusal by `Outcome`,
which knows the HTTP status. A program that goes by the public fields of an `OrderResult`
knows a refusal only by `status` "rejected" (in a 200 body) and takes every `status`
"error" for unknown; it resubmits in fewer cases, so `NoDoubleFill` and
`DoubleFillNeedsDoubt` hold of it all the more. `VerifyBalance` is one read that may
fail; the program may act on what it has `seen` any time later. What earlier calls
have left behind in the bridge goes on below (`Progress`).

### BetOn

`AskFor` is `bet_on` up to its `await` on `get_market`, `MarketFails` and `MarketFound`
are what follows. A document is an answer of Gamma as far as `parse_market` goes into
it; `ParseMarket` zips labels and token ids, and an outcome without an id gets the empty
token. `Resolve` is `_resolve_token_id`: by index, else by token id, else by label, else
by alias. Only an order without a token is certain to be rejected by the bridge as
missing a field. A market that fails with an error `fetch_market` does not catch is
`Raised`.

### ReadPath

A read is `op[r]` (which method), `get[r]` (which GET it is at: health makes two),
`phase[r]` (`ready` before an attempt or during a backoff, `flight` during one), `try[r]`,
`reply[r]` and `result[r]`. Traders own a pool or borrow the one the program injected.

| Action | Code |
|---|---|
| `Close`, `ProgramCloses` | `PolyTrader.close`, or the owner closing the injected client |
| `Begin` | the method up to its first `await` |
| `Send` | `client.get`; on a closed pool it raises, which no retry follows |
| `Receive`, `Break` | the loop of `request_with_retry` after a response, or an `httpx.HTTPError` |
| `Conclude`, `Report` | what `verify_conn_health`, `verify_balance` and the fetches do with the end of a GET |
| `Answer` | `/healthz`, `/balance`, Gamma or the CLOB, or what stands in front of them |
| `World` | the bridge stops or starts, loses or finds the venue; the value changes |

An answer is chosen when it is sent and may be received later, or never. `was[r]` is
a history of what was alive since the read began, for `HealthWasTrue`.

### Treasury

`Withdraw` is the method up to the balance read, `Check` the comparison after it and
the POST in the same turn; `ReplyArrives` and `TransportError` end the call.
`BridgeReceive` is the handler of `/withdraw` up to `sendTransaction`, which may
broadcast (`Broadcast`) before it returns, after it has thrown, or never (`SendEnds`).
Amounts count half units of the token, so that an odd one has more decimals than
`parseUnits` keeps; what is sent is `Units(amount)`. The balance that is checked
belongs to the funder and the transfer leaves the signer's own account, so a
transfer does not change `collateral`; others do (`Move`).

### OrderBook, Sizing, Config

`OrderBook`: `GetOrderBook` draws a payload of items that are good, worthless, infinite,
NaN or no numbers, and parses it; `GetPrice` is the head of a side. `Levels` gives the
positions of the payload that are kept, and `Sorted` puts at place k the item that has
k items before it or at it, equal keys in the order they came, as `sorted` does.

`Sizing`: decimals are fractions, as in the code (`Fraction`); `SharesForCleanMaker`
is written with the least multiplier that makes a fraction whole, which is what
`Fraction(...).denominator` is. `PlaceAgain` is a caller that goes on with the size it
got. The bound on the body, the POST and its result are those of `OrderPath`.

`Config`: `Construct`, `FromEnv` and `WithOverrides` all end in `Make`, which is
`__post_init__`: the checks (`Accepts`), then the normalisation (`Strip`). A refused
configuration leaves the one in use alone. `given` is a history of the arguments, and
`atOnce` says how constructing from all of them at once would have ended.

## Runs

| Run | Shows | Distinct states |
|---|---|---|
| `order_path` | two concurrent calls, one crash: `TypeOK`, `AtMostOnce`, `RefusedMeansNoEffect`, `MatchedMeansEffect`; each handler follows the loop (`ImplementsAuthRetry`) | 569,650 |
| `reconcile` | resubmitting only after a refusal, one crash, two calls: `NoDoubleFill`; each call keeps the promise of an order call (`ImplementsOrderCall`) and returns (`CallsReturn`) | 78,363 |
| `bridge_creds` | two orders, one rotation, one stray 401, one step that throws, one answer without a key, one crash: `TypeOK`, `ClientFollowsCreds`, `TornMeansCutShort`; a handler never goes back (`HandlersAdvance`) nor leaves the loop (`ImplementsAuthRetry`), a stale key never comes back (`SettledStays`); under fairness `KeyRecovers`, `OrdersEnd`, `BootRecovers` | 39,523 |
| `read_path` | one read, two traders, two retries: `TypeOK`, `NoEarlyGiveUp`, `HealthWasTrue`, `OthersUndisturbed`, `ImplementsAtomicRead`, `ReadsReturn`; a read never goes back (`ReadsAdvance`) | 174,080 |
| `treasury` | two concurrent withdrawals: `TypeOK`, `SentWasCovered`, `ImplementsOrderCall`, `WithdrawalsReturn` | 55,928 |
| `bet_on` | one bet over thirteen answers of Gamma that are well-formed, two that are not, and ten selectors: `BetTypeOK`, `BuysWhatWasAsked`, `RefusesOnlyTheUnknown` | 12,017 |
| `order_book` | every payload of up to three levels: `TypeOK`, `QuotesAreBest`, `GoodLevelsSurvive` | 33,680 |
| `sizing` | twelve prices, eighteen sizes: `TypeOK`, `LargestCleanSize`, `CutOnce` | 2,309 |
| `config` | every chain of arguments: `TypeOK`, `OverridesAgree` | 156 |
| `venue_error_ok`, `double_fill`, `refresh_is_used` | one violation each, see below | |

Bounds.

- `OrderPath`: calls share nothing but the process, so two calls and one crash give
  every interaction; after a crash the handlers are gone and a second one finds the
  same states. Amounts -1 to 2 with `MinBuy = 2` are invalid, zero, below the minimum
  and at it. `MaxSubmits` is the code's 3 and `PostRetries` its 0.
- `Reconcile`: two calls are the fewest that can both be filled; a third one meets the same
  states of the one before it, and the proofs cover any number.
- `BridgeCreds`: two handlers are needed for a race; one rotation, the fewest that leave
  an older key on disk or in a late answer, together with one stray 401, which has the
  two handlers refresh with different keys; one exception (`MaxFailures`), one answer
  without a key (`MaxBlanks`) and one crash each already lead into every degraded
  state. A second rotation gives a third key and no new way of losing one: without the
  liveness properties the run was also made with two (193,880 states), and the proofs
  of the safety properties cover any number.
- `ReadPath`: reads share only pools, and other traders act on them by closing, so one
  read is enough with two traders; two retries have a first, a middle and a last
  attempt, in each of the two GETs of health; two values tell a stale one from a true
  one. The other budgets are covered by the proofs.
- `Treasury`: balances are 0 and 2, amounts -1 to 3 half units: invalid, zero, rounded
  up to the balance, equal to it, and above it. One move takes the balance away, or
  brings it, between the read and the transfer.
- `BetOn`: bets interact only below, in `OrderPath`; labels in both vocabularies, in a
  mixed one and of their own, each with no, one or two token ids; selectors in both
  vocabularies, unknown, a token id, the empty text, and indices up to one too large.
- `OrderBook`: three levels of nine kinds are the fewest that are out of order with a bad one
  between them. `Sizing`: prices in and out of lowest terms with one to four
  decimals, sizes below, at and above their steps, with the venue's two decimals.
  `Config`: each number is negative, zero, positive or NaN; that is all the checks see.

Symmetry is used in `order_path` only, which checks no liveness. `CHECK_DEADLOCK FALSE`
in all but the run of `Config`: a system whose calls have all returned rightly stops, and a
bridge that cannot start stops too.

Fairness.

- `OrderPath!Fairness`: weak fairness of the end of each call, nothing more. Every httpx
  request carries a timeout (`bridge_client.py:131`; `config.py:61` refuses one that is
  not positive), so a waiting call ends even if nobody answers. The timeout of httpx
  bounds each read from the socket; a peer that trickles a response for ever is not
  considered.
- `ReadPath!FairSpec`: the same for every step of a read (`ReadStep`): the event loop runs
  a task that can run, a backoff ends, a request times out.
- `Treasury!FairSpec`: weak fairness of `ClientStep`: the balance read returns, which is
  what `ReadsReturn` shows of it, and the POST times out.
- `BridgeCreds!FairSpec`: the event loop runs each coroutine that can run and the venue
  answers requests; the container runtime starts a process that is down; orders keep
  coming. The last is an assumption on the environment, without which the key is
  never tried and so never re-derived. Rotations, stray 401s, failed derivations and
  crashes are never forced. The liveness properties hold with a crash too, but for
  the torn file and the lost key: each ends in what is wanted, in `Stuck` or in `Keyless`.

## What the code does not do

Runs that end in a violation, each a statement of the repository that the code does
not keep:

- `venue_error_ok`: a refusal in a 200 body (`success: false`) gives `ok=True`, although
  `bridge_client.py:195` says a CLOB error becomes `ok=False`.
- `double_fill`: following `README.md:76-78` literally, a program can have an order filled
  twice: the balance is read while the first submission is still under way. The
  run gives the policy its best case, a balance that shows a fill at once.
- `refresh_is_used`: two refreshes race through the global `creds`; a submission is made
  with an older key than the one its own refresh obtained (`index.mjs:134-136`).

Further disagreements met while modelling. The models contain them as the code has
them, and the properties are stated around them:

- A derivation that fails by returning an object without a key takes the key of a running
  bridge away (`index.mjs:146`), although a refresh is "safe on a 401" (`index.mjs:135`).
  `KeyRecovers` ends in `Keyless` then, and `SettledStays` is about steps without such an
  answer. If every failure of the SDK throws, this does not happen.
- A `bridge_url` of `"/"` passes the check and becomes empty (`config.py:59`, `config.py:68`),
  although it "is required" (`config.py:60`); a copy of that configuration "with the given
  fields replaced" (`config.py:73`) is then refused, which constructing from the same
  arguments is not. `OverridesAgree` says that this is the only such case.
- A NaN in one level raises and costs the whole book (`markets.py:207`), although malformed
  levels are dropped (`markets.py:195`). `GoodLevelsSurvive` says that it is the whole book
  or nothing, and that only a NaN does it.
- The error of a closed pool is a `RuntimeError`, which the fetches do not catch
  (`markets.py:113`), although "only bad arguments ... or bad config" raise
  (`client.py:6-7`). The read ends with `raised`, which `ReadsReturn` counts as its end.
- Two withdrawals may be covered by the same balance, and that balance is not the one
  the transfer is taken from (`client.py:405`, `index.mjs:585`), against "Refuse to
  over-withdraw" (`client.py:397`). What does hold is `SentWasCovered`: each transfer is
  within a balance that its own call read.
- Every BUY is cut to a clean size, a resting one too (`client.py:260`), although "resting
  orders pass size through unchanged" (`client.py:248-249`). `LargestCleanSize` says what
  the code does with all of them.
- A crash inside `fs.writeFile` leaves a truncated file; `loadCreds` treats a malformed
  key as none but rethrows a `SyntaxError`, so the bridge never starts again (`Stuck`).
- The race of `refresh_is_used` may also leave an older key on disk than the one in use
  (`index.mjs:147`, `index.mjs:9`); `KeyRecovers` shows that a restart from it is only a
  setback. `/balance` never re-derives the key (`index.mjs:10`); it recovers when orders
  have recovered the key.
- A POST on a closed pool raises as well (`bridge_client.py:137`), so `withdraw` does, against
  `client.py:378`. Nothing is sent then.
- An outcome without a token id has the empty token (`markets.py:68`), although every
  outcome "carries the token_id needed to place an order" (`markets.py:59-60`); the bridge
  rejects the order, so nothing is bought.
- `parse_market` may raise a `TypeError` or an `AttributeError` that `fetch_market` does not
  catch (`markets.py:120`), although it "returns None" on a parse failure (`markets.py:98-99`).
- A NaN or infinite price or size raises something other than a `ValidationError`
  (`client.py:254`).
- A NaN timeout passes the checks (`config.py:61`); `from_env` raises a plain `ValueError` for a
  text that is no number (`config.py:103`).

## Proofs

The constants are arbitrary but for the named assumptions: any sets of calls, reads,
traders, values, documents and selectors, all natural bounds.

| Assumption | Says |
|---|---|
| `OrderPathAssumption`, `TreasuryAssumption` | amounts and bounds are natural numbers |
| `ReconcileAssumption` | the policy is a Boolean; the marker for "no call yet" is no call (not used by the results on `BetOn`) |
| `BetOnAssumption` | documents and selectors have their types; no token id is the marker for none (not used by the results on `Reconcile`) |
| `OrderBookAssumption` | levels are pairs of natural numbers or markers, which differ; infinity is positive |
| `BridgeCredsAssumption` | the start-up is no order handler; bounds are natural |
| `ReadPathAssumption` | `MaxRetries` is natural; the shared pool is no trader; values are no markers |
| `SizingAssumption` | prices and sizes are positive fractions, units positive |
| `ConfigAssumption` | the markers differ |

`OrderPathProofs`: `AtMostOnce` and its companions are not inductive: they do not say
what may still happen. `IInv` strengthens them with

- `Posted`: a call has sent one request if it has posted and none before;
- `Unread`: a request the bridge has not read has no submissions and no answers;
- `OneAtATime`: every submission but the last was answered 401, and only the last can
  be in transit, so only the last can have taken effect;
- `HonestReply`: a response that says matched is backed by an answer; after a
  response that says refused nothing is in transit and nothing took effect;
- `Origin`: a result is local, a transport error, or read off the response.

Each action has a lemma saying that it preserves `IInv`; `Invariance` combines them.
From it follow `TypeCorrect`, `EffectAtMostOnce`, `RefusalIsFinal`, `MatchIsEarned`,
`RefreshIsLate` and `Refinement` (`Spec => ImplementsOrderCall`: a POST is `Begin`, an
answer that took the order is `TakeEffect`, a result is `Return`, all else stutters).
`RefreshIsLate` says of the answers themselves that a handler that re-derives the key
has had two 401s. `LoopRefinement` (`Spec => ImplementsAuthRetry`) needs `IInv` as well: an
answer can be a rejection of the current submission only, because a submission that is
about to be made has none yet (`LoopFacts`).

`CallerProofs`, on `Reconcile`: every step of the program is a step of `OrderPath` or none, so
`IInv` holds. `NoDoubleFill` is not inductive: it does not say why the calls before the
last cannot take effect any more. `CallerInv` adds that each of them was never posted,
or ended with an outcome the policy acts on (`EarlierInVain`); a finished call stays so
whatever the bridge goes on with (`ProgressInVain`), and an outcome "refused" excludes
an effect (`EffectOfWhom`). With the cautious policy that is
`ResubmitAfterRefusalIsSafe`, for any number of calls. With either policy it is
`DoubleFillNeedsDoubt`: of two calls that both had the order filled one ended
"unknown", so the fills that `double_fill` shows come from acting on an unknown
outcome and from nothing else.

`CallerProofs`, on `BetOn`: `BetInv` adds to `IInv` that a call is still to be made, or that its
token is the one its selector resolves to in a market that was found (`Chosen`), and that
a request with a missing field is closed without a submission (`Rejected`). With
`ResolveIsRight`, which says that what is resolved is denoted and that nothing is
resolved only if nothing is denoted, this gives `OnlyTheChosenIsBought` and
`OnlyTheUnknownIsRefused`. `CallerRefinement` and `BetRefinement` show that both programs
implement `OrderCall`: their own actions begin a call (`RefinesBegin`), the rest are
steps that `Refinement` has dealt with.

`BridgeCredsProofs`: `ClientFollowsCreds` and `TornMeansCutShort` are inductive together
with the types and one fact (`HasKey`): a task that stores or saves a key has had an
answer, with a key or without, so the end of a save always makes the file readable. A
task that is not saving may move without disturbing either property (`QuietMove`); the
steps of a refresh, the starts and the crash have a lemma each. Four results build on it.

- `SettledForGood`: once creds, client, file and every handler between the venue's answer
  and the end of its save hold the registered key, only the venue changes that: by a
  rotation, or by an answer without a key. It is the safety half
  of `KeyRecovers`, and needs to know that start-up code and handlers never run together
  (`BootRunsAlone`): otherwise a failed start could empty `creds` under a handler that is
  about to build the client from it.
- `NoHandlerSpins`: `StepsLeft` falls with every step of a handler and no step of another
  raises it, so an order ends after ten steps of its own at most. What is left of
  `OrdersEnd` is that the steps are taken, which is the fairness.
- `LoneRefreshIsUsed`: if there is one handler only, `RefreshIsUsed` holds; the invariant is that
  `creds` is the key of the task that saves (`OwnKey`). So the defect of the run
  `refresh_is_used` is one of two refreshes at once.
- `LoopRefinement`: the handlers implement `AuthRetry`. A refresh is one stage of it from the
  second 401 to the end of the save, whatever other handlers do to the key meanwhile.

`ReadPathProofs`: `RInv` says that the parts of a read fit its phase, so that an attempt is
made only within the budget (`Placed`); that what an answer in flight shows has been so
since the read began (`Seen`); that results keep what the properties say (`Kept`); and
that a pool that is not open was closed by its owner (`ClosedByOwner`). `ReadRefinement`
maps an answer that carries a value to `Look`, its loss to `Forget`, a result to
`Return`; the retries in between stutter. `NoReadGoesBack` does for reads what
`NoHandlerSpins` does for orders.

`TreasuryProofs`: `TInv` ties each stage of a withdrawal to what the client has checked
(`Staged`), the bridge's handler to the transfers that exist and to what it answered
(`Handled`), and a result to its origin (`Origin`). A call has one POST (`OnePost`), and
rounding to whole units stays within a whole balance. `TreasuryRefinement` shows that
a withdrawal keeps the promise of an order call.

`OrderBookProofs`: `BookInv` says that the book is what `ParseOrderBook` makes of the payload,
and that a quote is the head of its side. The lemmas on `Sorted` show, for any finite
number of items, that ranks are a numbering (`RankNumbers`), so that a side holds each
kept item once and in order (`SortedRearranges`, `SideKeepsGood`); they count with the
library's theorems on finite sets and need no induction over the payload. From there
follow `TypeCorrect`, `QuotesBest` and `GoodSurvive`.

`SizingProofs`: multiples of the least denominator, and only they, are clean
(`Largest`, the result of the lemmas on `Denominator`); so the largest multiple within
the budget is the largest clean size, and cutting it again gives it back.

`ConfigProofs`: arguments stay complete under `Merge`, stripping twice is stripping once,
and each way to make a configuration ends in `Make`. The fields an override is made of
differ from the arguments they go back to in slashes only, so they are refused where
those are not only if a `"/"` has become empty.

Every invariant, action property and refinement of the passing runs is a theorem. Only
model-checked are the liveness properties (`CallsReturn`, `ReadsReturn`,
`WithdrawalsReturn`, `KeyRecovers`, `OrdersEnd`, `BootRecovers`), since fairness and
`ENABLED` are out of the prover's reach.

## Not modelled

- The event ring: `recordEvent` pushes and shifts one array with no `await` in between,
  and nobody acts on what `/recent-events` returns.
- `deposit`, which returns configured values; the slot helpers and
  `market_outcome_price`, which format or look up one value.
- Fill amounts (`filled_shares`, `avg_price`, `spent_usd`), which are passed on as they
  come; wording of messages; console output; the declarations of errors and the package
  surface.
- Delays and backoff times: a later step may happen at any time.
- Concurrent writes that mix inside the key file: each write is taken to replace it.
- Whether a market is still the current slot when it is ordered on: no code relates the
  two.
- The composition of `BridgeCreds` with `OrderPath` in one state space. That the handlers of
  both implement the loop of `AuthRetry` is proved of each; that an accepted submission of
  the one stands for every answer but a 401 of the other is how they are meant.

# The verifier API in TLA+

The program is the FDC2 verifier API: one HTTP server that answers, for one
source, whether a statement about the outside world holds. It serves four
attestation types (TEE availability, payment status, fee proof, multisig account
configuration). Each request is ABI-decoded, handed to the type's verifier under a
25 s deadline, and answered with an envelope: VERIFIED with data, REJECTED (final)
or RETRY. Data comes from a TEE's proxy, CRL distribution points, the Relay and
TeePayments contracts, an XRPL node, and two indexer databases.

What is hard to test in it is concurrency inside a request (parallel branches,
shared CRL fetches, a mutex held over a network call), caches that several requests
write, data sources that move between two reads of one request, the
classification of every failure as final or not, and integer edges. The modules
below model that. Field conversions, routing, ABI, JSON and hashing are left out.

## Inventory

| Part of the code | Module | What it covers |
|---|---|---|
| `teeavailabilitycheck/verifier/crl_cache.go` | `CRLCache` | the whole cache, its singleflight and its callers |
| `teeavailabilitycheck/verifier/url_validation.go`, `fetcher/fetcher.go` | `PinnedFetch` | one fetch: URL and address vetting, pinned dial, timeouts, capped read |
| `pmwnonce/binder.go` | `NonceBinder`, promise: `SequenceOracle` | the sequence check and its LRU |
| `config/tee_availability_check.go` | `TeeConfig` | the settings a TEE verifier is built from |
| `teeavailabilitycheck/verifier/{verifier,claims}.go`, `verifier/types/error.go` | `TeeVerifier` | one TEE verification, its three branches, the Relay cutover |
| `pmwmultisigconfigured/xrp/**`, `api/types/pmw_multisig_account_configured.go` | `MultisigVerifier` | request checks, network pin, verdict |
| `pmwfeeproof/xrp/verifier.go`, `pmwfeeproof/db/repo.go` | `FeeProof` | one fee proof over moving indexes |
| `pmwpaymentstatus/xrp/**`, `db/**`, `instruction/**`, `helper/**` | `PaymentRows`, `PaymentStatus`, promise: `PaymentOracle` | the rows and amounts; several requests over one binder |
| sums of fees and weights | `Totals` | a sum as the number of its units, used by `FeeProof` and `MultisigVerifier` |
| `api/handler/handler.go` (classifiers), fetcher and URL errors | `ErrorChains` | Go error chains and every classifier |
| `api/loader.go`, `api/server.go`, `api/handler/handler.go`, the `service.go` files | `ServerLifecycle` | load, serve, drain, close |
| `config/` (rest), `api/types/` (rest), `api/docs`, health, instruction ids, test helpers | none | see "Not modelled" |

`PROJECT.json` lists every component with its status, the line of every definition,
and the hazards the properties answer to.

## How the modules relate to the code

**ErrorChains.** A Go error is the set of sentinels `errors.Is` or `errors.As` would
find in its chain; nil is the empty set; `%w` adds, `errors.Join` unites, `%v` drops.
`isTransientFetchError`, `classifyDataVerificationError`, `classifyVerifyStatus` and
`classifyVerifyError` are operators over such sets, with the code's order of tests.
`TagFetchError` and `Joined` are what the CRL cache makes of the failures of its
distribution points. Every module with errors extends it.

**CRLCache.** `entries` is the map under `mu`; `flights` the singleflight group, one
call per key with its phase, result and waiters; `goroutine` the two branches
(leaf, intermediate) of each request. One action per critical section or blocking
point: `FetchCRLsForToken` (all checks before the goroutines start), `Lookup`,
`DoChan`, `SelectDone` / `SelectResult` (the two cases of the select), and for the
shared call `Recheck`, `Fetch`, `Store`, `Finish`. `Fetch` gives any CRL, garbage or
an error. `Store` includes the eviction. `Tick` moves the clock; a call in flight
ends within `FlightTime`, as both its lookup and its request have timeouts.

**PinnedFetch.** One fetch, for the CRL cache or for the proxy. `Resolve` makes the
checks before any lookup and starts the lookup's timeout; `LookupAnswers` vets every
record of that moment and pins the first; `Do` dials the pinned address and takes the
status; `Read`, `ReadAll` and `ReadFails` are the capped read; `LookupInterrupted` and
`FetchInterrupted` are the contexts. `Rebind` changes the name's records at any moment,
`Cancel` is the client going away (only the proxy's fetch has a request's context). An
address is how it is written and the network it leads to; the tables of
`isDangerousIP` are predicates on the two. `TransientIffMayPass` also says that the
errors of this module are the ones `ErrorChains` hands to TeeVerifier and CRLCache.

**NonceBinder.** `ll` and `cache` are the two halves of the LRU (the `list.List`
and the map). A request takes three separate steps, `cachedNonce`, `initialNonce`
(the RPC, outside the lock) and `Store`. `getInitialNonce` is a constant function.
uint64 is `0 .. MaxUint`. `SequenceOracle` is the same service without a cache and
with unbounded integers: a question is answered in one step, with nil only for the
assigned sequence. `ImplementsSequenceOracle` maps a request's arguments and verdict
to the question and its answer.

**TeeConfig and TeeVerifier.** `TeeConfig` turns an environment into a configuration
or a refusal: the pair of cutover settings, the chain id, the optional booleans and
the modes that exclude each other. `NewVerifier` is the step that loads it; then one
verification runs. A response is the set of its defects, its two policy ids and
hashes. The challenge is fetched and checked; then `branch` holds the three goroutines
that run in parallel: `DataVerification` (CRLs, then token and claims) and one chain
call per policy. `FetchCRLs` takes the CRL cache by its contract: CRLs, or the join of
what up to `MaxPoints` distribution points fail with, which is what `FailuresAreJoined`
says of CRLCache.
`ContextDone` may happen at any time. `faults` is a history variable: what failed
outside, for the properties that ask whether an answer had a cause. The properties
are stated over the environment the operator set, not over the parsed configuration,
so that a setting that is read wrongly shows.

**MultisigVerifier.** `verifyMu` with its queue, `lastVerified`, the node behind the
URL (which an operator may repoint or which may be down), and per request its place
in `Verify`. Requests wait for the mutex whatever their context says, as in the code.
`lastVerifiedNano` is wall-clock time: `clock` is the time that passed less what
`SetClockBack` took from it. (A clock set forward only brings the next probe forward.)
The verdict operators are `ValidateMultisigRequest`, `validateSignerList`,
`checkAccountFlags` and `validateMultisigConfiguration`.

**PaymentRows and PaymentStatus.** `PaymentRows` has what a row is and what the code
makes of it: decoding, consistency, the amounts from the metadata, the response.
`PaymentStatus` extends it and `NonceBinder`: any number of requests, each with its
stage in `Verify`, run the binder's own actions between their two queries and share its
cache, while the two indexers write rows. Rows are written once and stay; retention is
FeeProof's subject. `PaymentOracle` answers a request in one step from both indexes at
that instant, or tells it to ask again. The service is mapped to it by its indexes,
bodies and answers alone: the step at which the service answers is the instant.

**FeeProof.** One request against the two indexes. The C-chain index gains events in
block order and drops old blocks; the XRP index gains transactions. One action per
query, since the index moves between queries only. A row has a defect or none; the
defects are the ones the code tells apart. The binder is used by what NonceBinder
shows of it: it accepts the assigned sequence only, and may fail. An instruction id is
a hash of the fields it commits to, so an event is found under its payment and reissue
number. Sums are those of `Totals`: the size of the set with one unit for each drop of
each charge, a definition with no recursion.

**ServerLifecycle.** A deployment is a sequence of attestation types. `LoadModule` builds
the verifiers one by one. A constructor is the list of its calls that can fail, each with
what it opens and what the error branch taken there closes, copied from that branch;
`ConstructorFails` takes the branch and then `closeAll`. Then the server serves, is
signalled, drains for `shutdownAfter` and closes the services in order while requests that
outlived the grace still run. A request walks through the reads of its verifier, and each
finds what it wants, finds nothing, or fails (the three calls of the TEE verifier, parallel
in the code, follow one another here: what matters is which connection each one needs).
The CRL cache, which `TeeVerifier.Close` also clears, is memory and `CRLCache`'s subject.

## Runs

All runs are on the `MC*` modules; constants that are functions are defined there.
Four models take their inputs and bounds per *scenario*, a name chosen in `Init`
that never changes: each scenario is rich in one direction and small in the others,
and one run covers them all. A scenario restricts what the outside does, never what
the code does.

| Run | Bounds | Shows |
|---|---|---|
| `crl_sharing` | 2 requests, 2 issuers sharing a key and a URL, 1 slot, TTL 1, 5 times, a CRL that expires early, a point that may be out of reach | `CallsMatchWaiters`, `CacheBounded`, `AnswersBindToIssuer`, `FetchOnlyOnMiss`, `FailuresAreJoined`, `RecentAnswers` |
| `crl_chain` | 1 request with 5 kinds of token, 2 slots for 3 keys, 3 times, failing points and CRLs without a horizon | `OutboundOnlyForTrustedChain`, `StrictRevocation`, `EvictStaleFirst` |
| `crl_liveness` | 2 requests for one key, 1 slot, fair | `EveryRequestAnswered` |
| `payment_service` | `rows`: 1 request, every defect of event and row, every metadata of up to 2 nodes, 2 sequences, written meanwhile; `shared`: 3 requests over 3 accounts, 2 slots, integers up to 7; `evict`: 4 requests | `IndexMatchesList`, `AcceptedIsAssigned`, `KeepsMostRecentlyUsed`, `RefusedOnlyByRPC`, `ResponseIsOfAssignedPayment`, `ReceivedIsGain`, `ImplementsSequenceOracle`, `ImplementsPaymentOracle` |
| `pinned_fetch` | every form and class of address, as a literal, as a name's record, or second to a public one, 1 change of the records, cap 2, bodies up to 4, lookup 1, fetch 2 or 3 | `DialsOnlyVetted`, `WholeBodyOrError`, `TransientIffMayPass`, `EndsInTime` |
| `multisig_requests` | `pin`: 2 requests, 4 kinds of node, TTL 2, 6 times; `deadline`: 3 requests, a node up or down, 7 times; `clock`: 2 requests and a clock set back; `verdict`: every body of up to 4 keys, every list of up to 3 signers | `NoProbeWhileFresh`, `ConclusiveOnlyFromPinnedNode`, `AnsweredInTime`, `OKMeansThresholdOfKeys` |
| `multisig_liveness` | 2 requests, 3 kinds of node, fair | `EveryRequestAnswered` |
| `tee_verdicts` | `settings`: every kind of environment; `evidence`: responses with up to 2 defects; `policies`: ids 1 to 4 around a cutover at 2 and a top of 3; `faults`: every failure of proxy, CRL and chain, every pair of distribution points | `VerifiedMeansGenuine`, `RejectedOnlyForCause`, `RetriedOnlyForFault`, `ClassifiersAgree` |
| `fees` | `window`: 2 payments, up to 2 reissues each against a cap of 1, 2 block times; `defects`: every defect of every row, retention moving; `limits`: 3 payments, batches on either side of every limit (cap 2, ids up to 3); `retention`: sound rows, retention moving | `NoUndercount`, `NoOvercount`, `ActualFeeIsAssigned`, `RejectedOnlyForCause`, `QueriesBounded` |
| `lifecycle` | both deployments, 2 requests, grace 2, deadline 5 (ticks of 5 s) | `NothingLeaks`, `OpenMatchesClosers`, `ClosedOnlyAfterGrace`, `ShutdownEnds` |
| `tee_unusable` | the `evidence` scenario | violated: `UnusableDataIsTerminal` |
| `fee_retention` | the `retention` scenario | violated: `OutsideRetentionIsRefused` |

Why these bounds are enough to meet the cases: two requests suffice for sharing,
cancelling and double fetching, since callers of one key differ only in whether
they are first; one or two slots make eviction happen; a clock a little longer than
TTL plus flight reaches staleness at every step; three requests on the mutex give
one that waits behind a waiter; four requests and two cache slots let a hit come
before an eviction; one change of a name's records puts another answer after the vetted
one; the integer tops are small, so wrap-around is within
reach. Runs with requests as model values use symmetry, except the liveness ones.
The models end when every request has its answer and say so in their configuration
(in CRLCache `Close` stays possible); that nobody waits forever is what the liveness
properties are for.

The two violated runs are disagreements between a text and the code:

* `tee_unusable`: the comment on `ErrTEEResponseMalformed` counts invalid JSON among
  the terminal failures. A body that is no JSON fails inside `FetchJSONPinned` and
  comes back without the sentinel, so it is told RETRY. `docs/SPEC.md` lists such a body
  under 500, as the code has it, so it is the comment that is out of step.
* `fee_retention`: `docs/SPEC.md` says, of requests outside retention in general, that
  they are answered 422. If retention passes a payment's blocks while its proof is computed, the scan takes
  the missing reissue for the end of the list and answers OK with too low an
  estimate. `NoUndercount` shows that it cannot happen while retention has not
  reached the batch's events.

`VerifiedMeansGenuine` and `RejectedOnlyForCause` name one exception each, a node
that lags behind the chain and returns the zero hash for a policy it does not know.
`RetriedOnlyForFault` names four inputs that are told to retry although they will not
change: a proxy URL that validation refuses, a body that is not JSON, a payload whose hash
fails, and a policy id above what any Relay can own. `docs/SPEC.md` documents the first
two under 500. The URL error is mixed, as it says there: a failed lookup carries
`ErrURLValidation` too, and the property counts the timeouts and temporary failures among
those as failures that may pass.
`ConclusiveOnlyFromPinnedNode` allows the pin its TTL plus what the clock was set back.
`NothingLeaks` names the pool of a database whose `configurePool` fails: `initDBWithRetries`
returns there without closing it. That takes a gorm handle without a `*sql.DB`, which
neither driver in use hands out.

## Fairness

`CRLCache`: weak fairness of each goroutine and of each call in flight; the Go
scheduler runs what is runnable and every fetch has a timeout. Nothing is assumed of
cancellation or of the clock. `MultisigVerifier`: weak fairness of each request's
steps, of the boot probe and of handing over the mutex (a Go mutex in starvation mode
hands over in order); every RPC has a timeout. `ServerLifecycle`: weak fairness of
the main goroutine's steps of the shutdown, and of the clock, which nothing stops: it
passes a timeout whether or not anybody has acted on it. Nothing is assumed of the requests
or of their dependencies, so `ShutdownEnds` holds when they hang beyond their own deadline.

## Proofs

TLC checks the instances above; TLAPS proves the safety properties for every value of
the constants: any number of requests, keys, accounts, payments and slots, any integer
width, cap, price or timeout, any length of the bounds on time. Every invariant, action
property and refinement of a passing run is the statement of a theorem. What each
proof assumes of the constants is a named `ASSUME` of the module that declares them,
which TLC evaluates on the runs. The `USE` at the head of each proof module lists the
backends its steps may try, Zenon and SMT in the order that suits the module and each
twice; a step names its own only where the other backend would search in vain.

**`CRLCacheProofs`**, from `ConstantsAssumption` (the constants have their types, there
are finitely many keys, the cache has at least one slot) and `NoneAssumption` (`None` is
no result and no call):

* `CallsReachTheirWaiters`: `Spec => [](TypeOK /\ CallsMatchWaiters)`. `IndInv`, the
  types and the first half (`WaitersWait`), is inductive as it stands and carries the
  other proofs. Types alone are not inductive: that a result read from a channel is a
  result at all needs that only a waiter of the call is written to, and that a call has
  something conclusive when it is done. The second half is the safety core of
  `EveryRequestAnswered`: a caller in the select has its result or is registered with a
  call in flight for its key. A waiter leaves a call only by giving up or when the call
  ends, and then its channel is written in the same step.
* `CacheIsBounded`: `Store` is the only step that adds an entry. The sweep leaves a
  subset, and if that is still full, dropping one entry makes room for one.
* `NoRedundantFetch`: between the re-check and the fetch nobody else can store under
  the key, because a key has one call at a time, and time only makes entries staler.
* `CRLsBindToIssuer`: `BindInv` follows the CRL from the accepted body through the
  call, the cache, the channel and the goroutine into the answer; each hand-over keeps
  the issuer because the key contains it.
* `ErrorsAreTheCallersOwn`: `Spec => []FailuresAreJoined`. `JoinInv` says that a call and
  a channel carry one failure of a fetch or a refused CRL, tagged, and never the end of a
  context; a goroutine adds one failure for each point, or its own context's end, and the
  contexts that are over only grow in number. `CancellationsArePrivate` follows: neither
  a tag nor a failure of a fetch is a cancellation, so one in a caller's error is its
  own context's.
* `RevocationIsStrict`: `StrictInv` adds what a single goroutine comes back with.
* `OutboundIsTrusted`: `OutboundInv` keeps the chain check of `FetchCRLsForToken` for as
  long as the request is fetching; only a goroutine of such a request starts a call.
* `EvictionsSpareTheFresh`: the action property `EvictStaleFirst`, step by step; what is
  left after the sweep has no stale entry, and the one dropped is the oldest.
* `AnswersAreRecent`: `TimeInv` ties three times together (a call began, its CRL was
  obtained, the entry was stored), because a call is over within `FlightTime`. A hit may
  be one TTL and one call old; a waiter may have joined one call later.

**`NonceBinderProofs`**, from `BinderAssumption` (the capacity is at least one; nonces
are of the integer type):

* `OnlyAssignedAccepted`: `Spec => []AcceptedIsAssigned`.
* `AssignedIsAccepted`: `Spec => RefusedOnlyByRPC`, an action property: a step that
  answers from a nonce, cached or read, accepts the assigned sequence.
* `BinderImplementsOracle`: `Spec => ImplementsSequenceOracle`. A lookup that misses,
  the RPC's success and everything done to the cache are stutters; the steps that set
  a verdict are answers of the oracle.
* `IndexAgrees`: `ListInv` is that list and map describe the same entries within the
  capacity. The lemmas say of each operation on the list where every element goes.
* `CacheIsLRU`: `UseInv` is about the history of uses: that the list is ordered by last
  use, that nothing used later than a kept key was dropped, and that every key that was
  used has a last use, which is what lets a step name it.

The first three rest on `BinderInv`, which adds `NoncesAreOnChain` (every nonce in the
list or held by a request is the account's on-chain one: without it an accepted sequence
could come from another account's entry) and that a request that has not asked has no
verdict.

**`PaymentStatusProofs`**, from `RowsAssumption` and `PaymentStatusAssumption` (a failed
query is no verdict; rows have the fields the code reads, amounts are integers; the
metadata of a transaction has one root for an account):

* `ServiceRunsBinder`: `ServiceSpec => Spec`. Every step of the service is a step of the
  binder or leaves it alone, so the binder's theorems hold in the service;
  `ServiceBindsSequence` is one of them.
* `ServiceImplementsOracle`: `ServiceSpec => ImplementsPaymentOracle`. The event was read
  at an earlier step than the transaction; the invariant carries what that read
  established (the event's row is still there and sound, and its decoded message is the
  request's own) up to the second query, where the binder's invariant gives that the
  sequence queried is the assigned one. So the answer is the one both indexes give at
  that second query. That rows are not rewritten is what makes this work.
* `ResponsesAreOfAssignedPayments` and `ReceivedAmountsAreGains`: `ResponseInv` says what
  a response tells of the transaction and the event it was made from. The code takes the
  first node of the recipient that it finds; `FoundIsGain` shows that it is the gain that
  the account roots give, the reference definition.

**`PinnedFetchProofs`**, from `PinnedFetchAssumption` (literals and records are
addresses, bodies have sizes):

* `OnlyVettedIsDialed`, `BodyIsWhole`, `FetchEndsInTime` and `ErrorsTellTheCause`:
  `Spec => []` of `DialsOnlyVetted`, `WholeBodyOrError`, `EndsInTime` and
  `TransientIffMayPass`. `FetchInv` adds to them that nothing is dialled before an
  address is pinned, that a pinned address was vetted, that a call in progress has a
  deadline within the bound and the clock has not passed it, and that no more was read
  than the peer sends or the limit allows. The lemma `NotRefusedIsReachable` is the part
  about the address tables.

**`TeeVerifierProofs`**, from `TeeAssumption` (responses are of the modelled shape, the
failures of a call are of the known kinds):

* `VerdictsAreSound`, `RejectionsLast`, `RetriesMayHelp` and `BothAnswersAgree`:
  `Spec => []` of `VerifiedMeansGenuine`, `RejectedOnlyForCause`, `RetriedOnlyForFault`
  and `ClassifiersAgree`. `TeeInv` says, for each of the three branches, which outcomes it
  may have come back with and which fault or defect each of them has as its cause. The
  lemmas say what the classifiers make of each error that can be built, the join of any
  number of CRL failures included, where an outage in one makes the whole retryable.

**`MultisigVerifierProofs`**, from `MultisigAssumption` (timeouts are positive; bodies and
signer lists have their types, and a list names an account once, as on the ledger). All
rest on `TypeOK` and `MutexInv`: the holder of `verifyMu` is the one request between Lock
and Unlock, and the queue has each waiting request once.

* `ProbesOnlyWhenStale`: `Spec => []NoProbeWhileFresh`; only the holder probes, and it has
  looked under the lock.
* `VerdictsArePinned`: `PinnedInv` bounds when the node last was of the expected network,
  from the confirmation on through every place a request can be in.
* `RequestsEndInTime`: `DeadlineInv`. A waiter does not look at its context, so what
  bounds its wait is the order of the queue: the queue is sorted by arrival, and a
  request that arrived later holds the mutex only by barging in once, after which
  starvation mode hands over in order. So all that is left to run when a waiter's
  deadline comes is one probe.
* `OKIsTheQuorumOfKeys`: `VerdictInv` keeps the reply a verdict is concluded from. The rest
  is about one configuration: as many accounts are listed as there are keys and every key
  is among them, so the list has no other account; all weights are then one, and the
  weight of a set of accounts is the number of keys in it.

**`FeeProofProofs`**, from `FeeProofAssumption` (a failed query is no verdict, prices and
fees are natural, payment ids are from 1 up to the top of the integer type):

* `WorkIsBounded`: `BudgetInv` gives the number of queries made as a bound of the place
  of the scan, `RangeInv` that nothing is asked for a batch over the cap.
* `VerdictsHaveCause`: `ScanInv` says what has been established of every payment the scan
  has passed, `CauseInv` what a final answer was given for.
* `EstimateIsNotTooLow` and `EstimateIsNotTooHigh`. The estimate and both references are
  sizes of sets of units. `EstimateInv` says that there is a set C with as many units as
  the estimate, all of them units of the reference now (so it is not too high), and that
  of the units F that were there when the pay events were read, C has every one the scan
  has passed, unless retention dropped an event of the batch (so it is not too low). It
  needs `OrderInv`, that a payment's events are indexed in block order: a scan that stops
  at an event after `UntilTimestamp` leaves nothing behind it. It needs `ReadInv` too,
  that the pay events read at first are still the ones indexed.
* `ActualFeeIsOfTheBatch`: the code sums over positions of the batch and the reference
  over payments. Position i is payment `PaymentID(i)`, and a sum does not change when its
  terms are renamed one to one (`TotalRenamed`).

**`ServerLifecycleProofs`**, from `LifecycleAssumption` (a deployment is a sequence of
attestation types, timeouts are positive):

* `NoConnectionLeaks` and `OpenAreStillToBeClosed`: `OpenInv` accounts for the open
  connections in every phase. While loading they are those of the closers collected and
  those the calls made so far hold; while closing, those of the closers left and what the
  first has not released yet. `ConstructorFacts` compares, call by call, what an error
  branch closes with what is held there, and what a finished constructor holds with what
  its `Close` releases.
* `GraceIsHonoured`: `RequestInv`, that a running request is at a read of a type that is
  served, and that none runs while the services are closed unless the grace is over. With
  `OpenInv`, by which every connection of a served type is open until then
  (`OpenUntilClosing`), a request can meet a closed one only afterwards.

Only model-checked: `EveryRequestAnswered` (of CRLCache and of MultisigVerifier) and
`ShutdownEnds`, which are liveness under fairness and out of the prover's reach. The two
statements `UnusableDataIsTerminal` and `OutsideRetentionIsRefused` do not hold.

## Not modelled

* The settings of the other attestation types: required strings and addresses, which
  decide nothing later. API types, routing, API keys, health and generated docs, which
  keep no state; ABI, JSON, JWT and hashing, which are libraries; instruction ids,
  which are hashes.
* `Retry` in the fetcher: its only caller asks for one attempt, so its loop never repeats.
  The transport's own timeouts (10 s to dial, 10 s for TLS, 5 s for headers) are longer
  than any fetch lasts, and the work deadline of a request is too.
* The default of the expected audience makes the guard against an empty one
  unreachable; `TeeConfig` has the default and not the guard.
* The settings of the connection pools.
* A contract node that answers zero for an account it does not know yet, listed among
  the hazards: what the contract does then is not in this repository.
* FeeProof and TeeVerifier use the binder and the CRL cache by what is shown of them.
  A composition would multiply two large state spaces; the payment service is the
  composition that shows the binder used by its callers.

A remark on a comment: `crl_cache.go:250` says the shared fetch is bounded by
`crlFetchTimeout`; the code's bound is that of the lookup and of the fetch together
(`dnsLookupTimeout + crlFetchTimeout`), as `EndsInTime` states it.

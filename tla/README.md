# Truth Market in TLA+

Formal models of the truth-market prediction market (Go services over
PostgreSQL and Redis, a frontend and two SDKs), the TLC configurations that check
them, and TLAPS proofs of what the engine, the auth service, the markets, the
rate limiter, the listings, the WebSocket hub, the processes and the clients
guarantee for every size of the system.

## 1. The system

A **market** has two or more **outcomes**. A user mints complete sets (one token
of each outcome per 1.00 paid in), trades the tokens of one outcome in a limit
order book at prices between 0.01 and 0.99, and is paid 1.00 per token of the
winning outcome when the market is resolved.

| Part | Source (`src/`) | State | Operations | Hard part |
|---|---|---|---|---|
| matching engine, one per outcome | `services/trading-svc/internal/matching` | sorted price levels, FIFO queues, maps from order ids, order objects shared with the callers, subscribers' channels; one `RWMutex` | `PlaceOrder`, `CancelOrder`, `RestoreOrder`, `Subscribe`, depth queries | self-trade prevention takes orders off the book and puts them back; events after the lock; full channels |
| engine registry | `matching/registry.go` | market → engine, and in it outcome → book | the engine's operations by market; `CancelOrder` and the depth query probe all engines | an outcome named under two markets has two books |
| trading service | `services/trading-svc/internal/service`, `cmd`, `internal/grpc` | rows of users, positions, orders, trades, mints | `PlaceOrder`, `CancelOrder`, `CancelAllOrdersByMarket`, `MintTokens`, queries; rebuild of the books at start | read-modify-write without row locks, memory and database out of step, cancels without a transaction, restarts |
| market service | `services/market-svc` | rows of markets and outcomes | create, change status, resolve, read, list | check-then-act over a remote sweep and a transaction; status and outcomes read apart |
| PostgreSQL layer | `infra/postgres`, `migrations` | the rows | `WithTx`, typed queries | READ COMMITTED, row locks, deadlocks, foreign keys |
| WebSocket hub | `services/gateway/internal/ws` | client set, topic subscriptions, channels | register, unregister, subscribe, broadcast, stop | three channels taken in any order, slow peers, closed channels |
| REST gateway | `services/gateway/internal/handler`, `middleware`, `router.go` | none | JSON to gRPC and back, authentication, administrators, rate limits | calls that consist of several gRPC calls, words translated twice, statuses of errors |
| authentication | `services/auth-svc` | users, API keys, nonces (Redis) | nonce, login, token and key validation, revocation | two-step consumption of nonces, concurrent first logins |
| rate limiter | `infra/redis/rate_limiter.go` | Redis counters | `Allow` | INCR and EXPIRE are two commands |
| event bus | `infra/redis/publisher.go` | subscriptions | publish, subscribe, close | at most once, errors ignored |
| rankings, portfolio | `services/ranking-svc`, `infra/postgres/ranking_repo.go` | a materialized view | refresh, leaderboard, ranks of a user | pages of a listing that changes, ties, staleness |
| processes | the five `cmd/main.go` | connections, listeners, contexts | start, restore, serve, drain, close | who waits for whom when they stop in any order |
| frontend, SDKs | `frontend/src`, `sdks` | sessions, caches of queries | the REST calls | lost answers, retries, what a client takes an answer for |
| caches, in-memory repositories, logging, tracing | | | | no state of the system |

How they interact: the gateway calls the services over gRPC; the trading service
calls the engine in memory, inside its database transaction; the market service
calls `CancelAllOrdersByMarket` of the trading service over gRPC before its own
transaction on the same database; the services publish events on Redis after
their commits; the hub forwards events to WebSocket clients.

What makes each part correct:

* **engine**: no order lost, duplicated or overfilled; price-time priority; no
  crossed book but between orders of one user; calls atomic; every call returns;
  a subscriber's feed in order.
* **trading**: money is neither made nor lost; locked funds are what open bids may
  cost; tokens are backed by minted sets; filled quantities are those of recorded
  trades; book and rows agree; a cancelled order stays cancelled; calls return.
* **settlement**: a resolution pays the collateral, once; no order survives it;
  resolved and cancelled are final.
* **markets**: a market is seen with its outcomes, moves by valid transitions, is
  resolved together with its winner's flag, and answers tell what happened.
* **authentication**: one account per wallet, one login per nonce, what is revoked
  is refused.
* **rate limiter**: bounded traffic in every stretch of time, and no counter that
  refuses its client for ever.
* **listings**: a client that pages to the end sees every row once, unless it moved.
* **clients**: no call takes effect twice, and what a client is told is so.
* **processes**: books are restored before use, a stop loses nothing and ends.
* **hub**: what is removed is removed completely; nothing but `Stop` ends it; no
  peer can hold it up; goroutines of broken connections end.

## 2. Modules

```
Orderbook ── MatchingEngine ──(refines)── PriceBook
    │              │
    └─ EngineCalls ┴─ EngineAtomicity ── MatchingEngineProofs
           │
           └─ TradingService ── Settlement

Auth ──(refines)── Accounts            Markets ──(refines)── MarketLifecycle
  └─ AuthProofs                           └─ MarketsProofs

Vocabulary ── Clients ── ClientsProofs     RateLimiter ── RateLimiterProofs
Listings ── ListingsProofs                 Services ── ServicesProofs
                                           WsHub ── WsHubProofs
```

* `Orderbook`: the data structure, as operators on sequences of levels (add,
  dequeue the best, remove), without recursion, and the queue of a price
  (`QueueAt`), which is how properties and proofs read a side.
* `MatchingEngine`: the engine. Each `PlaceOrder` is a goroutine with a program
  counter: `Submit`, `Acquire` the mutex, then one step per round of
  `matchOrder`'s loop (`SkipOwn`, `Execute`, `StopMatching`), per order put back
  (`ReAdd`), `Rest` or `Complete` with the unlock, and one per emitted event.
  `Cancel` is one step, as it holds the mutex throughout and does nothing else;
  `GetOrderbookDepth` is what a reader is told when it gets the read lock.
* `PriceBook`: what an order book promises, one queue per side and price: orders
  join at the back, the front of the best price is served, an order may be
  withdrawn. `MatchingEngine` refines it.
* `EngineCalls`: the engine's calls as functions from book and orders to book,
  orders and trades, the two loops as folds. `EngineAtomicity` states that the
  goroutines of `MatchingEngine` do what these functions say, so that the next two
  modules can use one step per engine call; it is checked, and proved.
* `TradingService`: a gRPC call is a process with a program, `todo[c]`, of the
  statements its handler executes: `get` reads a row into `reg[c]` (and checks
  balance or position), `put` writes that row changed by a delta, `set` writes a
  given row, `match` and `withdraw` call the engine, `taker`/`takerset` write the
  taker's row from the order object shared with the engine, `lookup` and `list`
  extend the program by what the rows say. A statement has the name of its query
  (`GetUserByID`, `UpdateUserBalance`, `UpsertPosition`, `CreateOrder`, ...), and
  `ChangeBalance` and `ChangePosition` are the pairs of a read and a write that
  the code makes of them. A handler's operation (`PlaceOrder`, `CancelOrder`,
  ...) starts a program; `Settle`, `CancelProgram` and `SweepProgram` are the
  parts of programs that depend on what was found. With a transaction open,
  writes stay in `writes[c]`, locking their rows, until `Return` commits them;
  `Abort` drops them and leaves the engine as it is. `Refuse` is an error of the
  code itself, `Fail` one of the network or the database, `BreakDeadlock`
  PostgreSQL's, `Restart` a restart of the service.
* `Settlement`: status updates and resolutions as further programs over the same
  rows; `begin` opens the transaction half-way through a resolution, after the
  sweep.
* `Markets`: the administrator's calls and the public reads of markets from the
  HTTP request to its answer. A call is a record with a program counter, one
  command to PostgreSQL or to a service per step: `ReadForUpdate`, `WriteStatus`,
  `CheckClosed`, `Sweep`, `SetWinner`, `PayOut`, `Commit`, and the reads that
  handlers make for their answers. `Fail` is a failed command, `ReplyLost` a
  commit whose answer is lost. `MarketLifecycle` is what market-svc promises: a
  market appears with its outcomes, and each row is one valid transition away
  from a row that a call in flight can have read. `Markets` refines it.
* `Auth`: logins, tokens, API keys and revocations, one command to Redis or
  PostgreSQL per step, with time passing and commands failing. `Accounts` is what
  signing in promises: one account per wallet, kept for ever, and every session
  one of its wallet's account. `Auth` refines it.
* `RateLimiter`: the gateway's pipeline for a request. INCR and EXPIRE are
  separate steps of concurrent requests; `Tick` is time, `Dies` the expiry of a
  key, `CommandFails` a command that fails with or without effect.
* `Listings`: a client reads a listing page by page, each page a count and a
  select, while rows are inserted, change status or score, and the leaderboard's
  view is refreshed; with the page sizes and filters that reach the repository.
* `Vocabulary`: the words for one thing in tables, protocol and REST interface,
  and how each layer translates them. `Clients`: a call of the frontend, an SDK
  or an administrator, through the gateway's handlers to a service and back, and
  what the client's code makes of the answer; requests and answers are lost,
  services fail before or after their effect, and SDKs retry.
* `Services`: the five processes, from `Start` over `Serve`, `Signal`,
  `StopListening`, `Drained` and `Close` to `Exit`, while calls run through several
  of them (`Dial`, `Return`); `Kill` ends one at any time, and a client may `Leave`.
  A handler runs on the context of its caller's request, down to `Begin` and
  `Commit` in `WithTx`: `Cancelled` holds of it as soon as a process above it is
  gone or has closed its connections, or the client has left. It need not notice
  at once, so it may still commit; or its rows roll back while what the engine has
  done stays, and a sweep stops anywhere, also between an order's cancel in the
  engine and in its row (`PlaceOrder`, `CancelAllOrdersByMarket`).
* `WsHub`: `Run` with its three channels (one iteration per step; `run` remembers
  whether it is parked in its `select`, and which channel woke it), and for each
  client the connection, `ReadPump` (with the command it is handing over) and
  `WritePump`.
* `MC*` modules give the constants of the runs.

Names of operators are those of the Go functions where TLA+ allows. A definition
whose comment says *mutated form* is a plausible bug; replacing the definition
that follows it shows that a property notices.

## 3. Runs

| Run | Shows |
|---|---|
| `engine_safe` | structure of the book and its maps, the book as its readers see it, fill accounts and what readers are told of them, limits, price-time priority, uncrossed book; the goroutines implement `EngineCalls` and `PriceBook`: 3 concurrent orders of up to 2 units, 3 prices, cancels |
| `engine_calls` | every `PlaceOrder` returns, whatever it skips; a subscriber with a channel of 2 is told of trades that were made, each once, a taker's in their order |
| `trading_serial` | 4 calls, one at a time, one failing statement and one restart anywhere: money, locks, tokens, fills and books agree |
| `trading_overlap` | 2 of 3 calls at a time, one failing statement: no overdraft, no trade the engine did not make, and calls return although they wait for each other's rows, in cycles too |
| `settle_serial` | 5 calls, one at a time, one failing statement: trading, close, resolution |
| `markets` | 3 overlapping calls on a market in any state, one failed command or lost answer: lifecycle, answers, winner |
| `auth` | 4 calls command by command, one failing: one account per wallet, nonces, revocation |
| `rate_limit` | 2 requests in progress, 2 groups on one key, one failing command, one restart: traffic, counters |
| `listings` | a walk over up to 3 rows with up to 3 changes meanwhile |
| `clients` | 2 calls of any clients, one retry, one fault: effects, answers and words |
| `services` | one call, one old order, all processes, six starts, two signals, kills or clients that leave: books and rows, answers, stops that end |
| `hub` | 2 clients, one anonymous, all channels at their limits: removals are complete, feeds in order, goroutines end |

Further configurations give shorter answers to narrower questions. Each refutes
one claim of a comment or of the API's description, quoted at the property. Where
the table says *with*, the property replaces those of the configuration named:

| Configuration (module) | Property | What happens |
|---|---|---|
| `MCEngineSafe.cfg` (`MCEngine`) with | `QueuesAreFIFO` | an order skipped by self-trade prevention goes to the end of its queue |
| `MCTradingLostUpdate.cfg` (`MCTradingService`) | `LockedIsOpenBuys` | two overlapping orders of one user: one reservation is lost |
| `MCTradingDoubleFill.cfg` | `FilledWithinQuantity` | a fill by a concurrent taker is counted twice in the row |
| `MCTradingSellCancel.cfg` | `TokensConserved` | the tokens of a cancelled sell are gone |
| `MCTradingSerial.cfg` with | `LockedIsOpenBuys` | a restart within a cancel: funds unlocked, order still open |
| `MCTradingSerial.cfg` with | `TokensConserved` | a second mint replaces the first one's tokens |
| `MCTradingSerial.cfg` with | `OpenIsOnBook` | a taker rolls back, and the maker it consumed is open but on no book |
| `MCTradingOverlap.cfg` with | `CancelledIsFinal` | the settlement of a trade overwrites a cancellation |
| `MCSettleTwice.cfg` (`MCSettlement`) | `PaidWithinCollateral` | two overlapping resolutions pay twice |
| `MCSettleTwice.cfg` with | `TerminalIsFinal` | a status update overwrites a resolution |
| `MCSettleLateOrder.cfg` | `ResolvedIsSwept` | an order placed during a resolution survives it |
| `MCSettleLateOrder.cfg` with | `ClosedTakesNoOrders` | a closed market takes orders |
| `MCSettleCancel.cfg` | `CancelledIsUnwound` | a cancelled market refunds nothing |
| `MCMarketsMissing.cfg` (`MCMarkets`) | `MissingIsNotFound` | a market that does not exist is a 500 |
| `MCAuth.cfg` (`MCAuth`) with | `AgentsAreCreated` | a call for an agent is refused as a login without a nonce |
| `MCRateShared.cfg` (`MCRateLimiter`) | `OwnLimit` | one group's requests use up another's limit |
| `MCRateShared.cfg` with | `WithinTheLimit` | twice the limit around the end of a window, which does not slide |
| `MCListingsFilter.cfg` (`MCListings`) | `OnlyMatchesListed` | a filter of orders in the API's words is dropped |
| `MCListingsFilter.cfg` with | `TotalIsOfTheQuery` | the total of orders is the length of the page |
| `MCClients.cfg` (`MCClients`) with | `ShownIsDone` | a refused cancel or resolution is shown as done |
| `MCClients.cfg` with | `RefusalsAreShown` | a refusal is shown as a failed page or as an attribute error |
| `MCClients.cfg` with | `DocumentedWordsAreKnown` | a word of the API's documents is taken for another |
| `MCServices.cfg` (`MCServices`) with | `BooksAreRows` | a client leaves or a gateway is killed during a placement: the order is on the book and has no row |
| `MCHubPanic.cfg` (`WsHub`) | `RunsUntilStopped` | a late subscription leads to a send on a closed channel |
| `MCHubPanic.cfg` with | `UnregisteredIsClosed` | an unregistration overtakes its registration and is lost |
| `MCHubStop.cfg` | `StopEndsRun` | `Stop` while `Run` is busy is lost |

A run is repeated with `tlc -config <cfg> <module>.tla`, a proof with
`tlapm <module>.tla`.

**Bounds.** They are constants, and each case below happens within them.

* Engine: two prices on each side of a crossing and a third between make every
  insertion position of a level; two units make partial fills; three orders make a
  taker that meets two makers, or a maker that is skipped and one behind it; two
  users make own and foreign orders. For liveness TLC supports no symmetry:
  `Canonical` keeps one of the behaviours that differ only by the names of orders
  and users, and `OneLarge` one order of two units, which can make two trades.
* Trading and settlement: four calls are two orders that trade, one that cancels
  or mints, and one more; a trade changes five rows, and every prefix of a program
  is followed by a failure or a restart once (`MaxInFlight`, `MaxFaults`,
  `MaxCrashes`).
* Markets: three calls on one market are a change, a second one between its read
  and its write, and a reader between the two; the initial states are all that a
  market can be in, so that no call is spent on getting there. Auth: four calls
  are two overlapping first logins of a wallet, one later, and one key or
  revocation. `MaxFaults` is one in both, at every command.
* Rate limiter: counts up to one above the larger limit, windows of two ticks,
  two requests between INCR and EXPIRE. Listings: three rows in pages of one to
  three, so that a walk has up to three full pages and the empty one that ends it.
* Clients: two calls share the funds, the order and the market; what third parties
  do to these is `Elsewhere`. A call that only reads is explored alone
  (`Explored`), as it changes nothing for the other. Services: the first starts
  come one after the other (`Explored`), as a process that starts changes nothing
  for others that have not been called; later starts, signals and kills come at
  any time.
* Hub: the channels hold one or two elements, so that each is full and empty in
  some order with every other (`QueueCap`, `CommandCap`, `SendCap`).

Calls and orders are interchangeable, which the safety runs use as symmetry.
`CHECK_DEADLOCK FALSE` is given where a run really stops when its calls have all
been made.

**What the passing runs assume.** The properties of `trading_serial` hold when
calls do not overlap; which of them fail when they do is what the further
configurations show. `RowsAgree` and `CollateralKept` exclude what a cancel cut
short leaves (`torn`, a history variable), and `BookMirrorsRows` what an error
after the engine has acted leaves (`diverged`). `CollateralKept` is an upper bound:
tokens that get lost satisfy it. `BooksAreRestored` excludes starts that could not
list the orders (`unlisted`) and what a handler does whose context has ended
(`cut`, until the next start), and says that only a kill, a gateway that has waited
ten seconds or a client that left ends one. `TradesAreTheEngines` and `TypeOK` hold
beside a lost update and a double count. `ImplementsLifecycle` admits changes from
rows read before. `CounterEnds` speaks of runs without faults, `UnrivalledListedOnce`
of users that share their rank with nobody. `settle_serial` assumes that users
stop trading when the market is closed (`LateOrders = FALSE`), which the code
leaves to them, and makes no cancels, since a cancelled sell loses its tokens.
`GoneIsRemoved` and `OnlyLateCommandsPanic` except clients whose removal overtook
their registration (`early`) or their commands (`late`), `NonceServesOnce` nonces
whose deletion failed or overlapped another login (`slips`), `ListedOnceUnlessMoved`
walks during which a row left or joined the listing, and `StopsLoseNothing` kills
and a gateway that has waited ten seconds (`forced`).

**Fairness.** Engine: a goroutine that can run does (weak), and Go's mutex, whose
starvation mode serves waiters in order, is granted in the end (strong). Trading:
a running call takes its next statement unless it waits for a row; PostgreSQL
aborts a call that waits for itself. This is written out as `Fairness` with
`Able`, the condition under which a statement can run. Rate limiter: a request
that has counted sends its EXPIRE or fails to, and time passes. Services: a process
that can go on does, and so does a handler; nobody has to start, stop or call one.
Hub: goroutines that can
run do, and `select` chooses at random, so it takes from a channel that stays ready
(weak; the strong fairness that Go's queues of blocked goroutines would justify is
not needed); peers and the event bus owe nothing, so `Write` and `BreakConn` are
not fair.

## 4. Proofs

Each holds for every value of the constants, under the module's named assumption
on them (bounds are natural numbers, and values for "none" are none of the
others).

| Module | Theorems | Inductive invariant |
|---|---|---|
| `MatchingEngineProofs` | `EngineTypeCorrect`, `EngineNeverOverfills` | `EngineInv` |
| | `BookIsWellFormed`, `BookRestsInOrder`, `OthersKeepTheirPlace`, `TradesHavePriority`, `EngineImplementsPriceBook` | `BookInv` |
| | `FillsAreTraded`, `EngineQuantitiesAddUp` | `FillsInv`, with `BookInv` |
| | `FeedTellsInOrder` | `FeedInv` |
| | `EngineCallsAreAtomic` | `AtomicInv` |
| `AuthProofs` | `AuthTypeCorrect`, `AuthImplementsAccounts`, `OneLoginPerNonce`, `RevokedKeysAreRefused` | `AccountsInv`, `NonceInv`, `KeysInv` |
| `MarketsProofs` | `MarketsTypeCorrect`, `MarketsImplementLifecycle`, `AnswersAreTrue`, `ResolvedIsShownWithWinner` | `MarketsInv` |
| `RateLimiterProofs` | `LimiterTypeCorrect`, `LastingCounterNeedsAFault`, `WindowNeverProlonged`, `AtMostTwice` | `LimiterInv`, `BudgetInv` |
| `ListingsProofs` | `ListedOnce`, `UnrivalledOnce` | `ListingInv` |
| `WsHubProofs` | `HubTypeCorrect`, `OnlyLateCommands`, `WhoLeavesIsRemoved`, `FeedsAreInOrder` | `HubInv` |
| `ServicesProofs` | `RestartsRestoreBooks`, `OnlyForceLosesAnswers` | `ServicesInv` |
| `ClientsProofs` | `CallsTakeEffectOnce`, `ReportsAreTrue` | `ClientsInv` |

* **Engine.** `EngineInv` is `TypeOK`, `NeverOverfilled` and `CallsAreBacked`
  together. `TypeOK` alone is not inductive: `Execute` adds a fill to two orders,
  and the sums stay in `0..MaxQty` only because the fill is the smaller of two
  remainders, which needs `NeverOverfilled`, which in turn needs the types.
  `CallsAreBacked` says that a call past validation has its order on the heap and
  that a call that has yet to emit has something to emit.
* **Book.** The proofs begin with the data structure, and say of each operator on a
  slice of levels that it leaves a sorted slice sorted and full, and changes one
  queue, that of one price,
  by a join at its back, the loss of its front, or the loss of one order
  (`AddOrderQueues`, `DequeueQueues`, `RemoveQueues`); and of each change of a
  queue what becomes of its members and of who stands before whom. So the proofs
  about the engine never look into a slice again: they read the book as a queue per
  side and price.
  `BookInv` adds to `EngineInv`: the shape of the book (`BookShape`: an order
  stands once, in the queue of its side and price, and in the maps exactly then),
  who holds the mutex (`CallsInv`), that the open orders are those on the book and
  those the holder has skipped, which are its own user's (`SkippedInv`), that open
  orders which cross are of one user (`CrossInv`), and that who stands before an
  order that rested earlier did so because that one was put back (`RestedInv`).
  `BookAtRest` alone says nothing while the mutex is held, and it is then that
  orders are off the book: hence `SkippedInv`. That a taker may come to rest needs
  to be known before it does, when the loop finds no match: the second half of
  `CrossInv` carries it, with what was skipped, to `Rest`. A trade's priority
  and the refinement of `PriceBook` then follow step by step: `SkipOwn`, and
  `Execute` when it fills the maker, serve the front of the best price, `ReAdd` and
  `Rest` join, `Cancel` withdraws, and all other steps are stutters.
* **Quantities.** `FillsInv`: what an order has been filled with is the sum of its
  parts in the trades. `Execute` adds one summand to the sums of two orders, and an
  order that is new has no trade because trades are between orders that were placed.
  That the depth query adds up follows from `BookInv`: the levels of a side
  enumerate the prices of its open orders, one level each, and the queue of a level
  enumerates the open orders of its price, so that the sum along the queue is the
  sum over the set.
* **Feed.** Two orders trade at most once, since a trade leaves one of them with
  nothing (`OneIsSpent`); so an event stands for one trade, and the order of a
  taker's events is that of its trades. `FeedInv` says this of what a call has yet to
  emit, of what a channel holds, and that the first comes after the second: an event
  that finds the channel full is lost, and later ones are still in order.
* **Atomic calls.** `AtomicInv` says where the holder of the mutex is in the call
  that `EngineCalls` defines: after k rounds of the loop its book, orders, trades and
  skipped orders are those of the fold's k-th round (`MatchingInv`), and after k
  orders put back the book is that of the second fold (`ReturningInv`). That the fold
  runs as many rounds as the loop needs is a fact about the data: every round but the
  last takes an order off the book, and the fold has a round for each order placed,
  the taker included. All other goroutines leave alone what the holder reads.
* **Sums and induction.** The library's induction theorems take a predicate, which
  the provers here cannot instantiate. `NatInductive` and `SubsetInductive` say the
  same of a set of numbers and of a collection of sets, and are enough: they give the
  existence of the recursions behind the library's folds and sums, and from these
  the facts about `SumOf` and the loops.
* **Auth.** That the interleaved logins implement `Accounts` rests on `AccountsInv`:
  no two rows of a wallet, each row written by the call it is named after, and a
  row behind every session. The unique index is what the step of two overlapping
  first logins needs. `NonceInv` adds that a nonce read by two logins, neither of
  which has deleted it, is among the `slips`. `KeysInv` says what each call knows
  of the key it read; it is kept because no step makes a key active again.
* **Markets.** `MarketsInv` says of every row that a winner is there exactly when
  the market is resolved and is flagged, of every call what its program counter
  implies about the row it read and the rows it could have read, and of every
  answer that its winner was flagged when it was shown. The step theorem has one
  lemma for each command; each gives the invariant, the abstract step of
  `MarketLifecycle`, or a stutter.
* **Rate limiter.** `LastingCounterIsAFault` is not inductive: it does not exclude
  that the request about to send EXPIRE finds a window that runs already.
  `ExpiryIsPending` does, by saying that only the first request of a key gets there.
  `AtMostTwiceTheLimit` rests on `BudgetInv`: there is an age e such that the requests
  let through less than e ticks ago are the running counter's, and those before it an
  earlier counter's; each counter let at most a limit through. A tick makes everything
  a tick older, and the end of a counter turns its requests into the earlier one's,
  which is sound because the earlier ones have then left the stretch
  (`e >= Window - ttl`).
* **Listings.** A row's place in a listing is a number: of the selected rows as new as
  it, or of the users above it (`PlaceOfRow`, `PlaceOfUser`). `ListingInv` compares it
  with what the pages so far have passed: a row not yet seen is still ahead
  (`MissedInv`), a row seen is behind (`TwiceInv`), a user without rival is seen
  exactly if behind (`RankInv`). New rows only push places up, and rows that leave
  only pull them down; a page that is shorter than asked for has reached the end.
* **Hub.** `HubInv` adds to the types that a client's connection, reader,
  registration and channel agree (`MembersInv`: a closed channel belongs to a
  client that is no member and whose reader has ended), that a closed client with
  commands still queued is a late one (`LateInv`), `GoneIsRemoved`, and the order
  of a feed: what waits in the commands channel is newer than what was sent to a
  client, and that is newer than what was written to it (`FeedInv`).
* **Processes.** `ServicesInv` ties each handler to the process it runs in
  (`HandlersInv`) and to the one that waits for it, unless someone has gone away
  (`CallersInv`), the books to the rows from when they are filled until the service
  has stopped or a handler has acted without its context (`BooksInv`), and a row to
  the call that placed it (`OrdersInv`). `CallersInv` is what makes the second half
  of `BooksAreRestored` inductive (`CutInv`): a handler returns before those that it
  called only when its own context or its process has ended, so a context ends only
  below someone who has gone away (`WhoIsCancelled`).
* **Clients.** `ClientsInv` says of every call that it has had no effect while its
  request is under way, what the status of an answer that is under way says of the
  effect (`StatusOK`; a login may fail with a 401 after its effect, but is not shown
  as refused), that the answer's words are the question's (`ToldOK`), and that a
  success or a refusal is shown only when nothing is under way any more
  (`EffectOK`, `ShownOK`). What is proved of a retry is that 429 alone is repeated
  and is never the answer to a call that had an effect.

Only model-checked: the money, tokens and fills of trading and settlement
(`RowsAgree`, `CollateralKept`, `BookMirrorsRows`, `TradesAreTheEngines`,
`CancelledIsFinal`, `ResolutionPaysCollateral`, `ResolvedIsSwept`, and the types of
`TradingService`). Most of them hold between calls and not within one, and a call is
a program of statements over rows that the engine's answer lengthens: an invariant
would have to say of every suffix of every program what it has still to pay. Liveness
(`PlaceOrderReturns`, `CallsReturn`, `CounterEnds`, `PumpsEnd`, `StopsWhenTold`) needs
fairness and `ENABLED`, which are outside the prover's reach.

## 5. Abstractions, and what is not modelled

* Money, prices and quantities are integers (ticks, units). The database rounds to
  eight decimals and memory does not; amounts within that scale are exact in both.
* One market in `TradingService` and `Settlement`. Calls for several markets share
  only user rows. An order that names the outcome of another market, which nothing
  refuses, is not among the inputs.
* A request that fails validation changes nothing: in `Clients` it is a refusal,
  elsewhere it is left out.
* Ids, timestamps, event payloads and error texts are left out; `arrived` keeps
  the order of `created_at`. `Listings` takes two rows never to be of the same
  microsecond, as the queries have no second key.
* In `Services` an answer is one call to each service: that the gateway reads the
  market again after resolving it is in `Markets`. What a call does to the rows is
  one step there; its statements are in `TradingService`, where a cancelled context
  is one of the failing statements.
* The taker's row is written from an order object that the engine may be
  changing: its status and its filled quantity are read in two separate steps.
* Signatures, hashes and the text of messages are what they are found to be:
  accepted or not.
* Redis publications are left out: errors are ignored, no service reads them, and
  the hub that would is wired to nothing. `WsHub` takes what the bus would deliver
  as an input.
* `average price` of positions is left out: only the queries of the ranking
  service and the unwired `SettlementService.CancelMarket` read it.
* The handler that connects WebSocket clients does not exist yet; `Connect`
  follows the tests of the package (register, then start both pumps).
* Not modelled: `SettlementService.CancelMarket` and `MarketService.ResolveMarket`,
  which `main` wires to no handler; the portfolio and `GetOrder`, which no route
  serves; caches, which no service uses; in-memory repositories, which are doubles
  for tests; wallets and sessions in the browser, the layout of pages, the
  WebSocket clients of the SDKs; generated code beyond its words; configuration,
  logging and tracing.

## 6. Plan

1. Done: engine with depth queries, atomic calls, trading, settlement, markets,
   authentication, rate limiter, listings, vocabulary and clients, processes, hub;
   proofs about every module but `TradingService` and `Settlement`: book and engine,
   its calls and its feed, authentication, markets, rate limiter, listings,
   processes, hub and clients.
2. Proofs next: types and exclusive row locks of `TradingService`, then
   `TradesAreTheEngines`; money by a potential of the statements that a program has
   still to execute.
3. Models next: several markets in `TradingService`, with orders that name another
   market's outcome; the event bus, when a consumer is wired to it.

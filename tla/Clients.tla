------------------------------- MODULE Clients -------------------------------
(***************************************************************************)
(* The calls of the system's clients, the web frontend and the Python and  *)
(* TypeScript SDKs, through the gateway to the services and back: what the *)
(* client may conclude from what it is told.  Requests and answers can be  *)
(* lost, a client stops waiting, a service fails before or after its       *)
(* effect, the gateway limits the rate and one SDK tries again.            *)
(*                                                                         *)
(* All calls are of one user, in several tabs and programs, and share what *)
(* they act upon: the user's funds, one order and one market.  What a      *)
(* service does within a call is one step here; TradingService, Markets,   *)
(* Auth and Listings have its steps.                                       *)
(***************************************************************************)
EXTENDS Integers, FiniteSets, Vocabulary

CONSTANTS
    Calls,        \* calls that are made
    MaxRetries,   \* retries that an SDK is configured with
    Funds,        \* what the user can afford: orders and mints of one unit
    MaxFaults     \* bound: lost messages and failing services

ASSUME ClientsAssumption == {MaxRetries, Funds, MaxFaults} \subseteq Nat

VARIABLES
    call,      \* the calls, as their clients and the wire know them
    effects,   \* how often each call has changed something
    funds,     \* units left
    order,     \* the status of the order that cancels are about
    market,    \* the status of the market that administrators are about
    faults

vars == <<call, effects, funds, order, market, faults>>
things == <<effects, funds, order, market>>

Reads ==
    {"nonce", "me", "markets", "market", "orderbook", "orders", "positions", "rankings",
     "userRanking"}
AdminCalls == {"createMarket", "status", "resolve", "agentUser", "refresh"}

(* Who asks for what; some routes have no client of the repository's. *)
PythonCalls ==
    {"me", "markets", "market", "orderbook", "mint", "place", "cancel", "positions",
     "rankings", "userRanking"}
TypeScriptCalls == PythonCalls \ {"userRanking"}
BrowserCalls ==
    TypeScriptCalls \cup {"nonce", "verify", "orders", "createMarket", "status", "resolve"}
OtherCalls == {"apiKey", "createMarket", "agentUser", "refresh"}
Can ==
    [browser |-> BrowserCalls, python |-> PythonCalls, typescript |-> TypeScriptCalls,
     other |-> OtherCalls]

(* What a call says: a word, "right" or "wrong". *)
Inputs(k, o) ==
    CASE o = "orders"       -> {"open", "ORDER_STATUS_OPEN", "ORDER_STATUS_CANCELLED"}
      [] o = "markets"      -> MarketStatuses
      [] o = "status"       -> DOMAIN statusMap
      [] o = "rankings"     -> {"pnl", "trade_count"}
      [] o = "place"        -> DOMAIN PlacedSide \cup {"wrong"}
      [] o = "createMarket" -> {"binary", "multi"} \cup (IF k = "other" THEN MarketType_value ELSE {})
      [] OTHER              -> {"right", "wrong"}

(* stage: what the client does.  wire: what is under way for it.  told:    *)
(* the words of the answer.  shown: what the client tells its user,        *)
(* "refused" being an error with a 4xx status.                             *)
NoCall ==
    [client |-> "browser", op |-> "place", input |-> "buy", stage |-> "idle",
     attempt |-> 0, wire |-> "nothing", status |-> 0, told |-> {}, shown |-> "nothing"]

Init ==
    /\ call = [c \in Calls |-> NoCall]
    /\ effects = [c \in Calls |-> 0]
    /\ funds = Funds /\ order = "open" /\ market \in {"draft", "closed"} /\ faults = 0

Refused(status) == status \in 400..499

-----------------------------------------------------------------------------
(* Sending.                                                                *)

(* Browser forms do not submit again while they wait: their button is      *)
(* disabled.  Tabs and programs do not know of each other.                 *)
Submit(c) ==
    /\ call[c].stage = "idle"
    /\ \E k \in DOMAIN Can : \E o \in Can[k] : \E i \in Inputs(k, o) :
          call' = [call EXCEPT ![c] =
                     [NoCall EXCEPT !.client = k, !.op = o, !.input = i,
                                    !.stage = "waiting", !.attempt = 1, !.wire = "request"]]
    /\ UNCHANGED <<things, faults>>

-----------------------------------------------------------------------------
(* The gateway's handlers: what they refuse themselves, a body that does   *)
(* not bind or a caller who has no session or is no administrator, and the *)
(* status of their success.                                                *)

(* What requireAdmin answers to a caller who is no administrator. *)
requireAdmin == {403}

GetNonceHandler           == [refuses |-> {},              ok |-> 200]
VerifyHandler             == [refuses |-> {400},           ok |-> 200]
MeHandler                 == [refuses |-> {401},           ok |-> 200]
CreateAPIKeyHandler       == [refuses |-> {400, 401},      ok |-> 201]
ListMarketsHandler        == [refuses |-> {},              ok |-> 200]
GetMarketHandler          == [refuses |-> {},              ok |-> 200]
GetOrderbookHandler       == [refuses |-> {},              ok |-> 200]
MintTokensHandler         == [refuses |-> {400, 401},      ok |-> 200]
PlaceOrderHandler         == [refuses |-> {400, 401},      ok |-> 201]
CancelOrderHandler        == [refuses |-> {401},           ok |-> 200]
ListOrdersHandler         == [refuses |-> {401},           ok |-> 200]
GetPositionsHandler       == [refuses |-> {401},           ok |-> 200]
GetLeaderboardHandler     == [refuses |-> {},              ok |-> 200]
GetUserRankingHandler     == [refuses |-> {},              ok |-> 200]
CreateMarketHandler       == [refuses |-> {400, 401} \cup requireAdmin, ok |-> 201]
UpdateMarketStatusHandler == [refuses |-> {400, 401} \cup requireAdmin, ok |-> 200]
ResolveMarketHandler      == [refuses |-> {400, 401} \cup requireAdmin, ok |-> 200]
CreateAgentUserHandler    == [refuses |-> {400, 401} \cup requireAdmin, ok |-> 201]
RefreshRankingsHandler    == [refuses |-> {401} \cup requireAdmin,     ok |-> 200]

Routes ==
    [nonce |-> GetNonceHandler, verify |-> VerifyHandler, me |-> MeHandler,
     apiKey |-> CreateAPIKeyHandler, markets |-> ListMarketsHandler,
     market |-> GetMarketHandler, orderbook |-> GetOrderbookHandler,
     mint |-> MintTokensHandler, place |-> PlaceOrderHandler, cancel |-> CancelOrderHandler,
     orders |-> ListOrdersHandler, positions |-> GetPositionsHandler,
     rankings |-> GetLeaderboardHandler, userRanking |-> GetUserRankingHandler,
     createMarket |-> CreateMarketHandler, status |-> UpdateMarketStatusHandler,
     resolve |-> ResolveMarketHandler, agentUser |-> CreateAgentUserHandler,
     refresh |-> RefreshRankingsHandler]

(* The limiter's 429 keeps a request from the handlers of its groups, which *)
(* the administrator's routes are not.                                      *)
Limits(op) == IF op \in AdminCalls THEN {} ELSE {429}

(* The limiter writes the error of its answer as an object, with a code and *)
(* a message; the handlers and the authentication write a string.           *)
ErrorIsObject(status) == status = 429

Arrived(c, o) == call[c].wire = "request" /\ call[c].op = o
Right(c) == call[c].input # "wrong"

Answer(c, status, told) ==
    call' = [call EXCEPT ![c].wire = "answer", ![c].status = status, ![c].told = told]

(* A login that fails is not told why. *)
ErrorStatus(op, code) ==
    CASE op = "nonce"  -> 500
      [] op = "verify" -> 401
      [] OTHER         -> handleGRPCError(code)

TurnAway(c) ==
    /\ call[c].wire = "request"
    /\ \E status \in Routes[call[c].op].refuses \cup Limits(call[c].op) : Answer(c, status, {})
    /\ UNCHANGED <<things, faults>>

-----------------------------------------------------------------------------
(* The services' answers.                                                  *)

(* A command of the service fails, or its answer to the gateway is lost. *)
Fault == faults < MaxFaults /\ faults' = faults + 1

Ok(c, told) == Answer(c, Routes[call[c].op].ok, told)
Error(c, err) == Answer(c, ErrorStatus(call[c].op, Code(err)), {})

Nothing == UNCHANGED things
Refuse(c, errs) == (\E err \in errs : Error(c, err)) /\ Nothing /\ UNCHANGED faults
Tell(c, told) == Ok(c, told) /\ Nothing /\ UNCHANGED faults

(* What fails may be the answer to a commit, or the read that follows a    *)
(* change of the order or market for the answer.                           *)
Done(c, told) ==
    /\ effects' = [effects EXCEPT ![c] = @ + 1]
    /\ \/ Ok(c, told) /\ UNCHANGED faults
       \/ Error(c, "of a statement") /\ Fault

ServiceFails(c) ==
    /\ Fault /\ call[c].wire = "request"
    /\ Error(c, "of a statement") /\ Nothing

-----------------------------------------------------------------------------
(* Authentication.                                                         *)

GenerateNonce(c) == Arrived(c, "nonce") /\ Tell(c, {})

VerifySignature(c) ==
    \/ /\ Arrived(c, "verify")
       /\ IF Right(c) THEN Done(c, {}) /\ UNCHANGED <<funds, order, market>>
          ELSE Refuse(c, {"UNAUTHORIZED"})
    \/ Arrived(c, "agentUser") /\ Refuse(c, {"UNAUTHORIZED"})

Me(c) == Arrived(c, "me") /\ Tell(c, {ShownUserType("human")})

CreateAPIKey(c) ==
    Arrived(c, "apiKey") /\ Done(c, {}) /\ UNCHANGED <<funds, order, market>>

-----------------------------------------------------------------------------
(* Trading.                                                                *)

(* A unit of funds buys an order or a set of tokens. *)
Spend(c, told) ==
    IF funds = 0
    THEN Refuse(c, {"INSUFFICIENT_BALANCE"})
    ELSE funds' = funds - 1 /\ Done(c, told) /\ UNCHANGED <<order, market>>

(* A number that cannot be read, a price, or a quantity the engine rejects. *)
PlaceOrder(c) ==
    /\ Arrived(c, "place")
    /\ IF Right(c) THEN Spend(c, {ShownOrderSide(OrderSide(call[c].input))})
       ELSE Refuse(c, {"BAD_REQUEST", "INVALID_PRICE", "of the engine"})

MintTokens(c) ==
    /\ Arrived(c, "mint")
    /\ IF Right(c) THEN Spend(c, {}) ELSE Refuse(c, {"BAD_REQUEST", "of a statement"})

(* The wrong order is another user's or does not exist. *)
CancelOrder(c) ==
    /\ Arrived(c, "cancel")
    /\ IF ~Right(c) THEN Refuse(c, {"FORBIDDEN", "of a statement"})
       ELSE IF order \notin {"open", "partially_filled"} THEN Refuse(c, {"of the engine"})
       ELSE /\ order' = "cancelled"
            /\ Done(c, {ShownOrderStatus("cancelled")}) /\ UNCHANGED <<funds, market>>

ListOrders(c) ==
    /\ Arrived(c, "orders")
    /\ Tell(c, IF OrderFilter(call[c].input) \in {"", order} THEN {ShownOrderStatus(order)} ELSE {})

GetPositions(c) == Arrived(c, "positions") /\ Tell(c, {})

GetOrderbook(c) ==
    /\ Arrived(c, "orderbook")
    /\ IF Right(c) THEN Tell(c, {}) ELSE Refuse(c, {"BAD_REQUEST"})

-----------------------------------------------------------------------------
(* Markets.                                                                *)

(* A binary market has no labels or two, another one two or more.  The     *)
(* frontend's labels have a name that the gateway does not read.           *)
LabelCounts(k) == IF k = "browser" THEN {0} ELSE {0, 2, 3}
FitsType(n, type) == IF type = "binary" THEN n \in {0, 2} ELSE n >= 2

CreateMarket(c) ==
    /\ Arrived(c, "createMarket")
    /\ \E n \in LabelCounts(call[c].client) :
          LET type == CreatedType(call[c].input)
          IN  IF FitsType(n, type)
              THEN Done(c, {ShownMarketType(type)}) /\ UNCHANGED <<funds, order, market>>
              ELSE Refuse(c, {"BAD_REQUEST"})

ListMarkets(c) ==
    /\ Arrived(c, "markets")
    /\ Tell(c, IF MarketFilter(call[c].input) \in {"", market} THEN {ShownMarketStatus(market)} ELSE {})

GetMarket(c) ==
    /\ Arrived(c, "market")
    /\ IF Right(c) THEN Tell(c, {ShownMarketStatus(market)}) ELSE Refuse(c, {"of a statement"})

isValidTransition(from, to) ==
    <<from, to>> \in {<<"draft", "open">>, <<"open", "closed">>,
                      <<"closed", "resolved">>, <<"closed", "cancelled">>}

UpdateMarketStatus(c) ==
    /\ Arrived(c, "status")
    /\ LET to == Word(protoMarketStatusToDomain, statusMap[call[c].input], "draft")
       IN  IF isValidTransition(market, to)
           THEN market' = to /\ Done(c, {ShownMarketStatus(to)}) /\ UNCHANGED <<funds, order>>
           ELSE Refuse(c, {"BAD_REQUEST"})

ResolveMarket(c) ==
    /\ Arrived(c, "resolve")
    /\ IF Right(c) /\ market = "closed"
       THEN /\ market' = "resolved"
            /\ Done(c, {ShownMarketStatus("resolved")}) /\ UNCHANGED <<funds, order>>
       ELSE Refuse(c, {"BAD_REQUEST"})

-----------------------------------------------------------------------------
(* Rankings.  Only who asked knows which dimension the list is ordered by. *)

GetLeaderboard(c) == Arrived(c, "rankings") /\ Tell(c, {RankedBy(call[c].input)})

GetUserRanking(c) ==
    /\ Arrived(c, "userRanking")
    /\ Tell(c, {domainDimensionToProto[d] : d \in GetByUser(Right(c))})

RefreshRankings(c) ==
    Arrived(c, "refresh") /\ Done(c, {}) /\ UNCHANGED <<funds, order, market>>

-----------------------------------------------------------------------------
(* Others fill the order, sweep it, or move the market on. *)
Elsewhere ==
    /\ \/ /\ order \in {"open", "partially_filled"}
          /\ order' \in {"partially_filled", "filled", "cancelled"} \ {order} /\ UNCHANGED market
       \/ market' \in {s \in MarketStatuses : isValidTransition(market, s)} /\ UNCHANGED order
    /\ UNCHANGED <<call, effects, funds, faults>>

(* A request or an answer is lost, or the client stops waiting for it; a   *)
(* request that is under way may still be served.                          *)
Disconnect(c) ==
    /\ Fault /\ call[c].stage = "waiting"
    /\ \E gone \in BOOLEAN :
          call' = [call EXCEPT ![c].stage = "gone", ![c].shown = "failed",
                               ![c].wire = IF gone THEN "nothing" ELSE @]
    /\ UNCHANGED things

-----------------------------------------------------------------------------
(* What the clients make of an answer.                                     *)

Answered(c, k) ==
    /\ call[c].stage = "waiting" /\ call[c].wire = "answer" /\ call[c].client = k

Show(c, what) ==
    /\ call' = [call EXCEPT ![c].stage = "over", ![c].wire = "nothing", ![c].shown = what]
    /\ UNCHANGED <<things, faults>>

ByStatus(status) ==
    IF status < 400 THEN "success" ELSE IF Refused(status) THEN "refused" ELSE "failed"

(* The frontend's request() returns the body of any answer.  Forms look at *)
(* its "ok", and render its error: as a string, an object fails the page.  *)
FormMessage(c) ==
    IF call[c].status >= 400 /\ ErrorIsObject(call[c].status) THEN "broken page"
    ELSE ByStatus(call[c].status)
TradingPanel(c) ==
    Answered(c, "browser") /\ call[c].op \in {"place", "mint"} /\ Show(c, FormMessage(c))

(* A login fails with a message of its own. *)
WalletConnect(c) ==
    /\ Answered(c, "browser") /\ call[c].op \in {"nonce", "verify"}
    /\ Show(c, IF call[c].status < 400 THEN "success" ELSE "failed")

(* The balance of the page stays what it was. *)
RefreshUser(c) ==
    /\ Answered(c, "browser") /\ call[c].op = "me"
    /\ Show(c, IF call[c].status < 400 THEN "success" ELSE "unchanged")

(* A query takes the data of the body: a refusal is shown as no positions. *)
QueryHook(c) ==
    /\ Answered(c, "browser") /\ call[c].op \in Reads \ {"nonce", "me"}
    /\ Show(c, IF call[c].status < 400 THEN "success" ELSE "empty list")

(* The mutations of the order table and of the administrator's page do     *)
(* not look: an answer that arrives is a success.                          *)
OrderTable(c) == Answered(c, "browser") /\ call[c].op = "cancel" /\ Show(c, "success")
AdminPage(c) == Answered(c, "browser") /\ call[c].op \in AdminCalls /\ Show(c, "success")

(* Both SDKs repeat a call that was limited, when they are told to retry.  *)
RetriesErrors(c) == call[c].status >= 429 /\ call[c].attempt <= MaxRetries   \* mutated form
Retries(c) == call[c].status = 429 /\ call[c].attempt <= MaxRetries
Repeat(c) ==
    /\ call' = [call EXCEPT ![c].attempt = @ + 1, ![c].wire = "request"]
    /\ UNCHANGED <<things, faults>>

(* The Python SDK reads every error as an object: what is a string fails   *)
(* with an AttributeError and without a status.                            *)
PythonError(status) ==
    IF status < 400 THEN "success" ELSE IF ErrorIsObject(status) THEN ByStatus(status) ELSE "failed"
PythonRequest(c) ==
    /\ Answered(c, "python")
    /\ IF Retries(c) THEN Repeat(c) ELSE Show(c, PythonError(call[c].status))

TypeScriptRequest(c) ==
    /\ Answered(c, "typescript")
    /\ IF Retries(c) THEN Repeat(c) ELSE Show(c, ByStatus(call[c].status))

OtherRequest(c) == Answered(c, "other") /\ Show(c, ByStatus(call[c].status))

-----------------------------------------------------------------------------
Services(c) ==
    \/ GenerateNonce(c) \/ VerifySignature(c) \/ Me(c) \/ CreateAPIKey(c)
    \/ PlaceOrder(c) \/ MintTokens(c) \/ CancelOrder(c)
    \/ ListOrders(c) \/ GetPositions(c) \/ GetOrderbook(c)
    \/ CreateMarket(c) \/ ListMarkets(c) \/ GetMarket(c)
    \/ UpdateMarketStatus(c) \/ ResolveMarket(c)
    \/ GetLeaderboard(c) \/ GetUserRanking(c) \/ RefreshRankings(c)
    \/ ServiceFails(c)

Receive(c) ==
    \/ TradingPanel(c) \/ WalletConnect(c) \/ RefreshUser(c) \/ QueryHook(c)
    \/ OrderTable(c) \/ AdminPage(c)
    \/ PythonRequest(c) \/ TypeScriptRequest(c) \/ OtherRequest(c)

Next ==
    \/ \E c \in Calls : Submit(c) \/ TurnAway(c) \/ Services(c) \/ Disconnect(c) \/ Receive(c)
    \/ Elsewhere

Spec == Init /\ [][Next]_vars

-----------------------------------------------------------------------------
(* Properties.                                                             *)

(* Whatever is lost or tried again, one call of a client takes effect at   *)
(* most once: an SDK repeats only what the limiter kept from the handler   *)
(* (client.ts:67, rate_limit.go:59-67).                                    *)
NeverTwice == \A c \in Calls : effects[c] <= 1

(* A mutation of the frontend, which does not look at its answer. *)
Mutation(c) == call[c].client = "browser" /\ call[c].op \in AdminCalls \cup {"cancel"}

(* A client that is told of a success has its effect, and one that is told *)
(* of a 4xx has changed nothing in any attempt, so that it may correct the *)
(* call and repeat it; only a failure says nothing (market.go:210-251).    *)
(* An order is on the side that was asked for, a list of markets shows     *)
(* those of the status that was asked for, and a list of orders does so    *)
(* when it is asked in the protocol's word (order.go:56-95, 257-278).      *)
ReportIsTrue ==
    \A c \in Calls :
        /\ call[c].shown = "success" /\ call[c].op \notin Reads /\ ~Mutation(c) => effects[c] = 1
        /\ call[c].shown = "refused" => effects[c] = 0
        /\ call[c].op \in {"place", "markets"} => call[c].told \subseteq {call[c].input}
        /\ call[c].op = "orders" /\ call[c].input \in OrderStatus_value =>
               call[c].told \subseteq {protoOrderStatusToString[call[c].input]}

(* What the frontend says: "Cancelled" (OrderTable.tsx:77) and "Market     *)
(* resolved successfully" (admin/page.tsx:160), for refused calls too.     *)
ShownIsDone ==
    \A c \in Calls : call[c].shown = "success" /\ Mutation(c) => effects[c] = 1

(* The error of an answer is an object that has a code and a message       *)
(* (api/components/schemas.yaml:490): whoever is refused is told.          *)
RefusalsAreShown ==
    \A c \in Calls :
        call[c].stage = "over" /\ Refused(call[c].status) /\ ~Mutation(c) =>
            call[c].shown = "refused"

(* The words of the API's documents: a list of orders filters by "open"    *)
(* (api/trading.yaml:206-221), a ranking by "trade_count"                  *)
(* (api/components/schemas.yaml:394), and a "multi" market is one.         *)
DocumentedWordsAreKnown ==
    \A c \in Calls :
        call[c].told # {} =>
            /\ call[c].op \in {"orders", "rankings"} /\ call[c].input \notin OrderStatus_value =>
                   call[c].told = {call[c].input}
            /\ call[c].op = "createMarket" /\ call[c].input \in {"binary", "multi"} =>
                   call[c].told = {call[c].input}
=============================================================================

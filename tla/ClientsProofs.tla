---------------------------- MODULE ClientsProofs ----------------------------
(***************************************************************************)
(* What a client may conclude from an answer, however many calls are made, *)
(* whoever makes them, how often an SDK tries again and whatever fails.    *)
(***************************************************************************)
EXTENDS Clients, TLAPS

\* The words of an answer are those of the question.
ToldOK(o, i, t) ==
  /\ o \in {"place", "markets"} => t \subseteq {i}
  /\ o = "orders" /\ i \in OrderStatus_value => t \subseteq {protoOrderStatusToString[i]}

\* What the status of an answer says of the effect, which is n.  Only a login
\* hides a failure behind a 401, and only the browser logs in.
StatusOK(o, s, n) ==
  /\ Refused(s) /\ o # "verify" => n = 0
  /\ s < 400 /\ o \notin Reads => n = 1

\* What clients can ask for, as far as the words matter.
AskedOK(k, o, i) ==
  /\ o \in DOMAIN Routes
  /\ o = "verify" => k = "browser"
  /\ o = "place" => i \in {"buy", "sell", "wrong"}
  /\ o = "markets" => i \in MarketStatuses
  /\ o = "orders" => i \in {"open", "ORDER_STATUS_OPEN", "ORDER_STATUS_CANCELLED"}

\* A call has no effect before it is served.  It is shown a success or a
\* refusal only when it is over, and then nothing of it is under way.
EffectOK(r, n) ==
  /\ r.stage = "idle" => n = 0 /\ r.wire = "nothing"
  /\ r.stage = "over" => r.wire = "nothing"
  /\ r.wire = "request" => n = 0
  /\ r.wire = "answer" => StatusOK(r.op, r.status, n)

ShownOK(r, n) ==
  /\ r.stage # "over" => r.shown \notin {"success", "refused"}
  /\ /\ r.shown = "success" /\ r.op \notin Reads
     /\ ~(r.client = "browser" /\ r.op \in AdminCalls \cup {"cancel"})
     => n = 1
  /\ r.shown = "refused" => n = 0

IsCall(r) ==
  r = [client |-> r.client, op |-> r.op, input |-> r.input, stage |-> r.stage,
       attempt |-> r.attempt, wire |-> r.wire, status |-> r.status,
       told |-> r.told, shown |-> r.shown]

CallOK(r, n) ==
  /\ IsCall(r)
  /\ AskedOK(r.client, r.op, r.input)
  /\ ToldOK(r.op, r.input, r.told)
  /\ EffectOK(r, n)
  /\ ShownOK(r, n)

ClientsInv ==
  /\ call = [c \in Calls |-> call[c]]
  /\ effects \in [Calls -> 0..1]
  /\ market \in MarketStatuses
  /\ \A c \in Calls : CallOK(call[c], effects[c])

-----------------------------------------------------------------------------
(* Words                                                                   *)

\* A success of the gateway is below 400, a refusal is not.
LEMMA RoutesAnswer ==
  ASSUME NEW o \in DOMAIN Routes
  PROVE  /\ Routes[o].ok \in {200, 201}
         /\ Routes[o].refuses \subseteq {400, 401, 403}
         /\ Limits(o) \subseteq {429}
<1>1. Routes[o].ok \in {200, 201}
  BY DEF Routes, GetNonceHandler, VerifyHandler, MeHandler, CreateAPIKeyHandler,
    ListMarketsHandler, GetMarketHandler, GetOrderbookHandler, MintTokensHandler,
    PlaceOrderHandler, CancelOrderHandler, ListOrdersHandler, GetPositionsHandler,
    GetLeaderboardHandler, GetUserRankingHandler, CreateMarketHandler,
    UpdateMarketStatusHandler, ResolveMarketHandler, CreateAgentUserHandler,
    RefreshRankingsHandler
<1>2. Routes[o].refuses \subseteq {400, 401, 403}
  BY DEF Routes, GetNonceHandler, VerifyHandler, MeHandler, CreateAPIKeyHandler,
    ListMarketsHandler, GetMarketHandler, GetOrderbookHandler, MintTokensHandler,
    PlaceOrderHandler, CancelOrderHandler, ListOrdersHandler, GetPositionsHandler,
    GetLeaderboardHandler, GetUserRankingHandler, CreateMarketHandler,
    UpdateMarketStatusHandler, ResolveMarketHandler, CreateAgentUserHandler,
    RefreshRankingsHandler, requireAdmin
<1> QED BY <1>1, <1>2 DEF Limits

\* Every error has a status of its own range, and that of a statement is no
\* refusal, except to who logs in.
ErrorStatuses == {400, 401, 403, 404, 409, 500}

LEMMA ErrorsAnswer ==
  \A o, err : /\ ErrorStatus(o, Code(err)) \in ErrorStatuses
              /\ o # "verify" => ErrorStatus(o, Code("of a statement")) = 500
<1> SUFFICES ASSUME NEW o, NEW err
             PROVE  /\ ErrorStatus(o, Code(err)) \in ErrorStatuses
                    /\ o # "verify" => ErrorStatus(o, Code("of a statement")) = 500
  OBVIOUS
<1>1. \A code : handleGRPCError(code) \in {400, 401, 403, 404, 409, 500}
  BY DEF handleGRPCError
<1>2. Code("of a statement") = "Internal"
  BY DEF Code, Word, toGRPCError
<1>3. handleGRPCError("Internal") = 500
  BY DEF handleGRPCError
<1>4. ErrorStatus(o, Code(err)) \in {500, 401} \cup {handleGRPCError(Code(err))}
  BY ONLY TRUE DEF ErrorStatus
<1>5. ASSUME o # "verify"  PROVE ErrorStatus(o, Code("of a statement")) = 500
  BY ONLY <1>2, <1>3, <1>5 DEF ErrorStatus
<1>6. handleGRPCError(Code(err)) \in {400, 401, 403, 404, 409, 500}
  BY ONLY <1>1
<1>7. ErrorStatus(o, Code(err)) \in ErrorStatuses
  BY ONLY <1>4, <1>6 DEF ErrorStatuses
<1> QED BY ONLY <1>5, <1>7

LEMMA SidesAreShown ==
  ASSUME NEW i \in {"buy", "sell"}
  PROVE  ShownOrderSide(OrderSide(i)) = i
BY DEF ShownOrderSide, OrderSide, Word, PlacedSide, protoOrderSideToDomain,
       domainOrderSideToProto, protoOrderSideToString

LEMMA MarketsAreShown ==
  ASSUME NEW s \in MarketStatuses
  PROVE  ShownMarketStatus(s) = s /\ MarketFilter(s) = s
<1>1. ShownMarketStatus(s) = s
  BY DEF MarketStatuses, ShownMarketStatus, Word, domainMarketStatusToProto,
         marketStatusToString, protoMarketStatusToDomain
<1>2. /\ Word(stringToMarketStatus, s, "MARKET_STATUS_UNSPECIFIED") = stringToMarketStatus[s]
      /\ stringToMarketStatus[s] # "MARKET_STATUS_UNSPECIFIED"
      /\ stringToMarketStatus[s] \in DOMAIN protoMarketStatusToDomain
      /\ protoMarketStatusToDomain[stringToMarketStatus[s]] = s
  BY DEF MarketStatuses, Word, stringToMarketStatus, protoMarketStatusToDomain
<1>3. MarketFilter(s) = s
  BY ONLY <1>2 DEF MarketFilter, Word
<1> QED BY <1>1, <1>3

\* A list of orders that is asked for in the protocol's word shows that word's.
AskedWords == {"ORDER_STATUS_OPEN", "ORDER_STATUS_CANCELLED"}
Matches(i, s) == OrderFilter(i) \in {"", s}

LEMMA OrdersAreShown ==
  ASSUME NEW i \in AskedWords, NEW s, Matches(i, s)
  PROVE  ShownOrderStatus(s) = protoOrderStatusToString[i]
<1>1. i \in OrderStatus_value /\ i \in DOMAIN protoOrderStatusToDomain
  BY DEF AskedWords, OrderStatus_value, protoOrderStatusToDomain
<1>2. OrderFilter(i) = protoOrderStatusToDomain[i]
  BY ONLY <1>1 DEF OrderFilter, Word
<1>3. /\ protoOrderStatusToDomain["ORDER_STATUS_OPEN"] = "open"
      /\ protoOrderStatusToDomain["ORDER_STATUS_CANCELLED"] = "cancelled"
  BY DEF protoOrderStatusToDomain
<1>4. \/ i = "ORDER_STATUS_OPEN" /\ s = "open"
      \/ i = "ORDER_STATUS_CANCELLED" /\ s = "cancelled"
  BY <1>2, <1>3 DEF AskedWords, Matches
<1>5. /\ Word(domainOrderStatusToProto, "open", "ORDER_STATUS_UNSPECIFIED")
           = "ORDER_STATUS_OPEN"
      /\ Word(domainOrderStatusToProto, "cancelled", "ORDER_STATUS_UNSPECIFIED")
           = "ORDER_STATUS_CANCELLED"
  BY DEF Word, domainOrderStatusToProto
<1>6. i \in DOMAIN protoOrderStatusToString
  BY DEF AskedWords, protoOrderStatusToString
<1> QED BY ONLY <1>4, <1>5, <1>6 DEF ShownOrderStatus, Word

-----------------------------------------------------------------------------
(* Steps                                                                   *)

LEMMA InitInv == Init => ClientsInv
<1> SUFFICES ASSUME Init  PROVE ClientsInv
  OBVIOUS
<1>1. call = [c \in Calls |-> NoCall] /\ effects = [c \in Calls |-> 0]
  BY DEF Init
<1>2. market \in MarketStatuses
  BY DEF Init, MarketStatuses
<1>3. CallOK(NoCall, 0)
  <2>1. AskedOK(NoCall.client, NoCall.op, NoCall.input)
    BY DEF AskedOK, NoCall, Routes
  <2>2. IsCall(NoCall) /\ ToldOK(NoCall.op, NoCall.input, NoCall.told)
    BY DEF IsCall, ToldOK, NoCall
  <2>3. EffectOK(NoCall, 0) /\ ShownOK(NoCall, 0)
    BY DEF EffectOK, ShownOK, NoCall
  <2> QED BY <2>1, <2>2, <2>3 DEF CallOK
<1> HIDE DEF NoCall
<1> QED BY <1>1, <1>2, <1>3 DEF ClientsInv

\* A step of one call, which says how often that has taken effect.
LEMMA CallSteps ==
  ASSUME ClientsInv, NEW c \in Calls, NEW r, NEW n \in 0..1,
         call' = [call EXCEPT ![c] = r], effects' = [effects EXCEPT ![c] = n],
         CallOK(r, n), market' \in MarketStatuses
  PROVE  ClientsInv'
<1>1. call' = [d \in Calls |-> call'[d]] /\ call'[c] = r
      /\ \A d \in Calls \ {c} : call'[d] = call[d]
  BY DEF ClientsInv
<1>2. effects' \in [Calls -> 0..1] /\ effects'[c] = n
      /\ \A d \in Calls \ {c} : effects'[d] = effects[d]
  BY DEF ClientsInv
<1>3. \A d \in Calls : CallOK(call'[d], effects'[d])
  BY <1>1, <1>2 DEF ClientsInv
<1> QED BY ONLY <1>1, <1>2, <1>3, market' \in MarketStatuses DEF ClientsInv

LEMMA NoEffect ==
  ASSUME ClientsInv, NEW c \in Calls, UNCHANGED effects
  PROVE  effects' = [effects EXCEPT ![c] = effects[c]] /\ effects[c] \in 0..1
BY DEF ClientsInv

\* What a call is while it is under way to a handler.
LEMMA Requested ==
  ASSUME ClientsInv, NEW c \in Calls, call[c].wire = "request"
  PROVE  /\ effects[c] = 0 /\ IsCall(call[c])
         /\ AskedOK(call[c].client, call[c].op, call[c].input)
         /\ ToldOK(call[c].op, call[c].input, {})
         /\ call[c].stage \notin {"idle", "over"}
         /\ call[c].shown \notin {"success", "refused"}
BY DEF ClientsInv, CallOK, EffectOK, ShownOK, ToldOK

\* How each step changes the fields of a call.
Fields(k, o, i, g, a, w, s, t, h) ==
  [client |-> k, op |-> o, input |-> i, stage |-> g, attempt |-> a, wire |-> w,
   status |-> s, told |-> t, shown |-> h]

LEMMA FieldsOf ==
  ASSUME NEW q, IsCall(q)
  PROVE  \E k, o, i, g, a, w, s, t, h : q = Fields(k, o, i, g, a, w, s, t, h)
<1>1. q = Fields(q.client, q.op, q.input, q.stage, q.attempt, q.wire, q.status, q.told, q.shown)
  BY Zenon DEF IsCall, Fields
<1> QED BY ONLY <1>1, Zenon

\* One field at a time: the provers lose sight of several.
LEMMA AnswerFields ==
  ASSUME NEW q, IsCall(q), NEW s, NEW t
  PROVE  [q EXCEPT !.wire = "answer", !.status = s, !.told = t]
           = Fields(q.client, q.op, q.input, q.stage, q.attempt, "answer", s, t, q.shown)
<1>1. PICK k, o, i, g, a, w, ss, tt, h : q = Fields(k, o, i, g, a, w, ss, tt, h)
  BY FieldsOf
<1>2. /\ q.client = k /\ q.op = o /\ q.input = i /\ q.stage = g /\ q.attempt = a
      /\ q.wire = w /\ q.status = ss /\ q.told = tt /\ q.shown = h
  BY ONLY <1>1 DEF Fields
<1> DEFINE q1 == [q EXCEPT !.wire = "answer"]
           q2 == [q1 EXCEPT !.status = s]
           q3 == [q2 EXCEPT !.told = t]
<1>3. [q EXCEPT !.wire = "answer", !.status = s, !.told = t] = q3
  BY ONLY TRUE
<1>4. q1 = Fields(k, o, i, g, a, "answer", ss, tt, h)
  BY ONLY <1>1 DEF Fields
<1> HIDE DEF q1
<1>5. q2 = Fields(k, o, i, g, a, "answer", s, tt, h)
  BY ONLY <1>4 DEF Fields
<1> HIDE DEF q2
<1>6. q3 = Fields(k, o, i, g, a, "answer", s, t, h)
  BY ONLY <1>5 DEF Fields
<1> HIDE DEF q3
<1> QED BY ONLY <1>2, <1>3, <1>6

\* A call is answered with a status that says how often it has taken effect,
\* and with words that it asked for.
AnswersWell(c, s, t, n) ==
  /\ Answer(c, s, t)
  /\ effects' = [effects EXCEPT ![c] = n]
  /\ StatusOK(call[c].op, s, n)
  /\ ToldOK(call[c].op, call[c].input, t)

LEMMA AnswerKeeps ==
  ASSUME ClientsInv, NEW c \in Calls, call[c].wire = "request", NEW s, NEW t, NEW n \in 0..1,
         AnswersWell(c, s, t, n), market' \in MarketStatuses
  PROVE  ClientsInv'
<1> DEFINE q == call[c]
           r == [q EXCEPT !.wire = "answer", !.status = s, !.told = t]
<1>1. call' = [call EXCEPT ![c] = r]
  BY DEF AnswersWell, Answer
<1>2. IsCall(q) /\ AskedOK(q.client, q.op, q.input) /\ q.stage \notin {"idle", "over"}
      /\ q.shown \notin {"success", "refused"}
  BY Requested
<1>3. r = Fields(q.client, q.op, q.input, q.stage, q.attempt, "answer", s, t, q.shown)
  BY <1>2, AnswerFields
<1>4. StatusOK(q.op, s, n) /\ ToldOK(q.op, q.input, t)
      /\ effects' = [effects EXCEPT ![c] = n]
  BY DEF AnswersWell
<1> HIDE DEF q, r
<1>5. CallOK(r, n)
  BY ONLY <1>2, <1>3, <1>4 DEF CallOK, IsCall, EffectOK, ShownOK, Fields
<1> QED BY ONLY ClientsInv, c \in Calls, n \in 0..1, market' \in MarketStatuses,
                <1>1, <1>4, <1>5, CallSteps

\* A service that refuses or fails before its effect.
LEMMA ErrorKeeps ==
  ASSUME ClientsInv, NEW c \in Calls, call[c].wire = "request", NEW err, Error(c, err), Nothing
  PROVE  ClientsInv'
<1> DEFINE o == call[c].op
           s == ErrorStatus(o, Code(err))
<1> HIDE DEF o
<1>1. s \in ErrorStatuses
  BY ErrorsAnswer
<1> USE DEF o
<1>2. effects[c] = 0 /\ ToldOK(call[c].op, call[c].input, {})
  BY Requested
<1>3. Answer(c, s, {})
  BY DEF Error
<1>4. effects' = [effects EXCEPT ![c] = 0] /\ market' \in MarketStatuses
  BY <1>2, NoEffect DEF Nothing, things, ClientsInv
<1> HIDE DEF s
<1>5. AnswersWell(c, s, {}, 0)
  BY ONLY <1>1, <1>2, <1>3, <1>4 DEF AnswersWell, StatusOK, Refused, ErrorStatuses
<1> QED BY <1>4, <1>5, AnswerKeeps

LEMMA RefuseKeeps ==
  ASSUME ClientsInv, NEW c \in Calls, call[c].wire = "request", NEW errs, Refuse(c, errs)
  PROVE  ClientsInv'
BY ErrorKeeps DEF Refuse

LEMMA TurnAwayKeeps ==
  ASSUME ClientsInv, NEW c \in Calls, TurnAway(c)
  PROVE  ClientsInv'
<1>1. call[c].wire = "request"
  BY DEF TurnAway
<1>2. effects[c] = 0 /\ ToldOK(call[c].op, call[c].input, {}) /\ call[c].op \in DOMAIN Routes
  BY <1>1, Requested DEF AskedOK
<1>3. PICK s \in Routes[call[c].op].refuses \cup Limits(call[c].op) : Answer(c, s, {})
  BY DEF TurnAway
<1>4. s \in {400, 401, 403, 429}
  BY <1>2, <1>3, RoutesAnswer
<1>5. effects' = [effects EXCEPT ![c] = 0] /\ market' \in MarketStatuses
  BY <1>2, NoEffect DEF TurnAway, things, ClientsInv
<1>6. AnswersWell(c, s, {}, 0)
  BY ONLY <1>2, <1>3, <1>4, <1>5 DEF AnswersWell, StatusOK, Refused
<1> QED BY <1>1, <1>5, <1>6, AnswerKeeps

\* A service that only reads.
LEMMA TellKeeps ==
  ASSUME ClientsInv, NEW c \in Calls, call[c].wire = "request", NEW told, Tell(c, told),
         call[c].op \in Reads, ToldOK(call[c].op, call[c].input, told)
  PROVE  ClientsInv'
<1> DEFINE s == Routes[call[c].op].ok
<1>1. effects[c] = 0 /\ call[c].op \in DOMAIN Routes
  BY Requested DEF AskedOK
<1>2. s \in {200, 201}
  BY <1>1, RoutesAnswer
<1>3. Answer(c, s, told)
  BY DEF Tell, Ok
<1>4. effects' = [effects EXCEPT ![c] = 0] /\ market' \in MarketStatuses
  BY <1>1, NoEffect DEF Tell, Nothing, things, ClientsInv
<1> HIDE DEF s
<1>5. AnswersWell(c, s, told, 0)
  BY <1>2, <1>3, <1>4 DEF AnswersWell, StatusOK, Refused
<1> QED BY <1>4, <1>5, AnswerKeeps

\* A service that takes effect, and may fail to say so.
LEMMA DoneKeeps ==
  ASSUME ClientsInv, NEW c \in Calls, call[c].wire = "request", NEW told, Done(c, told),
         ToldOK(call[c].op, call[c].input, told), market' \in MarketStatuses
  PROVE  ClientsInv'
<1>1. /\ effects[c] = 0 /\ call[c].op \in DOMAIN Routes
      /\ ToldOK(call[c].op, call[c].input, {})
  BY Requested DEF AskedOK
<1>2. effects' = [effects EXCEPT ![c] = 1]
  <2>1. effects' = [effects EXCEPT ![c] = effects[c] + 1]  BY DEF Done
  <2>2. effects[c] + 1 = 1  BY <1>1
  <2> QED BY ONLY <2>1, <2>2
<1>3. CASE Ok(c, told)
  <2> DEFINE s == Routes[call[c].op].ok
  <2>1. s \in {200, 201}
    BY <1>1, RoutesAnswer
  <2>2. Answer(c, s, told)
    BY <1>3 DEF Ok
  <2> HIDE DEF s
  <2>3. AnswersWell(c, s, told, 1)
    BY <1>2, <2>1, <2>2 DEF AnswersWell, StatusOK, Refused
  <2> QED BY <2>3, AnswerKeeps
<1>4. CASE Error(c, "of a statement")
  <2> DEFINE o == call[c].op
             s == ErrorStatus(o, Code("of a statement"))
  <2> HIDE DEF o
  <2>1. s \in ErrorStatuses /\ (o # "verify" => s = 500)
    BY ErrorsAnswer
  <2> USE DEF o
  <2>2. Answer(c, s, {})
    BY <1>4 DEF Error
  <2> HIDE DEF s
  <2>3. AnswersWell(c, s, {}, 1)
    BY ONLY <1>1, <1>2, <2>1, <2>2 DEF AnswersWell, StatusOK, Refused, ErrorStatuses
  <2> QED BY <2>3, AnswerKeeps
<1> QED BY <1>3, <1>4 DEF Done

-----------------------------------------------------------------------------
(* The services                                                            *)

\* Only orders and lists of them or of markets have words that count.
LEMMA AnyWords ==
  ASSUME NEW o, NEW i, NEW t, o \notin {"place", "markets", "orders"}
  PROVE  ToldOK(o, i, t)
BY DEF ToldOK

\* The routes that only read, with words that do not count.
LEMMA ReadsKeep ==
  ASSUME ClientsInv, NEW c \in Calls,
         \/ GenerateNonce(c) \/ Me(c) \/ GetPositions(c) \/ GetOrderbook(c) \/ GetMarket(c)
         \/ GetLeaderboard(c) \/ GetUserRanking(c)
  PROVE  ClientsInv'
<1>1. /\ call[c].wire = "request"
      /\ call[c].op \in Reads \ {"markets", "orders"}
  BY DEF GenerateNonce, Me, GetPositions, GetOrderbook, GetMarket, GetLeaderboard,
         GetUserRanking, Arrived, Reads
<1>2. (\E told : Tell(c, told)) \/ (\E errs : Refuse(c, errs))
  BY DEF GenerateNonce, Me, GetPositions, GetOrderbook, GetMarket, GetLeaderboard,
         GetUserRanking
<1>3. ASSUME NEW told, Tell(c, told)  PROVE ClientsInv'
  <2>1. ToldOK(call[c].op, call[c].input, told)
    BY <1>1, AnyWords DEF Reads
  <2> QED BY <1>1, <1>3, <2>1, TellKeeps
<1> QED BY <1>1, <1>2, <1>3, RefuseKeeps

LEMMA ListMarketsKeeps ==
  ASSUME ClientsInv, NEW c \in Calls, ListMarkets(c)
  PROVE  ClientsInv'
<1>1. call[c].wire = "request" /\ call[c].op = "markets"
  BY DEF ListMarkets, Arrived
<1>2. call[c].input \in MarketStatuses /\ market \in MarketStatuses
  BY <1>1, Requested DEF AskedOK, ClientsInv
<1>3. MarketFilter(call[c].input) = call[c].input /\ ShownMarketStatus(market) = market
  BY <1>2, MarketsAreShown
<1> DEFINE told == IF MarketFilter(call[c].input) \in {"", market}
                   THEN {ShownMarketStatus(market)} ELSE {}
<1>4. Tell(c, told)
  BY DEF ListMarkets
<1>5. call[c].input # ""
  BY <1>2 DEF MarketStatuses
<1>6. told \subseteq {call[c].input}
  BY <1>3, <1>5
<1> HIDE DEF told
<1>7. ToldOK(call[c].op, call[c].input, told)
  BY <1>1, <1>6 DEF ToldOK
<1> QED BY <1>1, <1>4, <1>7, TellKeeps DEF Reads

LEMMA ListOrdersKeeps ==
  ASSUME ClientsInv, NEW c \in Calls, ListOrders(c)
  PROVE  ClientsInv'
<1>1. call[c].wire = "request" /\ call[c].op = "orders"
  BY DEF ListOrders, Arrived
<1>2. call[c].input \in {"open", "ORDER_STATUS_OPEN", "ORDER_STATUS_CANCELLED"}
  BY <1>1, Requested DEF AskedOK
<1> DEFINE told == IF OrderFilter(call[c].input) \in {"", order}
                   THEN {ShownOrderStatus(order)} ELSE {}
<1>3. Tell(c, told)
  BY DEF ListOrders
<1>4. ASSUME call[c].input \in OrderStatus_value
      PROVE  told \subseteq {protoOrderStatusToString[call[c].input]}
  <2>1. "open" \notin OrderStatus_value
    BY DEF OrderStatus_value, protoOrderStatusToDomain
  <2> DEFINE i == call[c].input
  <2>2. i \in AskedWords
    BY <1>2, <1>4, <2>1 DEF AskedWords
  <2> HIDE DEF i
  <2>3. ASSUME Matches(i, order)
        PROVE  ShownOrderStatus(order) = protoOrderStatusToString[i]
    BY ONLY <2>2, <2>3, OrdersAreShown
  <2> QED BY <2>3 DEF i, Matches
<1> HIDE DEF told
<1>5. ToldOK(call[c].op, call[c].input, told)
  BY <1>1, <1>4 DEF ToldOK
<1> QED BY <1>1, <1>3, <1>5, TellKeeps DEF Reads

LEMMA PlaceOrderKeeps ==
  ASSUME ClientsInv, NEW c \in Calls, PlaceOrder(c)
  PROVE  ClientsInv'
<1>1. call[c].wire = "request" /\ call[c].op = "place"
  BY DEF PlaceOrder, Arrived
<1>2. CASE Right(c)
  <2> DEFINE i == call[c].input
             t == {ShownOrderSide(OrderSide(i))}
  <2>1. i \in {"buy", "sell"}
    BY <1>1, <1>2, Requested DEF AskedOK, Right
  <2>2. Spend(c, t)
    BY <1>2 DEF PlaceOrder
  <2> HIDE DEF i
  <2>3. t = {i}
    BY <2>1, SidesAreShown
  <2> HIDE DEF t
  <2>4. ToldOK(call[c].op, call[c].input, t)
    BY <1>1, <2>3 DEF ToldOK, i
  <2>5. CASE Refuse(c, {"INSUFFICIENT_BALANCE"})
    BY <1>1, <2>5, RefuseKeeps
  <2>6. CASE Done(c, t) /\ UNCHANGED market
    BY <1>1, <2>4, <2>6, DoneKeeps DEF ClientsInv
  <2> QED BY <2>2, <2>5, <2>6 DEF Spend
<1>3. CASE ~Right(c)
  BY <1>1, <1>3, RefuseKeeps DEF PlaceOrder
<1> QED BY <1>2, <1>3

\* The other services that take effect, or refuse.
LEMMA CommandsKeep ==
  ASSUME ClientsInv, NEW c \in Calls,
         \/ VerifySignature(c) \/ CreateAPIKey(c) \/ MintTokens(c) \/ CancelOrder(c)
         \/ CreateMarket(c) \/ UpdateMarketStatus(c) \/ ResolveMarket(c) \/ RefreshRankings(c)
  PROVE  ClientsInv'
<1>1. /\ call[c].wire = "request"
      /\ call[c].op \notin {"place", "markets", "orders"}
  BY DEF VerifySignature, CreateAPIKey, MintTokens, CancelOrder, CreateMarket,
         UpdateMarketStatus, ResolveMarket, RefreshRankings, Arrived
<1>2. ASSUME NEW told, Done(c, told), market' \in MarketStatuses  PROVE ClientsInv'
  <2>1. ToldOK(call[c].op, call[c].input, told)
    BY <1>1, AnyWords
  <2> QED BY <1>1, <1>2, <2>1, DoneKeeps
<1>3. ASSUME NEW errs, Refuse(c, errs)  PROVE ClientsInv'
  BY <1>1, <1>3, RefuseKeeps
<1>4. market \in MarketStatuses
  BY DEF ClientsInv
<1>5. \A from, to : isValidTransition(from, to) => to \in MarketStatuses
  BY DEF isValidTransition, MarketStatuses
<1>6. CASE VerifySignature(c) \/ CreateAPIKey(c) \/ RefreshRankings(c)
  BY <1>2, <1>3, <1>4, <1>6 DEF VerifySignature, CreateAPIKey, RefreshRankings
<1>7. CASE MintTokens(c)
  BY <1>2, <1>3, <1>4, <1>7 DEF MintTokens, Spend
<1>8. CASE CancelOrder(c)
  BY <1>2, <1>3, <1>4, <1>8 DEF CancelOrder
<1>9. CASE CreateMarket(c)
  BY <1>2, <1>3, <1>4, <1>9 DEF CreateMarket
<1>10. CASE UpdateMarketStatus(c)
  <2> DEFINE to == Word(protoMarketStatusToDomain, statusMap[call[c].input], "draft")
  <2>1. \/ isValidTransition(market, to) /\ market' = to /\ Done(c, {ShownMarketStatus(to)})
        \/ Refuse(c, {"BAD_REQUEST"})
    BY <1>10 DEF UpdateMarketStatus
  <2> HIDE DEF to
  <2> QED BY <1>2, <1>3, <1>5, <2>1
<1>11. CASE ResolveMarket(c)
  <2>1. "resolved" \in MarketStatuses  BY DEF MarketStatuses
  <2> QED BY <1>2, <1>3, <1>11, <2>1 DEF ResolveMarket
<1> QED BY <1>6, <1>7, <1>8, <1>9, <1>10, <1>11

LEMMA ServicesKeep ==
  ASSUME ClientsInv, NEW c \in Calls, Services(c)
  PROVE  ClientsInv'
<1>1. CASE ServiceFails(c)
  BY <1>1, ErrorKeeps DEF ServiceFails
<1> QED
  BY <1>1, ReadsKeep, ListMarketsKeeps, ListOrdersKeeps, PlaceOrderKeeps, CommandsKeep
  DEF Services

-----------------------------------------------------------------------------
(* The clients                                                             *)

LEMMA SubmitFields ==
  ASSUME NEW k, NEW o, NEW i
  PROVE  [NoCall EXCEPT !.client = k, !.op = o, !.input = i,
                        !.stage = "waiting", !.attempt = 1, !.wire = "request"]
           = Fields(k, o, i, "waiting", 1, "request", 0, {}, "nothing")
<1> DEFINE q1 == [NoCall EXCEPT !.client = k]
           q2 == [q1 EXCEPT !.op = o]
           q3 == [q2 EXCEPT !.input = i]
           q4 == [q3 EXCEPT !.stage = "waiting"]
           q5 == [q4 EXCEPT !.attempt = 1]
           q6 == [q5 EXCEPT !.wire = "request"]
<1>1. [NoCall EXCEPT !.client = k, !.op = o, !.input = i,
                     !.stage = "waiting", !.attempt = 1, !.wire = "request"] = q6
  BY ONLY TRUE
<1>2. q1 = Fields(k, "place", "buy", "idle", 0, "nothing", 0, {}, "nothing")
  BY ONLY TRUE DEF Fields, NoCall
<1> HIDE DEF q1
<1>3. q2 = Fields(k, o, "buy", "idle", 0, "nothing", 0, {}, "nothing")
  BY ONLY <1>2 DEF Fields
<1> HIDE DEF q2
<1>4. q3 = Fields(k, o, i, "idle", 0, "nothing", 0, {}, "nothing")
  BY ONLY <1>3 DEF Fields
<1> HIDE DEF q3
<1>5. q4 = Fields(k, o, i, "waiting", 0, "nothing", 0, {}, "nothing")
  BY ONLY <1>4 DEF Fields
<1> HIDE DEF q4
<1>6. q5 = Fields(k, o, i, "waiting", 1, "nothing", 0, {}, "nothing")
  BY ONLY <1>5 DEF Fields
<1> HIDE DEF q5
<1>7. q6 = Fields(k, o, i, "waiting", 1, "request", 0, {}, "nothing")
  BY ONLY <1>6 DEF Fields
<1> HIDE DEF q6
<1> QED BY ONLY <1>1, <1>7

\* A call ends, with an answer or without.
EndOf(q, x, y, z) == [q EXCEPT !.stage = x, !.wire = y, !.shown = z]

LEMMA EndFields ==
  ASSUME NEW q, IsCall(q), NEW x, NEW y, NEW z
  PROVE  EndOf(q, x, y, z)
           = Fields(q.client, q.op, q.input, x, q.attempt, y, q.status, q.told, z)
<1>1. PICK k, o, i, g, a, w, s, t, h : q = Fields(k, o, i, g, a, w, s, t, h)
  BY FieldsOf
<1>2. /\ q.client = k /\ q.op = o /\ q.input = i /\ q.stage = g /\ q.attempt = a
      /\ q.wire = w /\ q.status = s /\ q.told = t /\ q.shown = h
  BY ONLY <1>1 DEF Fields
<1> DEFINE q1 == [q EXCEPT !.stage = x]
           q2 == [q1 EXCEPT !.wire = y]
           q3 == [q2 EXCEPT !.shown = z]
<1>3. EndOf(q, x, y, z) = q3
  BY ONLY TRUE DEF EndOf
<1>4. q1 = Fields(k, o, i, x, a, w, s, t, h)
  BY ONLY <1>1 DEF Fields
<1> HIDE DEF q1
<1>5. q2 = Fields(k, o, i, x, a, y, s, t, h)
  BY ONLY <1>4 DEF Fields
<1> HIDE DEF q2
<1>6. q3 = Fields(k, o, i, x, a, y, s, t, z)
  BY ONLY <1>5 DEF Fields
<1> HIDE DEF q3
<1> QED BY ONLY <1>2, <1>3, <1>6

AgainOf(q, n) == [q EXCEPT !.attempt = n, !.wire = "request"]

LEMMA RepeatFields ==
  ASSUME NEW q, IsCall(q), NEW n
  PROVE  AgainOf(q, n)
           = Fields(q.client, q.op, q.input, q.stage, n, "request", q.status, q.told, q.shown)
<1>1. PICK k, o, i, g, a, w, s, t, h : q = Fields(k, o, i, g, a, w, s, t, h)
  BY FieldsOf
<1>2. /\ q.client = k /\ q.op = o /\ q.input = i /\ q.stage = g /\ q.attempt = a
      /\ q.wire = w /\ q.status = s /\ q.told = t /\ q.shown = h
  BY ONLY <1>1 DEF Fields
<1> DEFINE q1 == [q EXCEPT !.attempt = n]
           q2 == [q1 EXCEPT !.wire = "request"]
<1>3. AgainOf(q, n) = q2
  BY ONLY TRUE DEF AgainOf
<1>4. q1 = Fields(k, o, i, g, n, w, s, t, h)
  BY ONLY <1>1 DEF Fields
<1> HIDE DEF q1
<1>5. q2 = Fields(k, o, i, g, n, "request", s, t, h)
  BY ONLY <1>4 DEF Fields
<1> HIDE DEF q2
<1> QED BY ONLY <1>2, <1>3, <1>5

\* What the clients of the repository ask for has a route.
LEMMA Asking ==
  ASSUME NEW k \in DOMAIN Can, NEW o \in Can[k], NEW i \in Inputs(k, o)
  PROVE  AskedOK(k, o, i)
<1>1. /\ k \in {"browser", "python", "typescript", "other"}
      /\ k = "browser" => o \in BrowserCalls
      /\ k = "python" => o \in PythonCalls
      /\ k = "typescript" => o \in TypeScriptCalls
      /\ k = "other" => o \in OtherCalls
  BY DEF Can
<1>2. o = "verify" => k = "browser"
  BY <1>1 DEF PythonCalls, TypeScriptCalls, OtherCalls
<1>3. o \in {"nonce", "verify", "me", "apiKey", "markets", "market", "orderbook", "mint",
             "place", "cancel", "orders", "positions", "rankings", "userRanking",
             "createMarket", "status", "resolve", "agentUser", "refresh"}
  BY <1>1 DEF BrowserCalls, PythonCalls, TypeScriptCalls, OtherCalls
<1>4. o \in DOMAIN Routes
  BY <1>3 DEF Routes
<1>5. o = "place" => i \in {"buy", "sell", "wrong"}
  BY DEF Inputs, PlacedSide
<1>6. o = "markets" => i \in MarketStatuses
  BY DEF Inputs
<1>7. o = "orders" => i \in {"open", "ORDER_STATUS_OPEN", "ORDER_STATUS_CANCELLED"}
  BY DEF Inputs
<1> QED BY ONLY <1>2, <1>4, <1>5, <1>6, <1>7 DEF AskedOK

LEMMA SubmitKeeps ==
  ASSUME ClientsInv, NEW c \in Calls, Submit(c)
  PROVE  ClientsInv'
<1>1. PICK k \in DOMAIN Can : \E o \in Can[k] : \E i \in Inputs(k, o) :
        call' = [call EXCEPT ![c] =
                   [NoCall EXCEPT !.client = k, !.op = o, !.input = i,
                                  !.stage = "waiting", !.attempt = 1, !.wire = "request"]]
  BY DEF Submit
<1>2. PICK o \in Can[k] : \E i \in Inputs(k, o) :
        call' = [call EXCEPT ![c] =
                   [NoCall EXCEPT !.client = k, !.op = o, !.input = i,
                                  !.stage = "waiting", !.attempt = 1, !.wire = "request"]]
  BY <1>1
<1>3. PICK i \in Inputs(k, o) :
        call' = [call EXCEPT ![c] =
                   [NoCall EXCEPT !.client = k, !.op = o, !.input = i,
                                  !.stage = "waiting", !.attempt = 1, !.wire = "request"]]
  BY <1>2
<1> DEFINE r == Fields(k, o, i, "waiting", 1, "request", 0, {}, "nothing")
<1>4. call' = [call EXCEPT ![c] = r]
  BY ONLY <1>3, SubmitFields
<1>5. CallOK(r, 0)
  <2>1. AskedOK(k, o, i)  BY Asking
  <2> QED BY ONLY <2>1 DEF Fields, CallOK, IsCall, ToldOK, EffectOK, ShownOK
<1>6. effects[c] = 0
  BY DEF Submit, ClientsInv, CallOK, EffectOK
<1>7. effects' = [effects EXCEPT ![c] = 0] /\ market' \in MarketStatuses
  BY <1>6, NoEffect DEF Submit, things, ClientsInv
<1> HIDE DEF r
<1>8. 0 \in 0..1  OBVIOUS
<1> QED BY ONLY ClientsInv, c \in Calls, <1>4, <1>5, <1>7, <1>8, CallSteps

\* What a client shows when its call is over is what the effect justifies.
Justified(q, what, n) ==
  /\ what = "success" /\ q.op \notin Reads
     /\ ~(q.client = "browser" /\ q.op \in AdminCalls \cup {"cancel"}) => n = 1
  /\ what = "refused" => n = 0

LEMMA ShowKeeps ==
  ASSUME ClientsInv, NEW c \in Calls, NEW what, Show(c, what),
         Justified(call[c], what, effects[c])
  PROVE  ClientsInv'
<1> DEFINE q == call[c]
           n == effects[c]
           r == EndOf(q, "over", "nothing", what)
<1>1. call' = [call EXCEPT ![c] = r]
  BY DEF Show, EndOf
<1>2. CallOK(q, n)
  BY DEF ClientsInv
<1>3. effects' = [effects EXCEPT ![c] = n] /\ n \in 0..1 /\ market' \in MarketStatuses
  BY NoEffect DEF Show, things, ClientsInv
<1>4. Justified(q, what, n)
  OBVIOUS
<1> HIDE DEF q, n
<1>5. r = Fields(q.client, q.op, q.input, "over", q.attempt, "nothing", q.status, q.told, what)
  BY ONLY <1>2, EndFields DEF CallOK
<1> HIDE DEF r
<1>6. CallOK(r, n)
  BY ONLY <1>2, <1>4, <1>5 DEF Fields, CallOK, IsCall, EffectOK, ShownOK, Justified
<1> QED BY ONLY ClientsInv, c \in Calls, <1>1, <1>3, <1>6, CallSteps

LEMMA DisconnectKeeps ==
  ASSUME ClientsInv, NEW c \in Calls, Disconnect(c)
  PROVE  ClientsInv'
<1> DEFINE q == call[c]
           n == effects[c]
<1>1. PICK gone \in BOOLEAN :
        call' = [call EXCEPT ![c].stage = "gone", ![c].shown = "failed",
                             ![c].wire = IF gone THEN "nothing" ELSE @]
  BY DEF Disconnect
<1> DEFINE w == IF gone THEN "nothing" ELSE q.wire
           r == EndOf(q, "gone", w, "failed")
<1>2. call' = [call EXCEPT ![c] = r]
  BY <1>1 DEF EndOf
<1>3. CallOK(q, n)
  BY DEF ClientsInv
<1>4. effects' = [effects EXCEPT ![c] = n] /\ n \in 0..1 /\ market' \in MarketStatuses
  BY NoEffect DEF Disconnect, things, ClientsInv
<1>5. w = q.wire \/ w = "nothing"
  OBVIOUS
<1> HIDE DEF q, n, w
<1>6. r = Fields(q.client, q.op, q.input, "gone", q.attempt, w, q.status, q.told, "failed")
  BY ONLY <1>3, EndFields DEF CallOK
<1> HIDE DEF r
<1>7. CallOK(r, n)
  BY ONLY <1>3, <1>5, <1>6 DEF Fields, CallOK, IsCall, EffectOK, ShownOK
<1> QED BY ONLY ClientsInv, c \in Calls, <1>2, <1>4, <1>7, CallSteps

\* An SDK repeats what has had no effect.
LEMMA RepeatKeeps ==
  ASSUME ClientsInv, NEW c \in Calls, call[c].wire = "answer", call[c].op # "verify",
         Retries(c), Repeat(c)
  PROVE  ClientsInv'
<1> DEFINE q == call[c]
           n == effects[c]
           a == q.attempt + 1
           r == AgainOf(q, a)
<1>1. call' = [call EXCEPT ![c] = r]
  BY DEF Repeat, AgainOf
<1>2. CallOK(q, n)
  BY DEF ClientsInv
<1>3. effects' = [effects EXCEPT ![c] = n] /\ n \in 0..1 /\ market' \in MarketStatuses
  BY NoEffect DEF Repeat, things, ClientsInv
<1>4. q.status = 429 /\ q.wire = "answer" /\ q.op # "verify"
  BY DEF Retries
<1> HIDE DEF q, n, a
<1>5. r = Fields(q.client, q.op, q.input, q.stage, a, "request", q.status, q.told, q.shown)
  BY ONLY <1>2, RepeatFields DEF CallOK
<1> HIDE DEF r
<1>6. n = 0
  BY ONLY <1>2, <1>4 DEF CallOK, EffectOK, StatusOK, Refused
<1>7. q.stage \notin {"idle", "over"}
  BY ONLY <1>2, <1>4 DEF CallOK, EffectOK
<1>8. CallOK(r, n)
  BY ONLY <1>2, <1>5, <1>6, <1>7 DEF Fields, CallOK, IsCall, EffectOK, ShownOK
<1> QED BY ONLY ClientsInv, c \in Calls, <1>1, <1>3, <1>8, CallSteps

\* What a client's code concludes from a status of at least 400 is no success,
\* and from one outside 400..499 no refusal.
LEMMA Concluding ==
  ASSUME NEW s
  PROVE  /\ ByStatus(s) = "success" => s < 400
         /\ ByStatus(s) = "refused" => Refused(s)
         /\ PythonError(s) = "success" => s < 400
         /\ PythonError(s) = "refused" => Refused(s)
<1>1. /\ ByStatus(s) = "success" => s < 400
      /\ ByStatus(s) = "refused" => Refused(s)
  BY DEF ByStatus
<1>2. PythonError(s) \in {"success", "failed", ByStatus(s)}
      /\ (PythonError(s) = "success" => s < 400 \/ ByStatus(s) = "success")
      /\ (PythonError(s) = "refused" => ByStatus(s) = "refused")
  BY DEF PythonError
<1> QED BY ONLY <1>1, <1>2

\* So a success of a call that changes something has its effect and a refusal
\* has none, unless the call is a login.
LEMMA ConcludingIsRight ==
  ASSUME ClientsInv, NEW c \in Calls, call[c].wire = "answer", NEW what,
         what = "success" => call[c].status < 400,
         what = "refused" => Refused(call[c].status) /\ call[c].op # "verify"
  PROVE  Justified(call[c], what, effects[c])
BY DEF ClientsInv, CallOK, EffectOK, StatusOK, Justified

LEMMA ReceiveKeeps ==
  ASSUME ClientsInv, NEW c \in Calls, Receive(c)
  PROVE  ClientsInv'
<1> DEFINE s == call[c].status
<1>1. call[c].wire = "answer"
  BY DEF Receive, TradingPanel, WalletConnect, RefreshUser, QueryHook, OrderTable, AdminPage,
         PythonRequest, TypeScriptRequest, OtherRequest, Answered
<1>2. AskedOK(call[c].client, call[c].op, call[c].input)
  BY DEF ClientsInv, CallOK
<1>3. ASSUME NEW what, Show(c, what), what = "success" => s < 400,
             what = "refused" => Refused(s) /\ call[c].op # "verify"
      PROVE  ClientsInv'
  <2>1. Justified(call[c], what, effects[c])
    BY <1>1, <1>3, ConcludingIsRight
  <2> QED BY <1>3, <2>1, ShowKeeps
<1>4. CASE TradingPanel(c)
  <2>1. Show(c, FormMessage(c)) /\ call[c].op # "verify"
    BY <1>4 DEF TradingPanel
  <2>2. FormMessage(c) = "broken page" \/ FormMessage(c) = ByStatus(s)
    BY DEF FormMessage
  <2> QED BY <1>3, <2>1, <2>2, Concluding
<1>5. CASE WalletConnect(c) \/ RefreshUser(c) \/ QueryHook(c)
  <2>1. PICK other \in {"failed", "unchanged", "empty list"} :
          Show(c, IF s < 400 THEN "success" ELSE other)
    BY <1>5 DEF WalletConnect, RefreshUser, QueryHook
  <2>2. CASE s < 400 /\ Show(c, "success")
    BY ONLY <1>3, <2>2
  <2>3. CASE Show(c, other)
    BY ONLY <1>3, <2>1, <2>3
  <2> QED BY ONLY <2>1, <2>2, <2>3
<1>6. CASE OrderTable(c) \/ AdminPage(c)
  <2>1. /\ Show(c, "success") /\ call[c].client = "browser"
        /\ call[c].op \in AdminCalls \cup {"cancel"}
    BY <1>6 DEF OrderTable, AdminPage, Answered
  <2>2. Justified(call[c], "success", effects[c])
    BY <2>1 DEF Justified
  <2> QED BY <2>1, <2>2, ShowKeeps
<1>7. CASE PythonRequest(c) \/ TypeScriptRequest(c) \/ OtherRequest(c)
  <2>1. call[c].op # "verify"
    BY <1>2, <1>7 DEF AskedOK, PythonRequest, TypeScriptRequest, OtherRequest, Answered
  <2>2. \/ Retries(c) /\ Repeat(c)
        \/ Show(c, PythonError(s))
        \/ Show(c, ByStatus(s))
    BY <1>7 DEF PythonRequest, TypeScriptRequest, OtherRequest
  <2>3. CASE Retries(c) /\ Repeat(c)
    BY <1>1, <2>1, <2>3, RepeatKeeps
  <2>4. CASE Show(c, PythonError(s))
    BY <1>3, <2>1, <2>4, Concluding
  <2>5. CASE Show(c, ByStatus(s))
    BY <1>3, <2>1, <2>5, Concluding
  <2> QED BY <2>2, <2>3, <2>4, <2>5
<1> QED BY <1>4, <1>5, <1>6, <1>7 DEF Receive

-----------------------------------------------------------------------------
(* The specification                                                       *)

LEMMA ElsewhereKeeps ==
  ASSUME ClientsInv, Elsewhere
  PROVE  ClientsInv'
<1>1. call' = call /\ effects' = effects
  BY DEF Elsewhere
<1>2. market' \in MarketStatuses
  BY DEF Elsewhere, ClientsInv
<1> QED BY <1>1, <1>2 DEF ClientsInv

LEMMA NextInv == ClientsInv /\ [Next]_vars => ClientsInv'
<1> SUFFICES ASSUME ClientsInv, [Next]_vars  PROVE ClientsInv'
  OBVIOUS
<1>1. ASSUME NEW c \in Calls,
             Submit(c) \/ TurnAway(c) \/ Services(c) \/ Disconnect(c) \/ Receive(c)
      PROVE  ClientsInv'
  BY <1>1, SubmitKeeps, TurnAwayKeeps, ServicesKeep, DisconnectKeeps, ReceiveKeeps
<1>2. CASE UNCHANGED vars
  BY <1>2 DEF vars, ClientsInv
<1> QED BY <1>1, <1>2, ElsewhereKeeps DEF Next

THEOREM ClientsInvariant == Spec => []ClientsInv
<1> QED BY InitInv, NextInv, PTL DEF Spec

\* Whatever is lost, fails or is tried again, and however often an SDK may try
\* again, a call of a client takes effect at most once (client.ts:67,
\* rate_limit.go:59-67).
THEOREM CallsTakeEffectOnce == Spec => []NeverTwice
<1>1. ClientsInv => NeverTwice
  BY DEF ClientsInv, NeverTwice
<1> QED BY <1>1, ClientsInvariant, PTL

\* A client that is told of a success has its effect, one that is told of a
\* refusal has changed nothing, and the words of an answer are those asked for
\* (order.go:56-95, 257-278, market.go:210-251).
THEOREM ReportsAreTrue == Spec => []ReportIsTrue
<1>1. ClientsInv => ReportIsTrue
  <2> SUFFICES ASSUME ClientsInv, NEW c \in Calls
               PROVE  /\ call[c].shown = "success" /\ call[c].op \notin Reads
                         /\ ~Mutation(c) => effects[c] = 1
                      /\ call[c].shown = "refused" => effects[c] = 0
                      /\ call[c].op \in {"place", "markets"} =>
                           call[c].told \subseteq {call[c].input}
                      /\ call[c].op = "orders" /\ call[c].input \in OrderStatus_value =>
                           call[c].told \subseteq {protoOrderStatusToString[call[c].input]}
    BY DEF ReportIsTrue
  <2>1. CallOK(call[c], effects[c])
    BY DEF ClientsInv
  <2>2. ToldOK(call[c].op, call[c].input, call[c].told) /\ ShownOK(call[c], effects[c])
    BY <2>1 DEF CallOK
  <2> QED BY ONLY <2>2 DEF ToldOK, ShownOK, Mutation
<1> QED BY <1>1, ClientsInvariant, PTL
=============================================================================

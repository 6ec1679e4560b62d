------------------------------ MODULE Settlement ------------------------------
(***************************************************************************)
(* Market lifecycle and settlement (services/market-svc) over the same     *)
(* database as the trading service, whose CancelAllOrdersByMarket it calls *)
(* over gRPC.  An administrator's call is one more process with a          *)
(* program of statements; a resolution opens its transaction half-way.     *)
(***************************************************************************)
EXTENDS TradingService

CONSTANTS
  LateOrders   \* users go on trading after the market has left "open"

ASSUME SettlementAssumption == LateOrders \in BOOLEAN

Market == db[MarketKey]

-----------------------------------------------------------------------------

\* A draft market takes no part in trading here: it is opened by one update.
validTransitions ==
  {<<"open", "closed">>, <<"closed", "resolved">>, <<"closed", "cancelled">>}

\* POST /admin/markets/:id/status, and gRPC CancelMarket with "cancelled".
UpdateMarketStatus(c, to) ==
  /\ to \in {"open", "closed", "cancelled"}
  /\ Start(c, "status", <<[do |-> "transition", to |-> to]>>)
  /\ UNCHANGED arrived

\* Its read and its check; the whole row is written back later.
CheckTransition(c) ==
  /\ Ready(c, "transition")
  /\ <<Market.status, Head(todo[c]).to>> \in validTransitions
  /\ todo' = [todo EXCEPT ![c] =
                <<Set(MarketKey, [Market EXCEPT !.status = Head(todo[c]).to])>>]
  /\ UNCHANGED <<db, writes, reg, calls, engine, arrived, bounds, history>>

ResolveMarket(c, k) ==
  /\ Start(c, "resolve", <<[do |-> "closed", winner |-> k]>>)
  /\ UNCHANGED arrived

SweepNothing == <<>>                     \* mutated form: orders not cancelled

Sweep == <<[do |-> "list"]>>

\* Its read and its check.  After the sweep of the open orders, the
\* transaction flags the winner, writes the market's row as it was read with
\* the new status, and pays.
CheckClosed(c) ==
  /\ Ready(c, "closed")
  /\ Market.status = "closed"
  /\ LET k == Head(todo[c]).winner
     IN  todo' = [todo EXCEPT ![c] =
           Sweep
           \o <<[do |-> "begin"],
                Set(OutcomeKey(k), [winner |-> TRUE]),
                Set(MarketKey, [Market EXCEPT !.status = "resolved", !.winner = k]),
                [do |-> "pay", winner |-> k]>>]
  /\ UNCHANGED <<db, writes, reg, calls, engine, arrived, bounds, history>>

\* WithTx: what follows is one transaction.
Begin(c) ==
  /\ Ready(c, "begin")
  /\ kind' = [kind EXCEPT ![c] = "settle"]
  /\ Advance(c)
  /\ UNCHANGED <<db, writes, reg, status, engine, arrived, bounds, history>>

PayForAll(u, k) ==                       \* mutated form: losing tokens paid too
  MapThenSumSet(LAMBDA x : Unit * db[PosKey(u, x)].qty, Outcomes)

\* 1.00 for each token of the winning outcome.
Payout(u, k) == Unit * db[PosKey(u, k)].qty

\* ListByMarket, then a read and a write of the balance of every holder.
Pay(c) ==
  /\ Ready(c, "pay")
  /\ LET k       == Head(todo[c]).winner
         holders == {u \in Users : db[PosKey(u, k)].qty > 0}
     IN  todo' = [todo EXCEPT ![c] =
           FlattenSeq(SetToSeq({ChangeBalance(u, 0, Money(Payout(u, k), 0)) :
                                  u \in holders}))]
  /\ UNCHANGED <<db, writes, reg, calls, engine, arrived, bounds, history>>

RefuseAdmin(c) ==
  /\ \/ Ready(c, "transition")
        /\ <<Market.status, Head(todo[c]).to>> \notin validTransitions
     \/ Ready(c, "closed") /\ Market.status # "closed"
  /\ Abort(c)
  /\ UNCHANGED bounds

-----------------------------------------------------------------------------

AdminCall(c) == \/ \E to \in {"open", "closed", "cancelled"} : UpdateMarketStatus(c, to)
                \/ \E k \in Outcomes : ResolveMarket(c, k)

AdminStatement(c) == \/ CheckTransition(c) \/ CheckClosed(c) \/ Begin(c) \/ Pay(c)
                     \/ RefuseAdmin(c)

SNext ==
  \E c \in Calls : \/ UserCall(c) /\ (LateOrders \/ Market.status = "open")
                   \/ AdminCall(c)
                   \/ Statement(c) \/ AdminStatement(c)
                   \/ Fail(c)

SSpec == Init /\ [][SNext]_vars

-----------------------------------------------------------------------------
(* Properties                                                              *)

Wealth == MapThenSumSet(LAMBDA u : db[UserKey(u)].bal + db[UserKey(u)].locked, Users)

\* A resolution turns the collateral of all minted sets into balances, once,
\* whatever was refused or failed before: with the orders swept and the tokens
\* of sells restored, the winners' payouts are the collateral
\* (settlement.go:89-137).
ResolutionPaysCollateral ==
  (Quiet /\ torn = {}) =>
    Wealth + (IF Market.status = "resolved" THEN 0 ELSE Unit * Minted)
      = InitialBalance * Cardinality(Users)

\* "All open orders are cancelled before the transactional resolution begins"
\* (settlement.go:59): a resolved market has no open order and locks nothing.
ResolvedIsSwept ==
  (Quiet /\ Market.status = "resolved") =>
    /\ Open = {}
    /\ torn = {} => \A u \in Users : db[UserKey(u)].locked = 0

-----------------------------------------------------------------------------
(* What the documentation says and the code does not do.                   *)

\* A resolution pays "$1 per token to holders of the winning outcome"
\* (settlement.go:57), so never more than the collateral of the minted sets.
PaidWithinCollateral == Wealth <= InitialBalance * Cardinality(Users)

\* "resolved and cancelled are terminal" (market.go:60).
TerminalIsFinal ==
  [][Market.status \in {"resolved", "cancelled"} => Market' = Market]_vars

\* A closed market "is no longer accepting new orders" (pkg/domain/market.go:13).
ClosedTakesNoOrders ==
  [][\A o \in Calls : (OrderKey(o) \in DOMAIN db' /\ OrderKey(o) \notin DOMAIN db)
                        => Market.status = "open"]_vars

\* "Cancels the market entirely.  All open orders are cancelled and all
\* positions are refunded at their original cost" (api/admin.yaml:314).
CancelledIsUnwound ==
  (Quiet /\ Market.status = "cancelled") =>
    Open = {} /\ Wealth = InitialBalance * Cardinality(Users)

=============================================================================

------------------------------ MODULE Services ------------------------------
(***************************************************************************)
(* The five processes of the system, from start-up to exit, and the calls  *)
(* that pass through them: the gateway's handlers call the authentication, *)
(* market, trading and ranking services, and the market service calls the  *)
(* trading service to sweep a market's orders.  A process connects, serves *)
(* and, when it is told to stop, takes no new calls, waits for those that  *)
(* it has, closes what it had opened and exits.  It may also be killed,    *)
(* and a client may leave: then the contexts of all handlers below end.    *)
(*                                                                         *)
(* What a call does to the tables is one step here, and only what a        *)
(* restart depends upon: the open orders, as rows and in the engine's      *)
(* books.  TradingService and Settlement have the steps of it.             *)
(***************************************************************************)
EXTENDS Integers, FiniteSets, Sequences

CONSTANTS
    Calls,        \* calls that clients make
    OldOrders,    \* orders of earlier days, whose rows may be open
    MaxStarts,    \* bound: starts of processes
    MaxEvents     \* bound: signals, kills, clients that leave, failures of connections

ASSUME ServicesAssumption ==
    /\ {MaxStarts, MaxEvents} \subseteq Nat
    /\ Calls \cap OldOrders = {}    \* a new order has an id of its own

Servers == {"auth", "market", "trading", "ranking"}
Processes == Servers \cup {"gateway"}

VARIABLES
    phase,     \* down, connected, ready, serving, stopping or closed
    told,      \* the processes whose context is done
    rows,      \* the orders whose rows are open
    book,      \* the orders that the engine of the trading service holds
    unlisted,  \* this start of the trading service could not list the open orders
    cut,       \* since then a handler of its went on after its context had ended
    call,      \* the calls
    forced,    \* a process was killed, or the gateway did not wait to the end
    starts, events

process == <<phase, told>>
orders == <<rows, book, unlisted, cut>>
counts == <<starts, events>>
vars == <<process, orders, call, forced, counts>>

(* What the gateway's handlers call, in this order; all but the public     *)
(* ones ask first who the caller is.  The market that is read once more    *)
(* after its resolution is left to Markets.                                *)
Handlers ==
    [markets  |-> <<"market">>,
     rankings |-> <<"ranking">>,
     place    |-> <<"auth", "trading">>,
     resolve  |-> <<"auth", "market">>]

Calling(s, kind) ==
    IF s = "gateway" THEN Handlers[kind]
    ELSE IF s = "market" /\ kind = "resolve" THEN <<"trading">>
    ELSE <<>>

(* runs: the processes in which a handler of the call runs.  asked: the    *)
(* services it was sent to.  acted: the trading service has committed or   *)
(* given up.  failed: a service that was asked is not there or refused.    *)
NoCall ==
    [kind |-> "markets", runs |-> {}, asked |-> {}, acted |-> FALSE, failed |-> FALSE,
     outcome |-> "none"]

Init ==
    /\ phase = [s \in Processes |-> "down"] /\ told = {}
    /\ rows \in SUBSET OldOrders /\ book = {} /\ unlisted = FALSE /\ cut = FALSE
    /\ call = [c \in Calls |-> NoCall]
    /\ forced = FALSE
    /\ starts = 0 /\ events = 0

Event == events < MaxEvents /\ events' = events + 1 /\ UNCHANGED starts

Enter(s, p) == phase' = [phase EXCEPT ![s] = p]

-----------------------------------------------------------------------------
(* Start-up.                                                               *)

(* main() up to its connections: a service exits when Postgres does not    *)
(* answer.  Redis and other services are dialled when they are used.       *)
CannotConnect(s) ==
    /\ s \in Servers /\ phase[s] = "down" /\ starts < MaxStarts
    /\ starts' = starts + 1
    /\ events < MaxEvents /\ events' = events + 1
    /\ UNCHANGED <<process, orders, call, forced>>

Start(s) ==
    /\ phase[s] = "down" /\ starts < MaxStarts
    /\ starts' = starts + 1
    /\ Enter(s, "connected")
    /\ UNCHANGED <<told, orders, call, forced, events>>

(* The trading service fills its books.  When it cannot list the orders,   *)
(* also because it was told to stop meanwhile, it goes on with empty ones. *)
RestoreBooks ==
    /\ phase["trading"] = "connected"
    /\ Enter("trading", "ready")
    /\ \/ "trading" \notin told /\ book' = rows /\ unlisted' = FALSE /\ UNCHANGED counts
       \/ "trading" \in told /\ book' = {} /\ unlisted' = TRUE /\ UNCHANGED counts
       \/ Event /\ book' = {} /\ unlisted' = TRUE
    /\ cut' = FALSE
    /\ UNCHANGED <<told, rows, call, forced>>

ServeAtOnce(s) == phase[s] \in {"connected", "ready"}   \* mutated form
Prepared(s) == phase[s] = IF s = "trading" THEN "ready" ELSE "connected"

Serve(s) ==
    /\ Prepared(s) /\ Enter(s, "serving")
    /\ UNCHANGED <<told, orders, call, forced, counts>>

(* The port is taken: a service exits, the gateway stops like one that is  *)
(* told to.                                                                *)
CannotListen(s) ==
    /\ Prepared(s) /\ Event
    /\ IF s = "gateway"
       THEN told' = told \cup {s} /\ UNCHANGED <<phase, book>>
       ELSE /\ Enter(s, "down") /\ told' = told \ {s}
            /\ book' = IF s = "trading" THEN {} ELSE book
    /\ UNCHANGED <<rows, unlisted, cut, call, forced>>

-----------------------------------------------------------------------------
(* Calls.                                                                  *)

Accepting(s) == phase[s] = "serving"

(* A client's request reaches the gateway, or finds no listener. *)
Request(c) ==
    /\ call[c].outcome = "none" /\ call[c].runs = {} /\ Accepting("gateway")
    /\ \E k \in DOMAIN Handlers :
          call' = [call EXCEPT ![c] = [NoCall EXCEPT !.kind = k, !.runs = {"gateway"}]]
    /\ UNCHANGED <<process, orders, forced, counts>>

Callees(c, s) == {Calling(s, call[c].kind)[i] : i \in DOMAIN Calling(s, call[c].kind)}

(* A handler waits for the answer to its call as long as the connection of *)
(* its process is open.                                                    *)
Waits(c, s) == phase[s] # "closed" /\ Callees(c, s) \cap call[c].runs # {}

(* The handlers whose contexts the context of this one derives from.       *)
Callers(c, s) == {"gateway"} \cup {t \in Processes : s \in Callees(c, t)}

(* A handler's context ends, sooner or later, when the client has left or  *)
(* when a process that waited for it is gone or has closed its connection. *)
Cancelled(c, s) ==
    \/ call[c].outcome = "left"
    \/ /\ s # "gateway"
       /\ \E t \in Callers(c, s) : t \notin call[c].runs \/ phase[t] = "closed"

(* The next service that a handler calls. *)
NextCallee(c, s, t) ==
    LET calling == Calling(s, call[c].kind)
    IN  \E i \in DOMAIN calling :
            /\ t = calling[i] /\ t \notin call[c].asked
            /\ \A j \in 1..(i - 1) : calling[j] \in call[c].asked

Running(c, s) == s \in call[c].runs /\ phase[s] # "down" /\ ~Waits(c, s)

DialWaitsForReady(c, s, t) ==                           \* mutated form
    /\ Running(c, s) /\ phase[s] # "closed" /\ ~call[c].failed /\ NextCallee(c, s, t)
    /\ Accepting(t)
    /\ call' = [call EXCEPT ![c].asked = @ \cup {t}, ![c].runs = @ \cup {t}]
    /\ UNCHANGED <<process, orders, forced, counts>>

(* A call of one service by another fails when nobody listens. *)
Dial(c, s, t) ==
    /\ Running(c, s) /\ phase[s] # "closed" /\ ~call[c].failed /\ NextCallee(c, s, t)
    /\ call' = [call EXCEPT ![c].asked = @ \cup {t},
                            ![c].runs = IF Accepting(t) THEN @ \cup {t} ELSE @,
                            ![c].failed = ~Accepting(t)]
    /\ UNCHANGED <<process, orders, forced, counts>>

Acts(c) == call' = [call EXCEPT ![c].acted = TRUE]
ActsInVain(c) == call' = [call EXCEPT ![c].acted = TRUE, ![c].failed = TRUE]

(* A new order is refused, or fills some orders and rests or not.  The     *)
(* engine does so before the commit: a handler that was cancelled in       *)
(* between, or that fills an order without a row, rolls back its rows only.*)
PlaceOrder(c) ==
    \/ UNCHANGED <<rows, book>> /\ ActsInVain(c)
    \/ \E filled \in SUBSET book, rest \in SUBSET {c} :
          /\ book' = (book \ filled) \cup rest
          /\ \/ filled \subseteq rows /\ rows' = (rows \ filled) \cup rest /\ Acts(c)
             \/ /\ Cancelled(c, "trading") \/ ~(book \subseteq rows)
                /\ UNCHANGED rows /\ ActsInVain(c)

(* The sweep of a market cancels order by order, in the engine and then in *)
(* its row.  It fails at one that the engine does not hold, and a          *)
(* cancelled handler anywhere.                                             *)
CancelAllOrdersByMarket(c) ==
    \/ rows \subseteq book /\ rows' = {} /\ book' = book \ rows /\ Acts(c)
    \/ /\ Cancelled(c, "trading") \/ ~(rows \subseteq book)
       /\ \E gone \in SUBSET (rows \cap book) :
             /\ rows' = rows \ gone
             /\ \/ book' = book \ gone
                \/ /\ Cancelled(c, "trading")
                   /\ \E o \in rows' \cap book : book' = book \ (gone \cup {o})
       /\ ActsInVain(c)

Act(c) ==
    /\ Running(c, "trading") /\ ~call[c].acted
    /\ \/ call[c].kind = "place" /\ PlaceOrder(c)
       \/ call[c].kind = "resolve" /\ CancelAllOrdersByMarket(c)
    /\ cut' = (cut \/ Cancelled(c, "trading"))
    /\ UNCHANGED <<process, unlisted, forced, counts>>

(* A handler that has called whom it had to, or that failed, returns; one  *)
(* that was cancelled or whose connections are closed need not wait.       *)
Return(c, s) ==
    /\ s \in call[c].runs /\ (Running(c, s) \/ Cancelled(c, s))
    /\ \/ call[c].failed \/ Callees(c, s) \subseteq call[c].asked
       \/ Cancelled(c, s) \/ phase[s] = "closed"
    /\ s = "trading" => call[c].acted
    /\ call' = [call EXCEPT ![c].runs = @ \ {s},
                            ![c].outcome = IF s = "gateway" /\ @ = "none" THEN "answered" ELSE @]
    /\ UNCHANGED <<process, orders, forced, counts>>

(* The client gives up, or its connection breaks. *)
Leave(c) ==
    /\ "gateway" \in call[c].runs /\ call[c].outcome = "none" /\ Event
    /\ call' = [call EXCEPT ![c].outcome = "left"]
    /\ UNCHANGED <<process, orders, forced>>

-----------------------------------------------------------------------------
(* Stopping.                                                               *)

(* A signal, or the listener's failure: the context of main() is done. *)
Signal(s) ==
    /\ phase[s] \in {"connected", "ready", "serving"} /\ s \notin told
    /\ Event
    /\ told' = told \cup {s}
    /\ UNCHANGED <<phase, orders, call, forced>>

(* GracefulStop and Shutdown close the listener first. *)
StopListening(s) ==
    /\ s \in told /\ (Prepared(s) \/ phase[s] = "serving")
    /\ Enter(s, "stopping")
    /\ UNCHANGED <<told, orders, call, forced, counts>>

ReturnAtOnce(s) == TRUE                                  \* mutated form
Drained(s) == \A c \in Calls : s \notin call[c].runs

(* They return when the last handler has, and the deferred calls close the *)
(* pool and the connections.                                               *)
Close(s) ==
    /\ phase[s] = "stopping" /\ Drained(s)
    /\ Enter(s, "closed")
    /\ UNCHANGED <<told, orders, call, forced, counts>>

(* The gateway waits ten seconds at most.  When it closes its connections, *)
(* the calls of the handlers that still run in it end.                     *)
GiveUpWaiting ==
    /\ phase["gateway"] = "stopping" /\ ~Drained("gateway")
    /\ Enter("gateway", "closed")
    /\ forced' = TRUE
    /\ UNCHANGED <<told, orders, call, counts>>

(* The process ends, with every handler that runs in it; who waits for one *)
(* gets an error, and those that it waited for are cancelled.              *)
End(s) ==
    /\ Enter(s, "down") /\ told' = told \ {s}
    /\ book' = IF s = "trading" THEN {} ELSE book
    /\ call' = [c \in Calls |->
                  IF s \notin call[c].runs THEN call[c]
                  ELSE [call[c] EXCEPT !.runs = @ \ {s}, !.failed = @ \/ s # "gateway",
                                       !.outcome = IF s = "gateway" /\ @ = "none"
                                                   THEN "lost" ELSE @]]
    /\ UNCHANGED <<rows, unlisted, cut>>

Exit(s) == phase[s] = "closed" /\ End(s) /\ UNCHANGED <<forced, counts>>

Kill(s) == phase[s] # "down" /\ Event /\ End(s) /\ forced' = TRUE

-----------------------------------------------------------------------------
Main(s) ==
    Serve(s) \/ StopListening(s) \/ Close(s) \/ Exit(s) \/ (s = "trading" /\ RestoreBooks)

Handle(c, s) == (\E t \in Servers : Dial(c, s, t)) \/ Return(c, s)

Next ==
    \/ \E s \in Processes :
          CannotConnect(s) \/ Start(s) \/ Signal(s) \/ CannotListen(s) \/ Kill(s) \/ Main(s)
    \/ GiveUpWaiting
    \/ \E c \in Calls : Request(c) \/ Leave(c) \/ Act(c) \/ \E s \in Processes : Handle(c, s)

(* A process that can go on does, and so does a handler: the database      *)
(* answers, and a connection of a process that ended is reset.  Nobody has *)
(* to start or stop a process, to call it, or to leave.                    *)
Fairness ==
    /\ \A s \in Processes : WF_vars(Main(s))
    /\ \A c \in Calls : WF_vars(Act(c)) /\ \A s \in Processes : WF_vars(Handle(c, s))

Spec == Init /\ [][Next]_vars /\ Fairness

-----------------------------------------------------------------------------
(* Properties.                                                             *)

(* As long as the trading service takes calls, its books hold exactly the  *)
(* open rows, through stops, kills and restarts in any order, unless it    *)
(* could not list them when it started (trading-svc/cmd/main.go:93-103) or *)
(* has since finished a handler without a context, whose rows roll back    *)
(* behind the engine (order.go:142, tx_manager.go:28-48).  Only a kill, a  *)
(* gateway that has waited ten seconds or a client that left does the      *)
(* latter: no stop that waits does.  What a failing statement does to the  *)
(* two is TradingService's subject.                                        *)
BooksAreRestored ==
    /\ Accepting("trading") /\ ~unlisted /\ ~cut => book = rows
    /\ cut => forced \/ \E c \in Calls : call[c].outcome = "left"

(* An open order "is on the book and waiting to be matched"                *)
(* (pkg/domain/order.go:28), and no other is.  It does not hold once a     *)
(* caller has gone away: the trading service goes on serving other books   *)
(* until it is started again (order.go:142).                               *)
BooksAreRows == Accepting("trading") /\ ~unlisted => book = rows

(* Processes that are stopped and started in any order leave no client     *)
(* without an answer, and none with an error for an order that rests: only *)
(* a kill does, and a gateway that has waited ten seconds                  *)
(* (trading-svc/cmd/main.go:143-148, gateway/cmd/main.go:153-162).         *)
StopsLoseNothing ==
    \A c \in Calls :
        call[c].outcome = "lost" \/ (call[c].failed /\ c \in rows) => forced

(* Who is told to stop does, though handlers wait for handlers of others   *)
(* that stop, start or are down (market-svc/cmd/main.go:148-152).          *)
StopsWhenTold == \A s \in Processes : s \in told ~> phase[s] = "down"
=============================================================================

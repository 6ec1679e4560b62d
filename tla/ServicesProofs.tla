---------------------------- MODULE ServicesProofs ----------------------------
(* What starting, stopping and killing the processes in any order keeps,   *)
(* for any number of calls, orders, restarts and failures.                 *)
EXTENDS Services, TLAPS

Phases == {"down", "connected", "ready", "serving", "stopping", "closed"}

CallType ==
    [kind : DOMAIN Handlers, runs : SUBSET Processes, asked : SUBSET Servers,
     acted : BOOLEAN, failed : BOOLEAN, outcome : {"none", "answered", "lost", "left"}]

ServicesType ==
    /\ phase \in [Processes -> Phases]
    /\ call \in [Calls -> CallType]
    /\ forced \in BOOLEAN /\ unlisted \in BOOLEAN

(* A handler runs in a service that serves or waits for its handlers, so   *)
(* none is left when a service exits; the gateway may exit over its own.   *)
HandlersInv ==
    \A c \in Calls :
        /\ \A s \in call[c].runs \ {"gateway"} : phase[s] \in {"serving", "stopping"}
        /\ "gateway" \in call[c].runs => phase["gateway"] \in {"serving", "stopping", "closed"}
        /\ "gateway" \in call[c].runs /\ phase["gateway"] = "closed" => forced
        /\ call[c].outcome = "none" /\ "gateway" \notin call[c].runs => call[c] = NoCall

(* Unless someone has gone away, who has called a handler is there as long *)
(* as it runs.                                                             *)
HasCaller(c, s) == \E t \in call[c].runs : s \in Callees(c, t)

CallersInv ==
    \A c \in Calls :
        forced \/ call[c].outcome = "left" \/ \A s \in call[c].runs \ {"gateway"} : HasCaller(c, s)

(* The books are the open rows from the time they were filled until the    *)
(* process has stopped taking calls and its last handler has returned, or  *)
(* one of them has acted without its context.                              *)
BooksInv ==
    phase["trading"] \in {"ready", "serving", "stopping"} /\ ~unlisted /\ ~cut => book = rows

SomeoneLeft == forced \/ \E c \in Calls : call[c].outcome = "left"

CutInv == cut => SomeoneLeft

(* An order rests once, for a call that had asked all services it needs;   *)
(* from the moment the trading service is asked nothing else can fail it.  *)
PlacingOK(c) ==
    /\ call[c].runs \subseteq {"gateway", "auth", "trading"}
    /\ "trading" \in call[c].runs => "trading" \in call[c].asked
    /\ "trading" \in call[c].asked => "auth" \in call[c].asked
    /\ "trading" \in call[c].runs /\ ~forced =>
           "auth" \notin call[c].runs /\ (call[c].failed => call[c].acted)

OrdersInv ==
    \A c \in Calls :
        /\ call[c].kind = "place" => PlacingOK(c)
        /\ c \in rows => /\ call[c].kind = "place" /\ call[c].acted
                         /\ "trading" \in call[c].asked
                         /\ ~forced => ~call[c].failed /\ "auth" \notin call[c].runs
        /\ call[c].outcome = "lost" => forced

ServicesInv ==
    ServicesType /\ HandlersInv /\ CallersInv /\ BooksInv /\ CutInv /\ OrdersInv

-----------------------------------------------------------------------------
(* Calls                                                                   *)

LEMMA InitInv == Init => ServicesInv
<1> SUFFICES ASSUME Init  PROVE ServicesInv
  OBVIOUS
<1>1. NoCall \in CallType  BY DEF NoCall, CallType, Handlers
<1>2. ServicesType  BY <1>1 DEF Init, ServicesType, Phases
<1>3. \A c \in Calls : call[c] = NoCall /\ c \notin rows
  BY ServicesAssumption DEF Init
<1>4. HandlersInv  BY <1>3 DEF HandlersInv, NoCall
<1>5. BooksInv  BY DEF Init, BooksInv, Processes, Servers
<1>6. OrdersInv  BY <1>3 DEF OrdersInv, NoCall
<1>7. CallersInv /\ CutInv  BY <1>3 DEF Init, CallersInv, CutInv, NoCall
<1> QED BY <1>2, <1>4, <1>5, <1>6, <1>7 DEF ServicesInv

(* The fields of a call, after a step that changes some of them. *)
LEMMA CallFields ==
    ASSUME ServicesType, NEW c \in Calls
    PROVE  /\ call[c].kind \in DOMAIN Handlers /\ call[c].runs \subseteq Processes
           /\ call[c].asked \subseteq Servers /\ call[c].acted \in BOOLEAN
           /\ call[c].failed \in BOOLEAN /\ call[c].outcome \in {"none", "answered", "lost", "left"}
BY DEF ServicesType, CallType

(* The gateway calls services, and market-svc the sweep. *)
LEMMA CalleesOf ==
    ASSUME ServicesType, NEW c \in Calls, NEW s, NEW t
    PROVE  /\ t \in Callees(c, s) =>
                \/ s = "gateway" /\ t # "gateway" /\ ~(call[c].kind = "resolve" /\ t = "trading")
                \/ s = "market" /\ t = "trading" /\ call[c].kind = "resolve"
           /\ NextCallee(c, s, t) => t \in Callees(c, s)
<1>1. NextCallee(c, s, t) => t \in Callees(c, s)  BY DEF NextCallee, Callees
<1>2. ASSUME t \in Callees(c, s), s # "gateway"
      PROVE  s = "market" /\ t = "trading" /\ call[c].kind = "resolve"
  <2>1. CASE s = "market" /\ call[c].kind = "resolve"
    <3>1. Calling(s, call[c].kind) = <<"trading">>  BY <1>2, <2>1 DEF Calling
    <3> QED BY <1>2, <2>1, <3>1 DEF Callees
  <2>2. CASE ~(s = "market" /\ call[c].kind = "resolve")
    <3>1. Calling(s, call[c].kind) = <<>>  BY <1>2, <2>2 DEF Calling
    <3> QED BY <1>2, <3>1 DEF Callees
  <2> QED BY <2>1, <2>2
<1>3. ASSUME t \in Callees(c, s), s = "gateway"
      PROVE  t # "gateway" /\ ~(call[c].kind = "resolve" /\ t = "trading")
  <2> DEFINE called == Handlers[call[c].kind]
  <2>1. PICK i \in DOMAIN called : t = called[i]  BY <1>3 DEF Callees, Calling
  <2>2. call[c].kind \in DOMAIN Handlers  BY CallFields
  <2>3. \/ call[c].kind = "resolve" /\ called = <<"auth", "market">>
        \/ call[c].kind = "place" /\ called = <<"auth", "trading">>
        \/ call[c].kind = "markets" /\ called = <<"market">>
        \/ call[c].kind = "rankings" /\ called = <<"ranking">>
    BY <2>2 DEF Handlers
  <2> HIDE DEF called
  <2>4. /\ DOMAIN <<"auth", "market">> = {1, 2} /\ DOMAIN <<"auth", "trading">> = {1, 2}
        /\ DOMAIN <<"market">> = {1} /\ DOMAIN <<"ranking">> = {1}
    OBVIOUS
  <2> QED BY <2>1, <2>3, <2>4
<1> QED BY <1>1, <1>2, <1>3

(* The context of a handler ends only when someone has gone away. *)
LEMMA WhoIsCancelled ==
    ASSUME ServicesType, HandlersInv, CallersInv,
           NEW c \in Calls, NEW s \in call[c].runs, Cancelled(c, s)
    PROVE  forced \/ call[c].outcome = "left"
<1> SUFFICES ASSUME ~forced, call[c].outcome # "left"  PROVE FALSE
  OBVIOUS
<1>1. \A x \in call[c].runs \ {"gateway"} : HasCaller(c, x)  BY DEF CallersInv
<1>2. s # "gateway"  BY DEF Cancelled
<1>3. PICK t \in Callers(c, s) : t \notin call[c].runs \/ phase[t] = "closed"
  BY <1>2 DEF Cancelled
<1>4. PICK u \in call[c].runs : s \in Callees(c, u)  BY <1>1, <1>2 DEF HasCaller
<1>5. "gateway" \in call[c].runs
  <2>1. CASE u = "gateway"  BY <1>4, <2>1
  <2>2. CASE u = "market"
    <3>1. PICK v \in call[c].runs : "market" \in Callees(c, v)
      BY <1>1, <1>4, <2>2 DEF HasCaller
    <3> QED BY <3>1, CalleesOf
  <2> QED BY <1>4, <2>1, <2>2, CalleesOf
<1>6. t # "gateway"  BY <1>3, <1>5 DEF HandlersInv
<1>7. s \in Callees(c, t)  BY <1>3, <1>6 DEF Callers
<1>8. t = "market" /\ s = "trading" /\ call[c].kind = "resolve"  BY <1>6, <1>7, CalleesOf
<1>9. u = "market"  BY <1>4, <1>8, CalleesOf
<1> QED BY <1>3, <1>4, <1>8, <1>9 DEF HandlersInv

(* Placing an order takes two services, one after the other. *)
LEMMA PlaceCallees ==
    ASSUME NEW c \in Calls, call[c].kind = "place", NEW s, NEW t
    PROVE  /\ NextCallee(c, s, t) =>
                /\ s = "gateway" /\ t \in {"auth", "trading"} /\ t \notin call[c].asked
                /\ t = "trading" => "auth" \in call[c].asked
           /\ Callees(c, "gateway") = {"auth", "trading"}
<1>1. Calling("gateway", "place") = <<"auth", "trading">>  BY DEF Calling, Handlers
<1>2. s # "gateway" => Calling(s, "place") = <<>>  BY DEF Calling
<1>3. DOMAIN <<"auth", "trading">> = {1, 2}  OBVIOUS
<1>4. Callees(c, "gateway") = {"auth", "trading"}  BY <1>1, <1>3 DEF Callees
<1>5. ASSUME NextCallee(c, s, t)
      PROVE  /\ s = "gateway" /\ t \in {"auth", "trading"} /\ t \notin call[c].asked
             /\ t = "trading" => "auth" \in call[c].asked
  <2>1. s = "gateway"  BY <1>2, <1>5 DEF NextCallee
  <2>2. PICK i \in {1, 2} : /\ t = <<"auth", "trading">>[i] /\ t \notin call[c].asked
                            /\ \A j \in 1..(i - 1) : <<"auth", "trading">>[j] \in call[c].asked
    BY <1>1, <1>3, <1>5, <2>1 DEF NextCallee
  <2>3. CASE i = 1  BY <2>1, <2>2, <2>3
  <2>4. CASE i = 2
    <3>1. 1 \in 1..(2 - 1)  OBVIOUS
    <3> QED BY <2>1, <2>2, <2>4, <3>1
  <2> QED BY <2>3, <2>4
<1> QED BY <1>4, <1>5

LEMMA RequestInv ==
    ASSUME ServicesInv, NEW c \in Calls, Request(c)
    PROVE  ServicesInv'
<1> USE DEF ServicesInv
<1>1. /\ call[c].outcome = "none" /\ call[c].runs = {} /\ phase["gateway"] = "serving"
      /\ UNCHANGED <<phase, rows, book, unlisted, cut, forced>>
  BY DEF Request, process, orders, Accepting
<1>2. PICK k \in DOMAIN Handlers :
         call' = [call EXCEPT ![c] = [NoCall EXCEPT !.kind = k, !.runs = {"gateway"}]]
  BY DEF Request
<1> DEFINE r == [NoCall EXCEPT !.kind = k, !.runs = {"gateway"}]
<1>3. /\ r \in CallType /\ r.runs = {"gateway"} /\ r.asked = {} /\ ~r.failed
      /\ r.outcome = "none"
  BY DEF CallType, NoCall, Processes
<1>4. call' \in [Calls -> CallType] /\ call'[c] = r /\ \A d \in Calls \ {c} : call'[d] = call[d]
  BY <1>2, <1>3 DEF ServicesType
<1> HIDE DEF r
<1>5. c \notin rows
  <2>1. call[c] = NoCall  BY <1>1 DEF HandlersInv
  <2> QED BY <2>1 DEF OrdersInv, NoCall
<1>6. ServicesType'  BY <1>1, <1>4 DEF ServicesType
<1>7. HandlersInv'  BY <1>1, <1>3, <1>4 DEF HandlersInv
<1>8. BooksInv'  BY <1>1 DEF BooksInv
<1>9. OrdersInv'  BY <1>1, <1>3, <1>4, <1>5 DEF OrdersInv, PlacingOK
<1>10. CallersInv'
  <2>1. \A d \in Calls \ {c} : \A x : HasCaller(d, x)' <=> HasCaller(d, x)
    BY <1>4 DEF HasCaller, Callees
  <2> QED BY <1>1, <1>3, <1>4, <2>1 DEF CallersInv
<1>11. CutInv'  BY <1>1, <1>4 DEF CutInv, SomeoneLeft
<1> QED BY ONLY <1>6, <1>7, <1>8, <1>9, <1>10, <1>11 DEF ServicesInv

(* A dial changes one call: what it was sent to, and where it runs. *)
LEMMA DialInv ==
    ASSUME ServicesInv, NEW c \in Calls, NEW s \in Processes, NEW t \in Servers, Dial(c, s, t)
    PROVE  ServicesInv'
<1> USE DEF ServicesInv
<1>1. /\ s \in call[c].runs /\ ~Waits(c, s) /\ phase[s] # "closed" /\ ~call[c].failed
      /\ NextCallee(c, s, t)
      /\ UNCHANGED <<phase, rows, book, unlisted, cut, forced>>
  BY DEF Dial, Running, process, orders
<1> DEFINE r == [call[c] EXCEPT !.asked = @ \cup {t},
                                !.runs = IF Accepting(t) THEN @ \cup {t} ELSE @,
                                !.failed = ~Accepting(t)]
<1>2. call' = [call EXCEPT ![c] = r]
  BY DEF Dial
<1>3. /\ r \in CallType /\ r.kind = call[c].kind /\ r.acted = call[c].acted
      /\ r.outcome = call[c].outcome /\ r.asked = call[c].asked \cup {t}
      /\ r.runs = IF Accepting(t) THEN call[c].runs \cup {t} ELSE call[c].runs
      /\ Accepting(t) => ~r.failed
  BY DEF ServicesType, CallType, Processes, Accepting
<1> HIDE DEF r
<1>4. call' \in [Calls -> CallType] /\ call'[c] = r /\ \A d \in Calls \ {c} : call'[d] = call[d]
  BY <1>2, <1>3 DEF ServicesType
<1>5. call[c] # NoCall /\ "gateway" \notin Servers  BY <1>1 DEF NoCall, Servers
<1>6. ServicesType'  BY <1>1, <1>4 DEF ServicesType
<1>7. HandlersInv'
  <2>1. ASSUME NEW x \in r.runs \ {"gateway"}  PROVE phase[x] \in {"serving", "stopping"}
    BY <1>3, <2>1 DEF HandlersInv, Accepting
  <2>2. "gateway" \in r.runs <=> "gateway" \in call[c].runs  BY <1>3, <1>5
  <2> QED BY <1>1, <1>3, <1>4, <1>5, <2>1, <2>2 DEF HandlersInv
<1>8. BooksInv'  BY <1>1 DEF BooksInv
<1>9. ASSUME call[c].kind = "place"
      PROVE  /\ PlacingOK(c)' /\ c \notin rows
  <2>1. /\ s = "gateway" /\ t \in {"auth", "trading"} /\ t \notin call[c].asked
        /\ t = "trading" => "auth" \in call[c].asked
        /\ Callees(c, "gateway") = {"auth", "trading"}
    BY <1>1, <1>9, PlaceCallees
  <2>2. PlacingOK(c)  BY <1>9 DEF OrdersInv
  <2>3. forced \/ {"auth", "trading"} \cap call[c].runs = {}
    BY <1>1, <2>1 DEF Waits, HandlersInv
  <2>4. c \notin rows  BY <2>1, <2>2 DEF OrdersInv, PlacingOK
  <2>5. CASE t = "auth"
    <3>1. "trading" \notin call[c].runs /\ "trading" \notin call[c].asked
      BY <2>1, <2>2, <2>5 DEF PlacingOK
    <3> QED BY <1>3, <1>4, <2>2, <2>4, <2>5, <3>1 DEF PlacingOK
  <2>6. CASE t = "trading"
    <3>1. forced \/ ("auth" \notin r.runs /\ ("trading" \in r.runs => ~r.failed))
      <4>1. CASE Accepting(t)  BY <1>3, <2>3, <2>6, <4>1
      <4>2. CASE ~Accepting(t)
        <5>1. r.runs = call[c].runs  BY <1>3, <4>2
        <5> QED BY <2>3, <5>1
      <4> QED BY <4>1, <4>2
    <3> QED BY <1>1, <1>3, <1>4, <2>1, <2>2, <2>4, <2>6, <3>1 DEF PlacingOK
  <2> QED BY <2>1, <2>5, <2>6
<1>10. OrdersInv'
  <2>1. c \notin rows  BY <1>9 DEF OrdersInv
  <2> QED BY <1>1, <1>3, <1>4, <1>9, <2>1 DEF OrdersInv, PlacingOK
<1>11. CallersInv'
  <2>1. \A x \in Processes : Callees(c, x)' = Callees(c, x)  BY <1>3, <1>4 DEF Callees
  <2>2. t \in Callees(c, s)  BY <1>1, CalleesOf
  <2>3. call[c].runs \subseteq call'[c].runs /\ call'[c].runs \subseteq call[c].runs \cup {t}
    BY <1>3, <1>4
  <2>4. call[c].runs \subseteq Processes  BY CallFields
  <2>5. \A x \in call'[c].runs : HasCaller(c, x) \/ x = t => HasCaller(c, x)'
    BY <1>1, <2>1, <2>2, <2>3, <2>4 DEF HasCaller
  <2>6. \A d \in Calls \ {c} : \A x : HasCaller(d, x)' <=> HasCaller(d, x)
    BY <1>4 DEF HasCaller, Callees
  <2> QED BY <1>1, <1>3, <1>4, <2>3, <2>5, <2>6 DEF CallersInv
<1>12. CutInv'  BY <1>1, <1>3, <1>4 DEF CutInv, SomeoneLeft
<1> QED BY ONLY <1>6, <1>7, <1>8, <1>10, <1>11, <1>12 DEF ServicesInv

(* The trading service commits or rolls back: an order rests, or a market  *)
(* is swept.  Only without its context does a handler part the books from  *)
(* the rows.                                                               *)
LEMMA ActInv ==
    ASSUME ServicesInv, NEW c \in Calls, Act(c)
    PROVE  ServicesInv'
<1> USE DEF ServicesInv
<1>1. /\ "trading" \in call[c].runs /\ ~call[c].acted /\ UNCHANGED <<phase, unlisted, forced>>
      /\ call[c].kind \in {"place", "resolve"}
  BY DEF Act, Running, process
<1>2. Acts(c) \/ ActsInVain(c)
  BY DEF Act, PlaceOrder, CancelAllOrdersByMarket
<1>3. /\ call' \in [Calls -> CallType] /\ \A d \in Calls \ {c} : call'[d] = call[d]
      /\ call'[c].kind = call[c].kind /\ call'[c].runs = call[c].runs
      /\ call'[c].asked = call[c].asked /\ call'[c].outcome = call[c].outcome
      /\ call'[c].acted
  <2>1. /\ [call[c] EXCEPT !.acted = TRUE] \in CallType
        /\ [call[c] EXCEPT !.acted = TRUE, !.failed = TRUE] \in CallType
    BY DEF ServicesType, CallType
  <2>2. CASE Acts(c)
    <3>1. call' = [call EXCEPT ![c] = [call[c] EXCEPT !.acted = TRUE]]  BY <2>2 DEF Acts
    <3>2. call'[c] = [call[c] EXCEPT !.acted = TRUE]  BY <3>1 DEF ServicesType
    <3> QED BY <2>1, <3>1, <3>2 DEF ServicesType, CallType
  <2>3. CASE ActsInVain(c)
    <3>1. call' = [call EXCEPT ![c] = [call[c] EXCEPT !.acted = TRUE, !.failed = TRUE]]
      BY <2>3 DEF ActsInVain
    <3>2. call'[c] = [call[c] EXCEPT !.acted = TRUE, !.failed = TRUE]  BY <3>1 DEF ServicesType
    <3> QED BY <2>1, <3>1, <3>2 DEF ServicesType, CallType
  <2> QED BY <1>2, <2>2, <2>3
<1>4. call[c] # NoCall  BY <1>1 DEF NoCall
<1>5. ServicesType'  BY <1>1, <1>3 DEF ServicesType
<1>6. HandlersInv'  BY <1>1, <1>3, <1>4 DEF HandlersInv
<1>7. phase["trading"] \in {"serving", "stopping"}  BY <1>1 DEF HandlersInv
<1>8. c \notin rows  BY <1>1 DEF OrdersInv
<1>9. cut' = (cut \/ Cancelled(c, "trading"))  BY DEF Act
<1>10. CallersInv'
  <2>1. \A d \in Calls : \A x : HasCaller(d, x)' <=> HasCaller(d, x)
    BY <1>3 DEF HasCaller, Callees
  <2> QED BY <1>1, <1>3, <2>1 DEF CallersInv
<1>11. CutInv'
  <2>1. Cancelled(c, "trading") => SomeoneLeft  BY <1>1, WhoIsCancelled DEF SomeoneLeft
  <2> QED BY <1>1, <1>3, <1>9, <2>1 DEF CutInv, SomeoneLeft
<1>12. CASE call[c].kind = "place" /\ PlaceOrder(c)
  <2>1. PlacingOK(c)'
    BY <1>1, <1>3, <1>12 DEF OrdersInv, PlacingOK
  <2>2. CASE UNCHANGED <<rows, book>>
    <3>1. OrdersInv'  BY <1>1, <1>3, <1>8, <2>1, <2>2 DEF OrdersInv, PlacingOK
    <3>2. BooksInv'  BY <1>1, <1>9, <2>2 DEF BooksInv
    <3> QED BY ONLY <1>5, <1>6, <1>10, <1>11, <3>1, <3>2 DEF ServicesInv
  <2>3. ASSUME NEW filled \in SUBSET book, NEW rest \in SUBSET {c},
               filled \subseteq rows, rows' = (rows \ filled) \cup rest,
               book' = (book \ filled) \cup rest, Acts(c)
        PROVE  ServicesInv'
    <3>1. call'[c].failed = call[c].failed  BY <2>3 DEF Acts, ServicesType, CallType
    <3>2. PlacingOK(c)  BY <1>12 DEF OrdersInv
    <3>3. /\ "trading" \in call'[c].asked
          /\ ~forced' => ~call'[c].failed /\ "auth" \notin call'[c].runs
      BY <1>1, <1>3, <3>1, <3>2 DEF PlacingOK
    <3>4. rows' \subseteq rows \cup {c}  BY <2>3
    <3>5. OrdersInv'  BY <1>1, <1>3, <1>12, <2>1, <3>3, <3>4 DEF OrdersInv, PlacingOK
    <3>6. BooksInv'  BY <1>1, <1>7, <1>9, <2>3 DEF BooksInv
    <3> QED BY ONLY <1>5, <1>6, <1>10, <1>11, <3>5, <3>6 DEF ServicesInv
  <2>4. CASE UNCHANGED rows /\ (Cancelled(c, "trading") \/ ~(book \subseteq rows))
    <3>1. OrdersInv'  BY <1>1, <1>3, <1>8, <2>1, <2>4 DEF OrdersInv, PlacingOK
    <3>2. BooksInv'  BY <1>1, <1>7, <1>9, <2>4 DEF BooksInv
    <3> QED BY ONLY <1>5, <1>6, <1>10, <1>11, <3>1, <3>2 DEF ServicesInv
  <2> QED BY <1>12, <2>2, <2>3, <2>4 DEF PlaceOrder
<1>13. CASE call[c].kind = "resolve" /\ CancelAllOrdersByMarket(c)
  <2>1. rows' \subseteq rows  BY <1>13 DEF CancelAllOrdersByMarket
  <2>2. book = rows /\ ~Cancelled(c, "trading") => rows' = {} /\ book' = {}
    BY <1>13 DEF CancelAllOrdersByMarket
  <2>3. OrdersInv'  BY <1>1, <1>3, <1>8, <1>13, <2>1 DEF OrdersInv, PlacingOK
  <2>4. BooksInv'  BY <1>1, <1>7, <1>9, <2>2 DEF BooksInv
  <2> QED BY ONLY <1>5, <1>6, <1>10, <1>11, <2>3, <2>4 DEF ServicesInv
<1> QED BY <1>12, <1>13 DEF Act

LEMMA ReturnInv ==
    ASSUME ServicesInv, NEW c \in Calls, NEW s \in Processes, Return(c, s)
    PROVE  ServicesInv'
<1> USE DEF ServicesInv
<1>1. /\ s \in call[c].runs /\ (~Waits(c, s) \/ Cancelled(c, s))
      /\ UNCHANGED <<phase, rows, book, unlisted, cut, forced>>
  BY DEF Return, Running, process, orders
<1>2. /\ call' \in [Calls -> CallType] /\ \A d \in Calls \ {c} : call'[d] = call[d]
      /\ call'[c].kind = call[c].kind /\ call'[c].runs = call[c].runs \ {s}
      /\ call'[c].asked = call[c].asked /\ call'[c].acted = call[c].acted
      /\ call'[c].failed = call[c].failed
      /\ call'[c].outcome = IF s = "gateway" /\ call[c].outcome = "none"
                            THEN "answered" ELSE call[c].outcome
  BY DEF Return, ServicesType, CallType
<1>3. call[c] # NoCall  BY <1>1 DEF NoCall
<1>4. ServicesType'  BY <1>1, <1>2 DEF ServicesType
<1>5. HandlersInv'  BY <1>1, <1>2, <1>3 DEF HandlersInv
<1>6. BooksInv'  BY <1>1 DEF BooksInv
<1>7. OrdersInv'  BY <1>1, <1>2 DEF OrdersInv, PlacingOK
<1>8. CallersInv'
  <2>1. ASSUME ~forced, call[c].outcome # "left", NEW x \in call'[c].runs \ {"gateway"}
        PROVE  HasCaller(c, x)'
    <3>1. PICK t \in call[c].runs : x \in Callees(c, t)
      BY <1>2, <2>1 DEF CallersInv, HasCaller
    <3>2. ~Waits(c, s) /\ phase[s] # "closed"
      BY <1>1, <2>1, WhoIsCancelled DEF HandlersInv
    <3>3. t # s  BY <1>2, <2>1, <3>1, <3>2 DEF Waits
    <3> QED BY <1>2, <3>1, <3>3 DEF HasCaller, Callees
  <2>2. \A d \in Calls \ {c} : \A x : HasCaller(d, x)' <=> HasCaller(d, x)
    BY <1>2 DEF HasCaller, Callees
  <2> QED BY <1>1, <1>2, <2>1, <2>2 DEF CallersInv
<1>9. CutInv'  BY <1>1, <1>2 DEF CutInv, SomeoneLeft
<1> QED BY ONLY <1>4, <1>5, <1>6, <1>7, <1>8, <1>9 DEF ServicesInv

(* A client leaves while its handler runs. *)
LEMMA LeaveInv ==
    ASSUME ServicesInv, NEW c \in Calls, Leave(c)
    PROVE  ServicesInv'
<1> USE DEF ServicesInv
<1>1. /\ "gateway" \in call[c].runs /\ call[c].outcome = "none"
      /\ UNCHANGED <<phase, rows, book, unlisted, cut, forced>>
  BY DEF Leave, process, orders
<1>2. /\ call' \in [Calls -> CallType] /\ \A d \in Calls \ {c} : call'[d] = call[d]
      /\ call'[c].kind = call[c].kind /\ call'[c].runs = call[c].runs
      /\ call'[c].asked = call[c].asked /\ call'[c].acted = call[c].acted
      /\ call'[c].failed = call[c].failed /\ call'[c].outcome = "left"
  BY DEF Leave, ServicesType, CallType
<1>3. ServicesType'  BY <1>1, <1>2 DEF ServicesType
<1>4. HandlersInv'  BY <1>1, <1>2 DEF HandlersInv
<1>5. CallersInv'
  <2>1. \A d \in Calls \ {c} : \A x : HasCaller(d, x)' <=> HasCaller(d, x)
    BY <1>2 DEF HasCaller, Callees
  <2> QED BY <1>1, <1>2, <2>1 DEF CallersInv
<1>6. BooksInv'  BY <1>1 DEF BooksInv
<1>7. CutInv'  BY <1>2 DEF CutInv, SomeoneLeft
<1>8. OrdersInv'  BY <1>1, <1>2 DEF OrdersInv, PlacingOK
<1> QED BY ONLY <1>3, <1>4, <1>5, <1>6, <1>7, <1>8 DEF ServicesInv

-----------------------------------------------------------------------------
(* Processes                                                               *)

(* A process goes from phase to phase while no handler runs in it, or goes *)
(* on serving them.                                                        *)
LEMMA Moves ==
    ASSUME ServicesInv, NEW s \in Processes, NEW p \in Phases, Enter(s, p),
           UNCHANGED <<call, rows, forced, unlisted, cut>>,
           \/ p \in {"serving", "stopping"}
           \/ Drained(s)
           \/ phase[s] \notin {"serving", "stopping", "closed"},
           s = "trading" /\ p \in {"ready", "serving", "stopping"}
             => UNCHANGED book /\ phase[s] \in {"ready", "serving"},
           s # "trading" => UNCHANGED book
    PROVE  ServicesInv'
<1> USE DEF ServicesInv
<1>1. /\ phase' \in [Processes -> Phases] /\ phase'[s] = p
      /\ \A x \in Processes \ {s} : phase'[x] = phase[x]
  BY DEF Enter, ServicesType
<1>2. ServicesType'  BY <1>1 DEF ServicesType
<1>3. p \in {"serving", "stopping"} \/ \A c \in Calls : s \notin call[c].runs
  BY DEF Drained, HandlersInv
<1>4. HandlersInv'
  <2>1. \A c \in Calls : call[c].runs \subseteq Processes  BY CallFields
  <2> QED BY <1>1, <1>3, <2>1 DEF HandlersInv, Processes
<1>5. BooksInv'  BY <1>1 DEF BooksInv, Processes, Servers
<1>6. OrdersInv'  BY DEF OrdersInv, PlacingOK
<1>7. CallersInv' /\ CutInv'
  BY DEF CallersInv, HasCaller, Callees, CutInv, SomeoneLeft
<1> QED BY ONLY <1>2, <1>4, <1>5, <1>6, <1>7 DEF ServicesInv

LEMMA MainInv ==
    ASSUME ServicesInv, NEW s \in Processes,
           \/ CannotConnect(s) \/ Start(s) \/ Signal(s) \/ CannotListen(s)
           \/ Serve(s) \/ StopListening(s) \/ Close(s) \/ (s = "trading" /\ RestoreBooks)
    PROVE  ServicesInv'
<1>1. ASSUME UNCHANGED <<phase, call, rows, book, forced, unlisted, cut>>  PROVE ServicesInv'
  BY <1>1 DEF ServicesInv, ServicesType, HandlersInv, CallersInv, HasCaller, Callees, BooksInv,
              CutInv, SomeoneLeft, OrdersInv, PlacingOK
<1>2. CASE CannotConnect(s) \/ Signal(s)
  BY <1>1, <1>2 DEF CannotConnect, Signal, process, orders
<1>3. CASE Start(s)  BY <1>3, Moves DEF Start, orders, Phases
<1>4. CASE CannotListen(s)
  <2>1. CASE s = "gateway"
    BY <1>1, <1>4, <2>1 DEF CannotListen
  <2>2. CASE s # "gateway"
    <3>1. /\ Enter(s, "down") /\ phase[s] \in {"ready", "connected"}
          /\ UNCHANGED <<call, rows, forced, unlisted, cut>> /\ (s # "trading" => UNCHANGED book)
      BY <1>4, <2>2 DEF CannotListen, Prepared
    <3> QED BY <3>1, Moves DEF Phases
  <2> QED BY <2>1, <2>2
<1>5. CASE Serve(s)  BY <1>5, Moves DEF Serve, Prepared, orders, Phases
<1>6. CASE StopListening(s)
  BY <1>6, Moves DEF StopListening, Prepared, orders, Phases
<1>7. CASE Close(s)  BY <1>7, Moves DEF Close, orders, Phases
<1>8. CASE RestoreBooks
  <2> USE DEF ServicesInv
  <2>1. /\ phase["trading"] = "connected" /\ Enter("trading", "ready")
        /\ UNCHANGED <<rows, call, forced>>
        /\ unlisted' \in BOOLEAN /\ (unlisted' \/ book' = rows) /\ ~cut'
    BY <1>8 DEF RestoreBooks
  <2>2. /\ phase' \in [Processes -> Phases] /\ phase'["trading"] = "ready"
        /\ \A x \in Processes \ {"trading"} : phase'[x] = phase[x]
    BY <2>1 DEF Enter, ServicesType, Phases, Processes, Servers
  <2>3. \A c \in Calls : call[c].runs \subseteq Processes  BY CallFields
  <2>4. ServicesType'  BY <2>1, <2>2 DEF ServicesType
  <2>5. HandlersInv'  BY <2>1, <2>2, <2>3 DEF HandlersInv, Processes
  <2>6. BooksInv'  BY <2>1 DEF BooksInv
  <2>7. OrdersInv'  BY <2>1 DEF OrdersInv, PlacingOK
  <2>8. CallersInv' /\ CutInv'
    BY <2>1 DEF CallersInv, HasCaller, Callees, CutInv, SomeoneLeft
  <2> QED BY ONLY <2>4, <2>5, <2>6, <2>7, <2>8 DEF ServicesInv
<1> QED BY <1>2, <1>3, <1>4, <1>5, <1>6, <1>7, <1>8

(* A process ends, by a kill or after its last handler, unless it did not  *)
(* wait for it.                                                            *)
LEMMA EndInv ==
    ASSUME ServicesInv, NEW s \in Processes, End(s),
           (phase[s] = "closed" /\ forced' = forced) \/ forced' = TRUE
    PROVE  ServicesInv'
<1> USE DEF ServicesInv
<1> DEFINE Ended(r) == [r EXCEPT !.runs = @ \ {s}, !.failed = @ \/ s # "gateway",
                                 !.outcome = IF s = "gateway" /\ @ = "none" THEN "lost" ELSE @]
<1>1. /\ phase' \in [Processes -> Phases] /\ phase'[s] = "down"
      /\ \A x \in Processes \ {s} : phase'[x] = phase[x]
      /\ UNCHANGED <<rows, unlisted, cut>> /\ (s # "trading" => book' = book)
  BY DEF End, Enter, ServicesType, Phases
<1>2. \A c \in Calls : call'[c] = IF s \notin call[c].runs THEN call[c] ELSE Ended(call[c])
  BY DEF End
<1>3. ASSUME NEW r \in CallType
      PROVE  /\ Ended(r) \in CallType /\ Ended(r).kind = r.kind /\ Ended(r).runs = r.runs \ {s}
             /\ Ended(r).asked = r.asked /\ Ended(r).acted = r.acted
             /\ Ended(r).outcome = IF s = "gateway" /\ r.outcome = "none"
                                   THEN "lost" ELSE r.outcome
  BY DEF CallType
<1> HIDE DEF Ended
<1>4. call' \in [Calls -> CallType]
  <2>1. call' = [c \in Calls |-> IF s \notin call[c].runs THEN call[c] ELSE Ended(call[c])]
    BY DEF End, Ended
  <2> QED BY <1>3, <2>1 DEF ServicesType
<1>5. ASSUME NEW c \in Calls
      PROVE  /\ call'[c].kind = call[c].kind /\ call'[c].runs = call[c].runs \ {s}
             /\ call'[c].asked = call[c].asked /\ call'[c].acted = call[c].acted
             /\ s \notin call[c].runs => call'[c] = call[c]
             /\ call'[c].outcome = IF s = "gateway" /\ s \in call[c].runs
                                      /\ call[c].outcome = "none"
                                   THEN "lost" ELSE call[c].outcome
  BY <1>2, <1>3 DEF ServicesType
<1>6. ASSUME NEW c \in Calls, s \in call[c].runs
      PROVE  forced' /\ call[c] # NoCall
  BY <1>6 DEF HandlersInv, NoCall
<1>7. ServicesType'  BY <1>1, <1>4 DEF ServicesType
<1>8. HandlersInv'
  <2> SUFFICES ASSUME NEW c \in Calls
               PROVE  /\ \A x \in call'[c].runs \ {"gateway"} : phase'[x] \in {"serving", "stopping"}
                      /\ "gateway" \in call'[c].runs =>
                           phase'["gateway"] \in {"serving", "stopping", "closed"}
                      /\ "gateway" \in call'[c].runs /\ phase'["gateway"] = "closed" => forced'
                      /\ call'[c].outcome = "none" /\ "gateway" \notin call'[c].runs
                           => call'[c] = NoCall
    BY DEF HandlersInv
  <2>1. \A x \in call'[c].runs : x \in call[c].runs /\ phase'[x] = phase[x]
    <3>1. call[c].runs \subseteq Processes  BY CallFields
    <3> QED BY <1>1, <1>5, <3>1
  <2>2. forced => forced'  OBVIOUS
  <2>3. CASE s \notin call[c].runs
    <3>1. call'[c] = call[c]  BY <1>5, <2>3
    <3> QED BY <2>1, <2>2, <3>1 DEF HandlersInv
  <2>4. CASE s \in call[c].runs
    <3>1. "gateway" \notin call'[c].runs => call'[c].outcome # "none"
      BY <1>5, <1>6, <2>4 DEF HandlersInv
    <3> QED BY <2>1, <2>2, <3>1 DEF HandlersInv
  <2> QED BY <2>3, <2>4
<1>9. BooksInv'  BY <1>1 DEF BooksInv, Processes, Servers
<1>10. OrdersInv'  BY <1>1, <1>5, <1>6 DEF OrdersInv, PlacingOK
<1>11. CallersInv'
  <2>1. CASE forced'  BY <2>1 DEF CallersInv
  <2>2. CASE ~forced'
    <3>1. ~forced /\ \A c \in Calls : call'[c] = call[c]  BY <1>5, <1>6, <2>2
    <3> QED BY <2>2, <3>1 DEF CallersInv, HasCaller, Callees
  <2> QED BY <2>1, <2>2
<1>12. CutInv'  BY <1>1, <1>5 DEF CutInv, SomeoneLeft
<1> QED BY ONLY <1>7, <1>8, <1>9, <1>10, <1>11, <1>12 DEF ServicesInv

LEMMA GiveUpInv ==
    ASSUME ServicesInv, GiveUpWaiting
    PROVE  ServicesInv'
<1> USE DEF ServicesInv
<1>1. /\ phase' = [phase EXCEPT !["gateway"] = "closed"] /\ forced' = TRUE
      /\ UNCHANGED <<rows, book, unlisted, cut, call>>
  BY DEF GiveUpWaiting, Enter, orders
<1>2. ServicesType'  BY <1>1 DEF ServicesType, Phases
<1>3. \A s \in Processes \ {"gateway"} : phase'[s] = phase[s]  BY <1>1 DEF ServicesType
<1>4. HandlersInv'
  <2>1. \A c \in Calls : call[c].runs \subseteq Processes  BY CallFields
  <2> QED BY <1>1, <1>3, <2>1 DEF HandlersInv, ServicesType, Processes
<1>5. BooksInv'  BY <1>1, <1>3 DEF BooksInv, Processes, Servers
<1>6. CallersInv' /\ CutInv'  BY <1>1 DEF CallersInv, CutInv, SomeoneLeft
<1>7. OrdersInv'  BY <1>1 DEF OrdersInv, PlacingOK
<1> QED BY ONLY <1>2, <1>4, <1>5, <1>6, <1>7 DEF ServicesInv

-----------------------------------------------------------------------------
(* Theorems                                                                *)

LEMMA NextInv == ServicesInv /\ [Next]_vars => ServicesInv'
<1> SUFFICES ASSUME ServicesInv, [Next]_vars  PROVE ServicesInv'
  OBVIOUS
<1>1. ASSUME NEW s \in Processes, Exit(s) \/ Kill(s)  PROVE ServicesInv'
  BY <1>1, EndInv DEF Exit, Kill
<1>2. ASSUME NEW s \in Processes, Main(s)  PROVE ServicesInv'
  BY <1>1, <1>2, MainInv DEF Main
<1>3. ASSUME NEW c \in Calls, NEW s \in Processes, Handle(c, s)  PROVE ServicesInv'
  BY <1>3, DialInv, ReturnInv DEF Handle
<1>4. CASE UNCHANGED vars
  BY <1>4 DEF vars, process, orders, counts, ServicesInv, ServicesType, HandlersInv,
              CallersInv, HasCaller, Callees, BooksInv, CutInv, SomeoneLeft, OrdersInv, PlacingOK
<1> QED BY <1>1, <1>2, <1>3, <1>4, MainInv, GiveUpInv, RequestInv, LeaveInv, ActInv DEF Next

LEMMA ServicesInvariant == Spec => []ServicesInv
<1>1. Init => ServicesInv  BY InitInv
<1>2. ServicesInv /\ [Next]_vars => ServicesInv'  BY NextInv
<1> QED BY <1>1, <1>2, PTL DEF Spec

(* However often the trading service stops, is killed and starts, with any *)
(* number of calls on their way: while it takes calls its books hold the   *)
(* open rows, unless it could not list them when it started                *)
(* (trading-svc/cmd/main.go:93-103) or a handler has since acted without   *)
(* its context (order.go:142, tx_manager.go:28-48); and stops that wait    *)
(* for their handlers take away no context.                                *)
THEOREM RestartsRestoreBooks == Spec => []BooksAreRestored
<1>1. ServicesInv => BooksAreRestored
  BY DEF ServicesInv, BooksInv, CutInv, SomeoneLeft, BooksAreRestored, Accepting
<1> QED BY <1>1, ServicesInvariant, PTL

(* Only a kill, or a gateway that has waited ten seconds, loses an answer  *)
(* or reports an error for an order that rests: every other stop waits for *)
(* the handlers, and they fail before the order or not at all              *)
(* (trading-svc/cmd/main.go:143-148, gateway/cmd/main.go:153-162).         *)
THEOREM OnlyForceLosesAnswers == Spec => []StopsLoseNothing
<1>1. ServicesInv => StopsLoseNothing
  BY DEF ServicesInv, OrdersInv, StopsLoseNothing
<1> QED BY <1>1, ServicesInvariant, PTL
===============================================================================

--------------------------------- MODULE WsHub ---------------------------------
(***************************************************************************)
(* The gateway's WebSocket hub (services/gateway/internal/ws): the Run     *)
(* goroutine, its three buffered channels, and the ReadPump and WritePump  *)
(* goroutines of every client.  Broadcasts come from the event bus.        *)
(***************************************************************************)
EXTENDS Integers, Sequences, FiniteSets

CONSTANTS
  Clients,
  Anonymous,                     \* clients without a UserID
  MarketTopics, UserTopics,
  NoCommand,                     \* a reader that waits for a message
  QueueCap, CommandCap, SendCap, \* buffers: register and unregister, commands, Send
  MaxRequests,                   \* bound on the messages of all clients
  MaxBroadcasts,                 \* bound on the messages of the event bus
  MaxStops                       \* bound on calls of Stop

ASSUME HubAssumption ==
  /\ Anonymous \subseteq Clients
  /\ MarketTopics \cap UserTopics = {}
  /\ {QueueCap, CommandCap, SendCap} \subseteq Nat \ {0}
  /\ {MaxRequests, MaxBroadcasts, MaxStops} \subseteq Nat

Topics == MarketTopics \cup UserTopics

VARIABLES
  run,         \* the Run goroutine; a channel's name once that one has woken it
  register, unregister, commands,    \* the channels
  clients, subs,                     \* the hub's maps
  send, closed,                      \* each client's Send channel
  conn,        \* "new", "open" or "closed"
  reader,      \* "none", "reading" or "done"
  pending,     \* the command a reader is handing over
  writer,      \* "none", "writing" or "done"
  requests, published, stops,        \* counters, for the bounds
  last,        \* history: number of the last message written to each client
  early,       \* history: clients unregistered before they were registered
  late         \* history: clients removed before their commands were processed

queues  == <<register, unregister, commands>>
hub     == <<clients, subs, send, closed>>
pumps   == <<conn, reader, pending, writer>>
counts  == <<requests, published, stops>>
history == <<last, early, late>>
vars    == <<run, queues, hub, pumps, counts, history>>

Subscribe(c, t)   == [typ |-> "subscribe", client |-> c, topic |-> t]
Unsubscribe(c, t) == [typ |-> "unsubscribe", client |-> c, topic |-> t]
Publish(t, m)     == [typ |-> "broadcast", topic |-> t, message |-> m]

\* What a client may send; a user topic cannot be unsubscribed.
ClientCommands(c) == {Subscribe(c, t) : t \in Topics}
                       \cup {Unsubscribe(c, t) : t \in MarketTopics}

Commands == (UNION {ClientCommands(c) : c \in Clients})
              \cup {Publish(t, m) : t \in Topics, m \in 1..MaxBroadcasts}

Up == run # "panicked"

\* A goroutine parked in its select takes what is sent first.
Wake(channel) == run' = IF run = "parked" THEN channel ELSE run

-----------------------------------------------------------------------------

Init ==
  /\ run = "select"
  /\ register = <<>> /\ unregister = <<>> /\ commands = <<>>
  /\ clients = {}
  /\ subs      = [t \in Topics |-> {}]
  /\ send      = [c \in Clients |-> <<>>]
  /\ closed    = [c \in Clients |-> FALSE]
  /\ conn      = [c \in Clients |-> "new"]
  /\ reader    = [c \in Clients |-> "none"]
  /\ pending   = [c \in Clients |-> NoCommand]
  /\ writer    = [c \in Clients |-> "none"]
  /\ requests  = 0
  /\ published = 0
  /\ stops     = 0
  /\ last      = [c \in Clients |-> 0]
  /\ early = {} /\ late = {}

-----------------------------------------------------------------------------
(* A connection and its two goroutines.                                    *)

\* NewClient and Register, then the pumps are started.
Connect(c) ==
  /\ Up /\ conn[c] = "new"
  /\ Len(register) < QueueCap
  /\ register' = Append(register, c) /\ Wake("register")
  /\ conn'   = [conn EXCEPT ![c] = "open"]
  /\ reader' = [reader EXCEPT ![c] = "reading"]
  /\ writer' = [writer EXCEPT ![c] = "writing"]
  /\ UNCHANGED <<unregister, commands, hub, pending, counts, history>>

\* The peer leaves, is silent for too long or sends too much.
BreakConn(c) ==
  /\ Up /\ conn[c] = "open"
  /\ conn' = [conn EXCEPT ![c] = "closed"]
  /\ UNCHANGED <<run, queues, hub, reader, pending, writer, counts, history>>

\* ReadPump gets a message and turns it into a command of the hub...
Receive(c, cmd) ==
  /\ Up /\ reader[c] = "reading" /\ conn[c] = "open" /\ pending[c] = NoCommand
  /\ requests < MaxRequests
  /\ requests' = requests + 1
  /\ pending' = [pending EXCEPT ![c] = cmd]
  /\ UNCHANGED <<run, queues, hub, conn, reader, writer, published, stops, history>>

\* ... which waits for room in the commands channel.
Dispatch(c) ==
  /\ Up /\ pending[c] # NoCommand
  /\ Len(commands) < CommandCap
  /\ commands' = Append(commands, pending[c]) /\ Wake("commands")
  /\ pending' = [pending EXCEPT ![c] = NoCommand]
  /\ UNCHANGED <<register, unregister, hub, conn, reader, writer, counts, history>>

LeaveSilently(c) ==              \* mutated form: no deferred Unregister
  /\ Up /\ reader[c] = "reading" /\ conn[c] = "closed" /\ pending[c] = NoCommand
  /\ reader' = [reader EXCEPT ![c] = "done"]
  /\ UNCHANGED <<run, queues, hub, conn, pending, writer, counts, history>>

\* ReadMessage fails and the deferred Unregister waits for room.
Leave(c) ==
  /\ Up /\ reader[c] = "reading" /\ conn[c] = "closed" /\ pending[c] = NoCommand
  /\ Len(unregister) < QueueCap
  /\ unregister' = Append(unregister, c) /\ Wake("unregister")
  /\ reader' = [reader EXCEPT ![c] = "done"]
  /\ UNCHANGED <<register, commands, hub, conn, pending, writer, counts, history>>

\* WritePump writes the next message; an error ends it.
Write(c) ==
  /\ Up /\ writer[c] = "writing" /\ send[c] # <<>>
  /\ send' = [send EXCEPT ![c] = Tail(@)]
  /\ IF conn[c] = "open"
     THEN last' = [last EXCEPT ![c] = Head(send[c])] /\ writer' = writer
     ELSE writer' = [writer EXCEPT ![c] = "done"] /\ last' = last
  /\ UNCHANGED <<run, queues, clients, subs, closed, conn, reader, pending, counts,
                 early, late>>

\* The Send channel is closed and drained, or a ping fails.
WriterDone(c) == (closed[c] /\ send[c] = <<>>) \/ conn[c] = "closed"

StopWriting(c) ==
  /\ Up /\ writer[c] = "writing"
  /\ WriterDone(c)
  /\ writer' = [writer EXCEPT ![c] = "done"]
  /\ conn' = [conn EXCEPT ![c] = "closed"]
  /\ UNCHANGED <<run, queues, hub, reader, pending, counts, history>>

\* The event bus has a trade or an order event for a topic.
Broadcast(t) ==
  /\ Up /\ published < MaxBroadcasts
  /\ Len(commands) < CommandCap
  /\ published' = published + 1
  /\ commands' = Append(commands, Publish(t, published + 1)) /\ Wake("commands")
  /\ UNCHANGED <<register, unregister, hub, pumps, requests, stops, history>>

-----------------------------------------------------------------------------
(* The Run goroutine.  One iteration is one step.                          *)

\* select takes any channel that is ready.
Takes(channel, name) == channel # <<>> /\ run \in {"select", name} /\ run' = "select"

TakeRegister ==
  /\ Takes(register, "register")
  /\ register' = Tail(register)
  /\ clients' = clients \cup {Head(register)}
  /\ UNCHANGED <<unregister, commands, subs, send, closed, pumps, counts, history>>

CommandsOf(c) == {i \in DOMAIN commands : commands[i] \in ClientCommands(c)}

RemovedFromUserTopics(c) ==      \* mutated form: market subscriptions stay
  [t \in Topics |-> IF t \in UserTopics THEN subs[t] \ {c} ELSE subs[t]]

RemovedFromTopics(c) == [t \in Topics |-> subs[t] \ {c}]

TakeUnregister ==
  /\ Takes(unregister, "unregister")
  /\ unregister' = Tail(unregister)
  /\ LET c == Head(unregister)
     IN  IF c \in clients
         THEN /\ clients' = clients \ {c}
              /\ closed' = [closed EXCEPT ![c] = TRUE]
              /\ subs' = RemovedFromTopics(c)
              /\ late' = IF CommandsOf(c) = {} THEN late ELSE late \cup {c}
              /\ early' = early
         ELSE /\ early' = early \cup {c}
              /\ UNCHANGED <<clients, closed, subs, late>>
  /\ UNCHANGED <<register, commands, send, pumps, counts, last>>

ProcessSubscription(cmd) ==
  subs' = [subs EXCEPT ![cmd.topic] =
             IF cmd.typ = "unsubscribe" THEN @ \ {cmd.client}
             ELSE IF cmd.topic \in UserTopics /\ cmd.client \in Anonymous THEN @
             ELSE @ \cup {cmd.client}]

InFront(queue, m) == <<m>> \o queue  \* mutated form: newest first

InOrder(queue, m) == Append(queue, m)

Room(c) == Len(send[c]) < SendCap

\* The Send channels after a message for a topic: full ones are skipped.
Sent(cmd) == [c \in Clients |-> IF c \in subs[cmd.topic] /\ Room(c)
                                THEN InOrder(send[c], cmd.message) ELSE send[c]]

DeliverWaiting(cmd) ==           \* mutated form: waits for slow clients
  /\ \A c \in subs[cmd.topic] : Room(c)
  /\ run' = "select" /\ send' = Sent(cmd)

\* A subscriber whose Send is closed makes the send, and the hub, panic.
Deliver(cmd) ==
  IF \E c \in subs[cmd.topic] : closed[c]
  THEN run' = "panicked" /\ send' = send
  ELSE run' = "select" /\ send' = Sent(cmd)

TakeCommand ==
  /\ commands # <<>> /\ run \in {"select", "commands"}
  /\ commands' = Tail(commands)
  /\ LET cmd == Head(commands)
     IN  IF cmd.typ = "broadcast"
         THEN Deliver(cmd) /\ subs' = subs
         ELSE ProcessSubscription(cmd) /\ run' = "select" /\ send' = send
  /\ UNCHANGED <<register, unregister, clients, closed, pumps, counts, history>>

\* Nothing is ready: the goroutine waits in its select.
Park ==
  /\ run = "select" /\ register = <<>> /\ unregister = <<>> /\ commands = <<>>
  /\ run' = "parked"
  /\ UNCHANGED <<queues, hub, pumps, counts, history>>

\* A send that gives up unless Run is waiting for it at this moment.
Stop ==
  /\ Up /\ stops < MaxStops
  /\ stops' = stops + 1
  /\ run' = IF run = "parked" THEN "stopped" ELSE run
  /\ UNCHANGED <<queues, hub, pumps, requests, published, history>>

-----------------------------------------------------------------------------

Pumps(c) == \/ Connect(c) \/ BreakConn(c)
            \/ \E cmd \in ClientCommands(c) : Receive(c, cmd)
            \/ Dispatch(c) \/ Leave(c) \/ Write(c) \/ StopWriting(c)

RunStep == TakeRegister \/ TakeUnregister \/ TakeCommand \/ Park

Next == \/ \E c \in Clients : Pumps(c)
        \/ \E t \in Topics : Broadcast(t)
        \/ RunStep \/ Stop

Spec == Init /\ [][Next]_vars

\* A goroutine that can run does, and Run takes from each channel that stays
\* ready: select chooses at random.  (Go also serves goroutines blocked on a
\* channel in order, which the properties do not need.)  Peers and the event
\* bus owe nothing.
Fairness ==
  /\ WF_vars(TakeRegister) /\ WF_vars(TakeUnregister) /\ WF_vars(TakeCommand)
  /\ WF_vars(Park)
  /\ \A c \in Clients : WF_vars(Dispatch(c)) /\ WF_vars(Leave(c)) /\ WF_vars(StopWriting(c))

FairSpec == Spec /\ Fairness

-----------------------------------------------------------------------------
(* Properties                                                              *)

InSeq(q) == {q[i] : i \in DOMAIN q}

\* The channels keep to their buffers, each client is in one of them at most
\* once, and what is closed was registered before.
TypeOK ==
  /\ run \in {"select", "parked", "register", "unregister", "commands",
              "stopped", "panicked"}
  /\ Len(register) <= QueueCap /\ Len(unregister) <= QueueCap
  /\ Len(commands) <= CommandCap /\ InSeq(commands) \subseteq Commands
  /\ InSeq(register) \subseteq Clients /\ InSeq(unregister) \subseteq Clients
  /\ clients \subseteq Clients /\ subs \in [Topics -> SUBSET Clients]
  /\ closed \in [Clients -> BOOLEAN]
  /\ \A c \in Clients : /\ Len(send[c]) <= SendCap
                        /\ InSeq(send[c]) \subseteq 1..MaxBroadcasts
                        /\ pending[c] \in ClientCommands(c) \cup {NoCommand}
                        /\ closed[c] => c \notin clients

\* The hub can only be brought down by a subscription it processed after it
\* had removed the client (hub.go:92-111, 159-168): a removal itself leaves no
\* closed channel among the subscribers.
OnlyLateCommandsPanic ==
  /\ run = "panicked" => late # {}
  /\ \A t \in Topics : \A c \in subs[t] : closed[c] => c \in late

\* A client whose ReadPump has ended is about to be removed or is removed, with
\* its Send closed, unless its removal overtook its registration
\* (client.go:60-63, hub.go:92-95).
GoneIsRemoved ==
  \A c \in Clients : (reader[c] = "done" /\ c \notin early) =>
    \/ c \in InSeq(unregister)
    \/ closed[c] /\ c \notin clients

\* A client sees the messages of its topics in the order in which they were
\* published, each at most once, however many were skipped (hub.go:161-167).
FeedInOrder ==
  \A c \in Clients :
    LET seen == <<last[c]>> \o send[c]
    IN  \A i, j \in DOMAIN seen : i < j => seen[i] < seen[j]

Over == run \in {"stopped", "panicked"}

\* The two goroutines of a broken connection end: no slow or dead client keeps
\* the hub from taking what others send it (hub.go:165), and WritePump ends
\* also when the hub never closes the client's Send channel
\* (client.go:158-162).
PumpsEnd == \A c \in Clients :
              conn[c] = "closed" ~> ((reader[c] = "done" /\ writer[c] = "done") \/ Over)

-----------------------------------------------------------------------------
(* What comments in the code say and the code does not do.                 *)

\* Run "blocks until Stop is called" (hub.go:81): nothing else ends it.
RunsUntilStopped == run # "panicked"

\* "The Send channel will be closed once the Run goroutine processes the
\* unregistration" (hub.go:197).
UnregisteredIsClosed ==
  \A c \in Clients : (reader[c] = "done" /\ c \notin InSeq(unregister)) => closed[c]

\* "Stop signals the hub's Run goroutine to exit" (hub.go:183).
StopEndsRun == stops > 0 ~> Over

=============================================================================

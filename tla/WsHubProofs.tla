------------------------------ MODULE WsHubProofs ------------------------------
(***************************************************************************)
(* What the WebSocket hub keeps for any number of clients, topics and      *)
(* messages and any size of its buffers: its maps and channels agree about *)
(* who is connected, only a command processed after its client's removal   *)
(* can bring it down, and every feed is in order.                          *)
(***************************************************************************)
EXTENDS WsHub, SequenceTheorems, TLAPS

\* The channels are sequences, and each pump is in one of its states.
HubType ==
  /\ run \in {"select", "parked", "register", "unregister", "commands",
              "stopped", "panicked"}
  /\ register \in Seq(Clients) /\ unregister \in Seq(Clients) /\ commands \in Seq(Commands)
  /\ Len(register) <= QueueCap /\ Len(unregister) <= QueueCap
  /\ Len(commands) <= CommandCap
  /\ clients \subseteq Clients /\ subs \in [Topics -> SUBSET Clients]
  /\ send \in [Clients -> Seq(1..MaxBroadcasts)]
  /\ \A c \in Clients : Len(send[c]) <= SendCap
  /\ closed \in [Clients -> BOOLEAN]
  /\ conn \in [Clients -> {"new", "open", "closed"}]
  /\ reader \in [Clients -> {"none", "reading", "done"}]
  /\ writer \in [Clients -> {"none", "writing", "done"}]
  /\ pending \in [Clients -> Commands \cup {NoCommand}]
  /\ \A c \in Clients : pending[c] \in ClientCommands(c) \cup {NoCommand}
  /\ published \in 0..MaxBroadcasts
  /\ last \in [Clients -> 0..MaxBroadcasts]

\* A client waits for its registration, is registered, or was removed, and it
\* asks for its removal when its ReadPump ends.
MembersInv ==
  /\ \A c \in Clients :
       /\ reader[c] = "none" => /\ c \notin InSeq(register) /\ c \notin InSeq(unregister)
                                /\ c \notin clients /\ ~closed[c]
       /\ conn[c] = "new" <=> reader[c] = "none"
       /\ conn[c] = "new" => writer[c] = "none"
       /\ c \in InSeq(register) => c \notin clients /\ ~closed[c]
       /\ c \in InSeq(unregister) => reader[c] = "done"
       /\ closed[c] => reader[c] = "done" /\ c \notin clients
  /\ \A i, j \in 1..Len(register) : register[i] = register[j] => i = j

\* A removed client sends no more commands, and those that it has sent make it
\* a late one.
LateInv ==
  /\ \A c \in Clients :
       /\ reader[c] # "reading" => pending[c] = NoCommand
       /\ closed[c] /\ c \notin late => InSeq(commands) \cap ClientCommands(c) = {}
  /\ OnlyLateCommandsPanic

\* One feed: the number of the last message written, and those that are sent.
Newer(n, l, q) == l < n /\ \A k \in 1..Len(q) : q[k] < n

FeedOK(l, q, p) ==
  /\ l <= p
  /\ \A i \in 1..Len(q) : l < q[i] /\ q[i] <= p
  /\ \A i, j \in 1..Len(q) : i < j => q[i] < q[j]

IsPublished(cmd) == cmd.typ = "broadcast"

Behind(cmd, l, q, p) ==
  IsPublished(cmd) => cmd.message <= p /\ \A c \in Clients : Newer(cmd.message, l[c], q[c])

Ascending(cmds) ==
  \A i, j \in 1..Len(cmds) :
    i < j /\ IsPublished(cmds[i]) /\ IsPublished(cmds[j]) => cmds[i].message < cmds[j].message

\* What is still in the commands channel is newer than what was sent, and what
\* was sent is newer than what was written.
FeedInv ==
  /\ \A c \in Clients : FeedOK(last[c], send[c], published)
  /\ \A i \in 1..Len(commands) : Behind(commands[i], last, send, published)
  /\ Ascending(commands)

HubInv == HubType /\ MembersInv /\ LateInv /\ GoneIsRemoved /\ FeedInv

-----------------------------------------------------------------------------
(* Channels                                                                *)

\* A send puts an element behind those that wait.
LEMMA Sending ==
  ASSUME NEW S, NEW q \in Seq(S), NEW e \in S
  PROVE  /\ Append(q, e) \in Seq(S)
         /\ Len(Append(q, e)) = Len(q) + 1
         /\ \A i \in 1..Len(q) : Append(q, e)[i] = q[i]
         /\ Append(q, e)[Len(q) + 1] = e
         /\ InSeq(Append(q, e)) = InSeq(q) \cup {e}
<1>1. /\ Append(q, e) \in Seq(S) /\ Len(Append(q, e)) = Len(q) + 1
      /\ \A i \in 1..Len(q) : Append(q, e)[i] = q[i]
      /\ Append(q, e)[Len(q) + 1] = e
  BY AppendProperties
<1>2. Len(q) \in Nat /\ DOMAIN q = 1..Len(q) /\ DOMAIN Append(q, e) = 1..(Len(q) + 1)
  BY <1>1, LenProperties
<1>3. InSeq(Append(q, e)) = InSeq(q) \cup {e}
  <2>1. 1..(Len(q) + 1) = 1..Len(q) \cup {Len(q) + 1}  BY ONLY <1>2
  <2> QED BY ONLY <1>1, <1>2, <2>1 DEF InSeq
<1> QED BY ONLY <1>1, <1>3

\* A receive takes the first element and leaves the others in their order.
LEMMA Receiving ==
  ASSUME NEW S, NEW q \in Seq(S), q # <<>>
  PROVE  /\ Tail(q) \in Seq(S) /\ Len(q) \in Nat /\ Len(Tail(q)) \in Nat
         /\ Len(Tail(q)) = Len(q) - 1
         /\ \A i \in 1..Len(Tail(q)) : i + 1 \in 1..Len(q) /\ Tail(q)[i] = q[i + 1]
         /\ 1 \in 1..Len(q) /\ Head(q) = q[1] /\ Head(q) \in S
         /\ InSeq(q) = {Head(q)} \cup InSeq(Tail(q))
<1>1. /\ Head(q) \in S /\ Tail(q) \in Seq(S) /\ Len(Tail(q)) = Len(q) - 1
      /\ \A i \in 1..Len(Tail(q)) : Tail(q)[i] = q[i + 1]
  BY HeadTailProperties
<1>2. /\ Len(q) \in Nat \ {0} /\ DOMAIN q = 1..Len(q)
      /\ Len(Tail(q)) \in Nat /\ DOMAIN Tail(q) = 1..Len(Tail(q))
  BY <1>1, LenProperties, EmptySeq
<1>3. Head(q) = q[1]  OBVIOUS
<1>4. \A i \in 1..Len(Tail(q)) : i + 1 \in 1..Len(q)  BY ONLY <1>1, <1>2
<1>5. 1 \in 1..Len(q)  BY ONLY <1>2
<1>6. ASSUME NEW i \in 1..Len(q)
      PROVE  i = 1 \/ (i - 1 \in 1..Len(Tail(q)) /\ Tail(q)[i - 1] = q[i])
  <2>1. CASE i # 1
    <3>1. i - 1 \in 1..Len(Tail(q)) /\ (i - 1) + 1 = i  BY ONLY <1>1, <1>2, <2>1
    <3> QED BY <3>1, <1>1
  <2> QED BY <2>1
<1>7. InSeq(q) = {q[i] : i \in 1..Len(q)} /\ InSeq(Tail(q)) = {Tail(q)[i] : i \in 1..Len(Tail(q))}
  BY ONLY <1>2 DEF InSeq
<1>8. InSeq(q) \subseteq {Head(q)} \cup InSeq(Tail(q))  BY ONLY <1>3, <1>6, <1>7
<1>9. {Head(q)} \cup InSeq(Tail(q)) \subseteq InSeq(q)  BY ONLY <1>1, <1>3, <1>4, <1>5, <1>7
<1>10. InSeq(q) = {Head(q)} \cup InSeq(Tail(q))  BY ONLY <1>8, <1>9
<1> QED BY ONLY <1>1, <1>2, <1>3, <1>4, <1>5, <1>10

\* What is in a channel is what it was made of.
LEMMA Waiting ==
  ASSUME NEW S, NEW q \in Seq(S)
  PROVE  /\ Len(q) \in Nat /\ DOMAIN q = 1..Len(q)
         /\ InSeq(q) \subseteq S
         /\ \A i \in 1..Len(q) : q[i] \in S /\ q[i] \in InSeq(q)
BY LenProperties, ElementOfSeq DEF InSeq

\* The messages of the event bus are none of a client, and each command is of
\* one client.
LEMMA CommandKinds ==
  /\ \A t \in Topics, n \in 1..MaxBroadcasts :
        /\ Publish(t, n) \in Commands
        /\ Publish(t, n).typ = "broadcast" /\ Publish(t, n).message = n
        /\ Publish(t, n).topic = t
        /\ \A c \in Clients : Publish(t, n) \notin ClientCommands(c)
  /\ \A c \in Clients : \A cmd \in ClientCommands(c) :
        /\ cmd \in Commands /\ cmd.typ # "broadcast" /\ cmd.client = c /\ cmd.topic \in Topics
        /\ \A d \in Clients : cmd \in ClientCommands(d) => d = c
  /\ \A cmd \in Commands :
        \/ \E t \in Topics, n \in 1..MaxBroadcasts : cmd = Publish(t, n)
        \/ \E c \in Clients : cmd \in ClientCommands(c)
<1>1. \A t \in Topics, n \in 1..MaxBroadcasts :
        /\ Publish(t, n) \in Commands
        /\ Publish(t, n).typ = "broadcast" /\ Publish(t, n).message = n
        /\ Publish(t, n).topic = t
  <2>1. \A t \in Topics, n \in 1..MaxBroadcasts : Publish(t, n) \in Commands  BY DEF Commands
  <2> QED BY <2>1 DEF Publish
<1>2. \A c \in Clients : \A cmd \in ClientCommands(c) :
        cmd.typ # "broadcast" /\ cmd.client = c /\ cmd.topic \in Topics
  BY DEF ClientCommands, Subscribe, Unsubscribe, Topics
<1>3. \A c \in Clients : \A cmd \in ClientCommands(c) : cmd \in Commands
  BY DEF Commands
<1>4. \A cmd \in Commands :
        \/ \E t \in Topics, n \in 1..MaxBroadcasts : cmd = Publish(t, n)
        \/ \E c \in Clients : cmd \in ClientCommands(c)
  BY DEF Commands
<1>5. \A t \in Topics, n \in 1..MaxBroadcasts, c \in Clients : Publish(t, n) \notin ClientCommands(c)
  BY ONLY <1>1, <1>2
<1>6. \A c, d \in Clients : \A cmd \in ClientCommands(c) : cmd \in ClientCommands(d) => d = c
  BY ONLY <1>2
<1> QED BY ONLY <1>1, <1>2, <1>3, <1>4, <1>5, <1>6

-----------------------------------------------------------------------------
(* Types                                                                   *)

LEMMA InitType == Init => HubType
<1>1. \A S : <<>> \in Seq(S) /\ Len(<<>>) = 0  BY EmptySeq
<1> QED BY <1>1, HubAssumption DEF Init, HubType, Topics

\* A pump only adds to the channels and to its client's state.
LEMMA PumpType ==
  ASSUME HubType, NEW c \in Clients, Pumps(c)
  PROVE  HubType'
<1> USE DEF HubType, Wake, queues, hub, pumps, counts, history
<1>1. CASE Connect(c)
  <2>1. register' \in Seq(Clients) /\ Len(register') <= QueueCap
    BY <1>1, Sending, Waiting, HubAssumption DEF Connect
  <2> QED BY <1>1, <2>1 DEF Connect
<1>2. CASE BreakConn(c)  BY <1>2 DEF BreakConn
<1>3. ASSUME NEW cmd \in ClientCommands(c), Receive(c, cmd)  PROVE HubType'
  BY <1>3, CommandKinds DEF Receive
<1>4. CASE Dispatch(c)
  <2>1. pending[c] \in Commands  BY <1>4, CommandKinds DEF Dispatch
  <2>2. commands' \in Seq(Commands) /\ Len(commands') <= CommandCap
    BY <1>4, <2>1, Sending, Waiting, HubAssumption DEF Dispatch
  <2> QED BY <1>4, <2>2 DEF Dispatch
<1>5. CASE Leave(c)
  <2>1. unregister' \in Seq(Clients) /\ Len(unregister') <= QueueCap
    BY <1>5, Sending, Waiting, HubAssumption DEF Leave
  <2> QED BY <1>5, <2>1 DEF Leave
<1>6. CASE Write(c)
  <2>1. /\ Tail(send[c]) \in Seq(1..MaxBroadcasts) /\ Head(send[c]) \in 1..MaxBroadcasts
        /\ Len(Tail(send[c])) <= SendCap
    BY <1>6, Receiving, HubAssumption DEF Write
  <2>2. /\ send' = [send EXCEPT ![c] = Tail(@)]
        /\ last' \in {last, [last EXCEPT ![c] = Head(send[c])]}
        /\ writer' \in {writer, [writer EXCEPT ![c] = "done"]}
        /\ UNCHANGED <<run, queues, clients, subs, closed, conn, reader, pending, counts>>
    BY <1>6 DEF Write
  <2>3. /\ send' \in [Clients -> Seq(1..MaxBroadcasts)]
        /\ \A d \in Clients : Len(send'[d]) <= SendCap
    BY <2>1, <2>2
  <2>4. last' \in [Clients -> 0..MaxBroadcasts]
    <3>1. Head(send[c]) \in 0..MaxBroadcasts  BY <2>1, HubAssumption
    <3> QED BY <2>2, <3>1
  <2>5. writer' \in [Clients -> {"none", "writing", "done"}]  BY <2>2
  <2> QED BY <2>2, <2>3, <2>4, <2>5
<1>7. CASE StopWriting(c)  BY <1>7 DEF StopWriting
<1> QED BY <1>1, <1>2, <1>3, <1>4, <1>5, <1>6, <1>7 DEF Pumps

\* What a broadcast puts into the Send channels.
LEMMA SentTo ==
  ASSUME HubType, NEW t \in Topics, NEW n \in 1..MaxBroadcasts, NEW c \in Clients
  PROVE  /\ Sent(Publish(t, n))[c] \in {send[c], Append(send[c], n)}
         /\ Sent(Publish(t, n))[c] \in Seq(1..MaxBroadcasts)
         /\ Len(Sent(Publish(t, n))[c]) <= SendCap
<1>1. send[c] \in Seq(1..MaxBroadcasts) /\ Len(send[c]) \in Nat /\ Len(send[c]) <= SendCap
  BY Waiting DEF HubType
<1>2. /\ Append(send[c], n) \in Seq(1..MaxBroadcasts)
      /\ Len(Append(send[c], n)) = Len(send[c]) + 1
  BY ONLY <1>1, Sending
<1>3. /\ Sent(Publish(t, n))[c] \in {send[c], Append(send[c], n)}
      /\ Sent(Publish(t, n))[c] # send[c] => Len(send[c]) < SendCap
  BY DEF Sent, InOrder, Room, Publish
<1>4. SendCap \in Nat  BY HubAssumption
<1>5. CASE Sent(Publish(t, n))[c] = send[c]  BY ONLY <1>1, <1>5
<1>6. CASE Sent(Publish(t, n))[c] # send[c]
  <2>1. Sent(Publish(t, n))[c] = Append(send[c], n) /\ Len(send[c]) < SendCap
    BY ONLY <1>3, <1>6
  <2> QED BY ONLY <1>1, <1>2, <1>4, <2>1
<1> QED BY ONLY <1>5, <1>6

LEMMA RunType ==
  ASSUME HubType, RunStep
  PROVE  HubType'
<1> USE DEF HubType, Takes, queues, hub, pumps, counts, history
<1>1. CASE TakeRegister
  <2>1. register' \in Seq(Clients) /\ Len(register') <= QueueCap /\ Head(register) \in Clients
    BY <1>1, Receiving, HubAssumption DEF TakeRegister
  <2> QED BY <1>1, <2>1 DEF TakeRegister
<1>2. CASE TakeUnregister
  <2>1. unregister' \in Seq(Clients) /\ Len(unregister') <= QueueCap /\ Head(unregister) \in Clients
    BY <1>2, Receiving, HubAssumption DEF TakeUnregister
  <2>2. /\ clients' \subseteq clients
        /\ closed' \in {closed, [closed EXCEPT ![Head(unregister)] = TRUE]}
        /\ subs' \in {subs, RemovedFromTopics(Head(unregister))}
        /\ run' = "select" /\ unregister' = Tail(unregister)
        /\ UNCHANGED <<register, commands, send, pumps, counts, last>>
    BY <1>2 DEF TakeUnregister
  <2>3. closed' \in [Clients -> BOOLEAN]  BY <2>1, <2>2
  <2>4. subs' \in [Topics -> SUBSET Clients]
    <3>1. RemovedFromTopics(Head(unregister)) \in [Topics -> SUBSET Clients]  BY DEF RemovedFromTopics
    <3> QED BY <2>2, <3>1
  <2> QED BY <2>1, <2>2, <2>3, <2>4
<1>3. CASE TakeCommand
  <2>1. commands' \in Seq(Commands) /\ Len(commands') <= CommandCap /\ Head(commands) \in Commands
    BY <1>3, Receiving, HubAssumption DEF TakeCommand
  <2>2. ASSUME NEW t \in Topics, NEW n \in 1..MaxBroadcasts, Head(commands) = Publish(t, n)
        PROVE  HubType'
    <3>1. run' \in {"select", "panicked"} /\ send' \in {send, Sent(Publish(t, n))} /\ subs' = subs
      BY <1>3, <2>2, CommandKinds DEF TakeCommand, Deliver
    <3>2. /\ Sent(Publish(t, n)) \in [Clients -> Seq(1..MaxBroadcasts)]
          /\ \A c \in Clients : Len(Sent(Publish(t, n))[c]) <= SendCap
      BY SentTo DEF Sent
    <3> QED BY <1>3, <2>1, <3>1, <3>2 DEF TakeCommand
  <2>3. ASSUME NEW c \in Clients, Head(commands) \in ClientCommands(c)  PROVE HubType'
    <3>1. /\ run' = "select" /\ send' = send /\ ProcessSubscription(Head(commands))
          /\ commands' = Tail(commands)
          /\ UNCHANGED <<register, unregister, clients, closed, pumps, counts, history>>
      BY <1>3, <2>3, CommandKinds DEF TakeCommand
    <3>2. Head(commands).client \in Clients /\ Head(commands).topic \in Topics
      BY <2>3, CommandKinds
    <3>3. subs' \in [Topics -> SUBSET Clients]  BY <3>1, <3>2 DEF ProcessSubscription
    <3> QED BY <2>1, <3>1, <3>3
  <2>4. \/ \E t \in Topics, n \in 1..MaxBroadcasts : Head(commands) = Publish(t, n)
        \/ \E c \in Clients : Head(commands) \in ClientCommands(c)
    BY ONLY <2>1, CommandKinds
  <2> QED BY ONLY <2>2, <2>3, <2>4
<1>4. CASE Park  BY <1>4 DEF Park
<1> QED BY <1>1, <1>2, <1>3, <1>4 DEF RunStep

LEMMA NextType == HubType /\ [Next]_vars => HubType'
<1> SUFFICES ASSUME HubType, [Next]_vars  PROVE HubType'
  OBVIOUS
<1>1. ASSUME NEW t \in Topics, Broadcast(t)  PROVE HubType'
  <2>1. published + 1 \in 1..MaxBroadcasts  BY <1>1, HubAssumption DEF Broadcast, HubType
  <2>2. Publish(t, published + 1) \in Commands  BY <2>1, CommandKinds
  <2>3. commands' \in Seq(Commands) /\ Len(commands') <= CommandCap
    BY <1>1, <2>2, Sending, Waiting, HubAssumption DEF Broadcast, HubType
  <2> QED BY <1>1, <2>1, <2>3 DEF Broadcast, HubType, Wake, queues, hub, pumps, counts, history
<1>2. CASE Stop  BY <1>2 DEF Stop, HubType, queues, hub, pumps, counts, history
<1>3. CASE UNCHANGED vars  BY <1>3 DEF vars, HubType, queues, hub, pumps, counts, history
<1> QED BY <1>1, <1>2, <1>3, PumpType, RunType DEF Next

-----------------------------------------------------------------------------
(* Who is connected                                                        *)

LEMMA InitMembers == Init => MembersInv
<1>1. InSeq(<<>>) = {} /\ Len(<<>>) = 0  BY EmptySeq DEF InSeq
<1> QED BY <1>1 DEF Init, MembersInv

\* Steps that leave the hub's maps, and the channels to and from which clients
\* go, alone.
LEMMA MembersKept ==
  ASSUME MembersInv, UNCHANGED <<register, unregister, clients, closed, reader>>,
         \A c \in Clients : /\ conn'[c] = "new" <=> conn[c] = "new"
                            /\ writer[c] = "none" => writer'[c] = "none"
  PROVE  MembersInv'
BY DEF MembersInv

LEMMA ConnectMembers ==
  ASSUME HubType, MembersInv, NEW c \in Clients, Connect(c)
  PROVE  MembersInv'
<1>1. /\ InSeq(register') = InSeq(register) \cup {c}
      /\ Len(register') = Len(register) + 1 /\ Len(register) \in Nat
      /\ \A i \in 1..Len(register) : register'[i] = register[i] /\ register[i] \in InSeq(register)
      /\ register'[Len(register) + 1] = c
  BY Sending, Waiting DEF HubType, Connect
<1>2. /\ c \notin InSeq(register) /\ c \notin InSeq(unregister) /\ c \notin clients /\ ~closed[c]
  BY DEF MembersInv, Connect
<1>3. /\ UNCHANGED <<unregister, clients, closed>>
      /\ conn' = [conn EXCEPT ![c] = "open"] /\ reader' = [reader EXCEPT ![c] = "reading"]
      /\ writer' = [writer EXCEPT ![c] = "writing"]
  BY DEF Connect, hub
<1>4. ASSUME NEW i \in 1..Len(register'), NEW j \in 1..Len(register'), register'[i] = register'[j]
      PROVE  i = j
  <2>1. i \in 1..Len(register) \/ i = Len(register) + 1  BY ONLY <1>1
  <2>2. j \in 1..Len(register) \/ j = Len(register) + 1  BY ONLY <1>1
  <2>3. \A k, l \in 1..Len(register) : register[k] = register[l] => k = l  BY DEF MembersInv
  <2> QED BY ONLY <1>1, <1>2, <1>4, <2>1, <2>2, <2>3
<1>5. ASSUME NEW d \in Clients
      PROVE  /\ reader'[d] = "none" => /\ d \notin InSeq(register') /\ d \notin InSeq(unregister')
                                       /\ d \notin clients' /\ ~closed'[d]
             /\ conn'[d] = "new" <=> reader'[d] = "none"
             /\ conn'[d] = "new" => writer'[d] = "none"
             /\ d \in InSeq(register') => d \notin clients' /\ ~closed'[d]
             /\ d \in InSeq(unregister') => reader'[d] = "done"
             /\ closed'[d] => reader'[d] = "done" /\ d \notin clients'
  BY <1>1, <1>2, <1>3 DEF MembersInv, HubType
<1> QED BY ONLY <1>4, <1>5 DEF MembersInv

LEMMA LeaveMembers ==
  ASSUME HubType, MembersInv, NEW c \in Clients, Leave(c)
  PROVE  MembersInv'
<1>1. InSeq(unregister') = InSeq(unregister) \cup {c}
  BY Sending DEF HubType, Leave
<1>2. /\ UNCHANGED <<register, clients, closed, conn, writer>>
      /\ reader' = [reader EXCEPT ![c] = "done"] /\ conn[c] = "closed"
  BY DEF Leave, hub
<1> QED BY <1>1, <1>2 DEF MembersInv, HubType

\* Who was waiting in the register channel is in it no more.
LEMMA RegisterMembers ==
  ASSUME HubType, MembersInv, TakeRegister
  PROVE  MembersInv'
<1> DEFINE c == Head(register)
<1>1. /\ InSeq(register) = {c} \cup InSeq(register') /\ c = register[1] /\ c \in Clients
      /\ 1 \in 1..Len(register) /\ Len(register') \in Nat
      /\ \A i \in 1..Len(register') : i + 1 \in 1..Len(register) /\ register'[i] = register[i + 1]
  BY Receiving DEF HubType, TakeRegister, Takes
<1>2. /\ UNCHANGED <<unregister, closed, conn, reader, writer>> /\ clients' = clients \cup {c}
  BY DEF TakeRegister, pumps
<1>3. register' \in Seq(Clients)
  BY Receiving DEF HubType, TakeRegister, Takes
<1> HIDE DEF c
<1>4. \A i, j \in 1..Len(register) : register[i] = register[j] => i = j  BY DEF MembersInv
<1>5. ASSUME NEW i \in 1..Len(register'), NEW j \in 1..Len(register'), register'[i] = register'[j]
      PROVE  i = j
  <2>1. register[i + 1] = register[j + 1] /\ i + 1 \in 1..Len(register) /\ j + 1 \in 1..Len(register)
    BY ONLY <1>1, <1>5
  <2>2. i + 1 = j + 1  BY ONLY <1>4, <2>1
  <2> QED BY ONLY <1>1, <2>2
<1>6. c \notin InSeq(register')
  <2>1. SUFFICES ASSUME NEW i \in 1..Len(register'), register'[i] = c  PROVE FALSE
    BY <1>3, Waiting DEF InSeq
  <2>2. register[i + 1] = register[1] /\ i + 1 \in 1..Len(register)  BY ONLY <1>1, <2>1
  <2>3. i + 1 = 1  BY ONLY <1>1, <1>4, <2>2
  <2> QED BY ONLY <1>1, <2>3
<1>7. c \in InSeq(register)  BY ONLY <1>1
<1> QED BY <1>1, <1>2, <1>5, <1>6, <1>7 DEF MembersInv

LEMMA UnregisterMembers ==
  ASSUME HubType, MembersInv, TakeUnregister
  PROVE  MembersInv'
<1> DEFINE c == Head(unregister)
<1>1. InSeq(unregister) = {c} \cup InSeq(unregister')
  BY Receiving DEF HubType, TakeUnregister, Takes
<1>2. /\ UNCHANGED <<register, conn, reader, writer>>
      /\ \/ clients' = clients /\ closed' = closed
         \/ c \in clients /\ clients' = clients \ {c} /\ closed' = [closed EXCEPT ![c] = TRUE]
  BY DEF TakeUnregister, pumps
<1> HIDE DEF c
<1> QED BY <1>1, <1>2 DEF MembersInv, HubType

LEMMA NextMembers == HubType /\ MembersInv /\ [Next]_vars => MembersInv'
<1> SUFFICES ASSUME HubType, MembersInv, [Next]_vars  PROVE MembersInv'
  OBVIOUS
<1>1. ASSUME NEW c \in Clients, Pumps(c)  PROVE MembersInv'
  <2>1. CASE BreakConn(c)
    BY <2>1, MembersKept DEF BreakConn, queues, hub, HubType
  <2>2. ASSUME NEW cmd \in ClientCommands(c), Receive(c, cmd)  PROVE MembersInv'
    BY <2>2, MembersKept DEF Receive, queues, hub
  <2>3. CASE Dispatch(c)  BY <2>3, MembersKept DEF Dispatch, hub
  <2>4. CASE Write(c)
    BY <2>4, MembersKept DEF Write, queues, HubType
  <2>5. CASE StopWriting(c)
    <3>1. conn[c] # "new"  BY <2>5 DEF StopWriting, MembersInv
    <3> QED BY <2>5, <3>1, MembersKept DEF StopWriting, queues, hub, HubType
  <2> QED BY <1>1, <2>1, <2>2, <2>3, <2>4, <2>5, ConnectMembers, LeaveMembers DEF Pumps
<1>2. ASSUME NEW t \in Topics, Broadcast(t)  PROVE MembersInv'
  BY <1>2, MembersKept DEF Broadcast, hub, pumps
<1>3. CASE TakeCommand  BY <1>3, MembersKept DEF TakeCommand, pumps
<1>4. CASE Park \/ Stop \/ UNCHANGED vars
  BY <1>4, MembersKept DEF Park, Stop, vars, queues, hub, pumps
<1> QED BY <1>1, <1>2, <1>3, <1>4, RegisterMembers, UnregisterMembers DEF Next, RunStep

-----------------------------------------------------------------------------
(* Late commands                                                           *)

LEMMA InitLate == Init => LateInv
<1>1. InSeq(<<>>) = {}  BY EmptySeq DEF InSeq
<1> QED BY <1>1 DEF Init, LateInv, OnlyLateCommandsPanic

\* Steps that bring no command of a removed client.
LEMMA LateKept ==
  ASSUME LateInv, UNCHANGED <<subs, closed, late>>,
         run' = "panicked" => run = "panicked",
         \A c \in Clients :
           /\ reader'[c] # "reading" => pending'[c] = NoCommand
           /\ closed[c] => InSeq(commands') \cap ClientCommands(c)
                             \subseteq InSeq(commands) \cap ClientCommands(c)
  PROVE  LateInv'
<1>1. ASSUME NEW c \in Clients
      PROVE  /\ reader'[c] # "reading" => pending'[c] = NoCommand
             /\ closed'[c] /\ c \notin late' => InSeq(commands') \cap ClientCommands(c) = {}
  BY DEF LateInv
<1>2. OnlyLateCommandsPanic'  BY DEF LateInv, OnlyLateCommandsPanic
<1> QED BY ONLY <1>1, <1>2 DEF LateInv

LEMMA PumpLate ==
  ASSUME HubType, MembersInv, LateInv, NEW c \in Clients, Pumps(c)
  PROVE  LateInv'
<1>1. run' = "panicked" => run = "panicked"
  BY DEF Pumps, Connect, BreakConn, Receive, Dispatch, Leave, Write, StopWriting, Wake
<1>2. UNCHANGED <<subs, closed, late>>
  BY DEF Pumps, Connect, BreakConn, Receive, Dispatch, Leave, Write, StopWriting, hub, history
<1>3. \A d \in Clients : reader'[d] # "reading" => pending'[d] = NoCommand
  <2>1. \A d \in Clients : reader[d] # "reading" => pending[d] = NoCommand  BY DEF LateInv
  <2> USE <2>1 DEF HubType
  <2>2. CASE Connect(c)  BY <2>2 DEF Connect
  <2>3. CASE BreakConn(c)  BY <2>3 DEF BreakConn
  <2>4. ASSUME NEW cmd \in ClientCommands(c), Receive(c, cmd)
        PROVE  \A d \in Clients : reader'[d] # "reading" => pending'[d] = NoCommand
    BY <2>4 DEF Receive
  <2>5. CASE Dispatch(c)  BY <2>5 DEF Dispatch
  <2>6. CASE Leave(c)  BY <2>6 DEF Leave
  <2>7. CASE Write(c)  BY <2>7 DEF Write
  <2>8. CASE StopWriting(c)  BY <2>8 DEF StopWriting
  <2> QED BY ONLY Pumps(c), <2>2, <2>3, <2>4, <2>5, <2>6, <2>7, <2>8 DEF Pumps
<1>4. ASSUME NEW d \in Clients, closed[d]
      PROVE  InSeq(commands') \cap ClientCommands(d) \subseteq InSeq(commands) \cap ClientCommands(d)
  <2>1. CASE commands' = commands  BY <2>1
  <2>2. CASE Dispatch(c)
    <3>1. pending[c] # NoCommand /\ commands' = Append(commands, pending[c])  BY <2>2 DEF Dispatch
    <3>2. pending[c] \in ClientCommands(c) /\ pending[c] \in Commands
      BY <3>1, CommandKinds DEF HubType
    <3>3. d # c  BY <1>4, <3>1 DEF LateInv, MembersInv
    <3>4. pending[c] \notin ClientCommands(d)  BY ONLY <3>2, <3>3, CommandKinds
    <3>5. InSeq(commands') = InSeq(commands) \cup {pending[c]}  BY <3>1, <3>2, Sending DEF HubType
    <3> QED BY ONLY <3>4, <3>5
  <2>3. CASE ~Dispatch(c)
    <3>1. commands' = commands
      BY <2>3 DEF Pumps, Connect, BreakConn, Receive, Leave, Write, StopWriting, queues
    <3> QED BY <3>1
  <2> QED BY <2>2, <2>3
<1> QED BY <1>1, <1>2, <1>3, <1>4, LateKept

\* A removal notes the commands that come too late, and leaves the client in
\* no topic.
LEMMA UnregisterLate ==
  ASSUME HubType, MembersInv, LateInv, TakeUnregister
  PROVE  LateInv'
<1> DEFINE c == Head(unregister)
<1>1. run' = "select" /\ UNCHANGED <<reader, pending, commands>>
  BY DEF TakeUnregister, Takes, pumps
<1>2. CASE c \notin clients
  <2>1. UNCHANGED <<closed, subs, late>>  BY <1>2 DEF TakeUnregister
  <2> QED BY <1>1, <2>1, LateKept DEF LateInv
<1>3. CASE c \in clients
  <2>1. /\ c \in Clients /\ c \in InSeq(unregister)
    BY Receiving DEF HubType, TakeUnregister, Takes
  <2>2. /\ closed' = [closed EXCEPT ![c] = TRUE] /\ subs' = RemovedFromTopics(c)
        /\ late' = IF CommandsOf(c) = {} THEN late ELSE late \cup {c}
    BY <1>3 DEF TakeUnregister
  <2> HIDE DEF c
  <2>3. c \notin late' => InSeq(commands) \cap ClientCommands(c) = {}
    BY <2>2 DEF CommandsOf, InSeq
  <2>4. ASSUME NEW d \in Clients
        PROVE  /\ reader'[d] # "reading" => pending'[d] = NoCommand
               /\ closed'[d] /\ d \notin late' => InSeq(commands') \cap ClientCommands(d) = {}
    <3>1. CASE d = c
      BY <1>1, <2>3, <3>1 DEF LateInv
    <3>2. CASE d # c
      <4>1. closed'[d] = closed[d] /\ (d \in late => d \in late')  BY <2>2, <3>2 DEF HubType
      <4> QED BY <1>1, <4>1 DEF LateInv
    <3> QED BY <3>1, <3>2
  <2>5. ASSUME NEW t \in Topics, NEW d \in subs'[t], closed'[d]
        PROVE  d \in late'
    <3>1. d # c /\ d \in subs[t] /\ d \in Clients  BY <2>2, <2>5 DEF RemovedFromTopics, HubType
    <3>2. closed[d]  BY <2>2, <2>5, <3>1 DEF HubType
    <3> QED BY <2>2, <3>1, <3>2 DEF LateInv, OnlyLateCommandsPanic
  <2>6. run' # "panicked"  BY <1>1
  <2> QED BY ONLY <2>4, <2>5, <2>6 DEF LateInv, OnlyLateCommandsPanic
<1> QED BY <1>2, <1>3

\* The hub panics, or a removed client is a subscriber, after a late command.
LEMMA CommandLate ==
  ASSUME HubType, LateInv, TakeCommand
  PROVE  LateInv'
<1> DEFINE cmd == Head(commands)
<1>1. /\ InSeq(commands) = {cmd} \cup InSeq(commands') /\ cmd \in Commands
  BY Receiving DEF HubType, TakeCommand
<1>2. UNCHANGED <<reader, pending, closed, late>>
  BY DEF TakeCommand, pumps, history
<1>3. ASSUME NEW c \in Clients
      PROVE  /\ reader'[c] # "reading" => pending'[c] = NoCommand
             /\ closed'[c] /\ c \notin late' => InSeq(commands') \cap ClientCommands(c) = {}
  BY <1>1, <1>2 DEF LateInv
<1>4. ASSUME NEW t \in Topics, NEW n \in 1..MaxBroadcasts, cmd = Publish(t, n)
      PROVE  OnlyLateCommandsPanic'
  <2>1. subs' = subs /\ Deliver(cmd) /\ cmd.topic = t
    BY <1>4, CommandKinds DEF TakeCommand
  <2>2. run' = "panicked" => \E c \in subs[t] : closed[c]
    BY ONLY <2>1 DEF Deliver
  <2> QED BY <1>2, <2>1, <2>2 DEF LateInv, OnlyLateCommandsPanic
<1>5. ASSUME NEW c \in Clients, cmd \in ClientCommands(c)
      PROVE  OnlyLateCommandsPanic'
  <2>1. run' = "select" /\ ProcessSubscription(cmd) /\ cmd.client = c /\ cmd.topic \in Topics
    BY <1>5, CommandKinds DEF TakeCommand
  <2>2. closed[c] => c \in late  BY <1>1, <1>5 DEF LateInv
  <2>3. ASSUME NEW t \in Topics, NEW d \in subs'[t]
        PROVE  d \in subs[t] \/ d = c
    BY ONLY <2>1, <2>3, HubType DEF ProcessSubscription, HubType
  <2> QED BY <1>2, <2>1, <2>2, <2>3 DEF LateInv, OnlyLateCommandsPanic
<1>6. OnlyLateCommandsPanic'
  <2>1. \/ \E t \in Topics, n \in 1..MaxBroadcasts : cmd = Publish(t, n)
        \/ \E c \in Clients : cmd \in ClientCommands(c)
    BY ONLY <1>1, CommandKinds
  <2> QED BY ONLY <1>4, <1>5, <2>1
<1> QED BY ONLY <1>3, <1>6 DEF LateInv

LEMMA NextLate == HubType /\ MembersInv /\ LateInv /\ [Next]_vars => LateInv'
<1> SUFFICES ASSUME HubType, MembersInv, LateInv, [Next]_vars  PROVE LateInv'
  OBVIOUS
<1>1. ASSUME NEW t \in Topics, Broadcast(t)  PROVE LateInv'
  <2>1. published + 1 \in 1..MaxBroadcasts  BY <1>1, HubAssumption DEF Broadcast, HubType
  <2>2. /\ Publish(t, published + 1) \in Commands
        /\ \A c \in Clients : Publish(t, published + 1) \notin ClientCommands(c)
    BY ONLY <2>1, CommandKinds, <1>1
  <2>3. InSeq(commands') = InSeq(commands) \cup {Publish(t, published + 1)}
    BY <1>1, <2>2, Sending DEF Broadcast, HubType
  <2>4. UNCHANGED <<subs, closed, late, reader, pending>> /\ run' # "panicked"
    BY <1>1 DEF Broadcast, Up, Wake, hub, pumps, history
  <2> QED BY <2>2, <2>3, <2>4, LateKept DEF LateInv
<1>2. CASE TakeRegister
  BY <1>2, LateKept DEF TakeRegister, Takes, pumps, history, LateInv
<1>3. CASE Park \/ Stop \/ UNCHANGED vars
  BY <1>3, LateKept DEF Park, Stop, vars, queues, hub, pumps, history, LateInv
<1> QED BY <1>1, <1>2, <1>3, PumpLate, UnregisterLate, CommandLate DEF Next, RunStep

-----------------------------------------------------------------------------
(* Those who left                                                          *)

LEMMA NextGone == HubType /\ MembersInv /\ GoneIsRemoved /\ [Next]_vars => GoneIsRemoved'
<1> SUFFICES ASSUME HubType, MembersInv, GoneIsRemoved, [Next]_vars,
                    NEW d \in Clients, reader'[d] = "done", d \notin early'
             PROVE  d \in InSeq(unregister') \/ (closed'[d] /\ d \notin clients')
  BY DEF GoneIsRemoved
<1>1. CASE UNCHANGED <<unregister, closed, clients, early>> /\ reader'[d] = reader[d]
  BY <1>1 DEF GoneIsRemoved
<1>2. ASSUME NEW c \in Clients, Connect(c)
      PROVE  d \in InSeq(unregister') \/ (closed'[d] /\ d \notin clients')
  BY <1>1, <1>2 DEF Connect, hub, history, HubType
<1>3. ASSUME NEW c \in Clients, Leave(c)
      PROVE  d \in InSeq(unregister') \/ (closed'[d] /\ d \notin clients')
  <2>1. InSeq(unregister') = InSeq(unregister) \cup {c}
    BY <1>3, Sending DEF HubType, Leave
  <2>2. d # c => reader'[d] = reader[d]  BY <1>3 DEF HubType, Leave
  <2> QED BY <1>3, <2>1, <2>2 DEF Leave, hub, history, GoneIsRemoved
<1>4. ASSUME NEW c \in Clients, Pumps(c), ~Connect(c), ~Leave(c)
      PROVE  d \in InSeq(unregister') \/ (closed'[d] /\ d \notin clients')
  BY <1>1, <1>4 DEF Pumps, BreakConn, Receive, Dispatch, Write, StopWriting, queues, hub, history
<1>5. CASE TakeRegister
  <2>1. Head(register) \in InSeq(register)
    BY <1>5, Receiving DEF HubType, TakeRegister, Takes
  <2>2. ~closed[Head(register)] /\ clients' = clients \cup {Head(register)}
    BY <1>5, <2>1, Waiting DEF HubType, MembersInv, TakeRegister
  <2> QED BY <1>5, <2>2 DEF GoneIsRemoved, TakeRegister, pumps, history
<1>6. CASE TakeUnregister
  <2> DEFINE c == Head(unregister)
  <2>1. InSeq(unregister) = {c} \cup InSeq(unregister') /\ c \in Clients
    BY <1>6, Receiving DEF HubType, TakeUnregister, Takes
  <2>2. reader' = reader /\ early \subseteq early'  BY <1>6 DEF TakeUnregister, pumps
  <2>3. \/ c \in early' /\ UNCHANGED <<clients, closed>>
        \/ clients' = clients \ {c} /\ closed' = [closed EXCEPT ![c] = TRUE]
    BY <1>6 DEF TakeUnregister
  <2> HIDE DEF c
  <2> QED BY <2>1, <2>2, <2>3 DEF GoneIsRemoved, HubType
<1>7. CASE TakeCommand  BY <1>1, <1>7 DEF TakeCommand, pumps, history
<1>8. CASE Park \/ Stop \/ UNCHANGED vars
  BY <1>1, <1>8 DEF Park, Stop, vars, queues, hub, pumps, history
<1>9. ASSUME NEW t \in Topics, Broadcast(t)
      PROVE  d \in InSeq(unregister') \/ (closed'[d] /\ d \notin clients')
  BY <1>1, <1>9 DEF Broadcast, hub, pumps, history
<1> QED BY <1>2, <1>3, <1>4, <1>5, <1>6, <1>7, <1>8, <1>9 DEF Next, RunStep

-----------------------------------------------------------------------------
(* Feeds                                                                   *)

LEMMA InitFeed == Init => FeedInv
<1>1. Len(<<>>) = 0  BY EmptySeq
<1> QED BY <1>1 DEF Init, FeedInv, FeedOK, Ascending

\* A command that enters the channel behind the others.
LEMMA AscendingAppend ==
  ASSUME NEW q \in Seq(Commands), NEW cmd \in Commands, Ascending(q),
         IsPublished(cmd) => \A i \in 1..Len(q) : IsPublished(q[i]) => q[i].message < cmd.message
  PROVE  Ascending(Append(q, cmd))
<1> DEFINE r == Append(q, cmd)
<1>1. /\ Len(r) = Len(q) + 1 /\ Len(q) \in Nat
      /\ \A i \in 1..Len(q) : r[i] = q[i]
      /\ r[Len(q) + 1] = cmd
  BY Sending, Waiting
<1> HIDE DEF r
<1>2. ASSUME NEW i \in 1..Len(r), NEW j \in 1..Len(r), i < j, IsPublished(r[i]), IsPublished(r[j])
      PROVE  r[i].message < r[j].message
  <2>1. i \in 1..Len(q) /\ (j \in 1..Len(q) \/ j = Len(q) + 1)  BY ONLY <1>1, <1>2
  <2>2. r[i] = q[i]  BY ONLY <1>1, <2>1
  <2>3. CASE j \in 1..Len(q)
    <3>1. r[j] = q[j]  BY ONLY <1>1, <2>3
    <3> QED BY ONLY <1>2, <2>1, <2>2, <2>3, <3>1, Ascending(q) DEF Ascending
  <2>4. CASE j = Len(q) + 1
    <3>1. r[j] = cmd  BY ONLY <1>1, <2>4
    <3> QED BY <1>2, <2>1, <2>2, <3>1
  <2> QED BY ONLY <2>1, <2>3, <2>4
<1>3. Ascending(r)  BY ONLY <1>2 DEF Ascending
<1> QED BY ONLY <1>3 DEF r

\* A client's command comes into the channel.
LEMMA DispatchFeed ==
  ASSUME HubType, FeedInv, UNCHANGED <<send, last, published>>,
         NEW cmd \in Commands, ~IsPublished(cmd), commands' = Append(commands, cmd)
  PROVE  FeedInv'
<1>1. Ascending(commands')  BY AscendingAppend DEF HubType, FeedInv
<1>2. /\ Len(commands') = Len(commands) + 1 /\ Len(commands) \in Nat
      /\ \A i \in 1..Len(commands) : commands'[i] = commands[i]
      /\ commands'[Len(commands) + 1] = cmd
  BY Sending, Waiting DEF HubType
<1>3. ASSUME NEW i \in 1..Len(commands')
      PROVE  Behind(commands'[i], last, send, published)
  <2>1. i \in 1..Len(commands) \/ i = Len(commands) + 1  BY ONLY <1>2
  <2>2. CASE i \in 1..Len(commands)  BY <1>2, <2>2 DEF FeedInv
  <2>3. CASE i = Len(commands) + 1  BY <1>2, <2>3 DEF Behind
  <2> QED BY ONLY <2>1, <2>2, <2>3
<1> QED BY <1>1, <1>3 DEF FeedInv

\* A message is newer than all that were published before.
LEMMA BroadcastFeed ==
  ASSUME HubType, FeedInv, NEW t \in Topics, Broadcast(t)
  PROVE  FeedInv'
<1> DEFINE n == published + 1
           cmd == Publish(t, n)
<1>1. n \in 1..MaxBroadcasts /\ published \in Nat /\ n = published + 1
  BY HubAssumption DEF Broadcast, HubType
<1>2. /\ published' = n /\ commands' = Append(commands, cmd) /\ UNCHANGED <<send, last>>
  BY DEF Broadcast, hub, history
<1>3. cmd \in Commands /\ cmd.message = n /\ IsPublished(cmd)
  BY <1>1, CommandKinds DEF IsPublished
<1> HIDE DEF n, cmd
<1>4. ASSUME NEW c \in Clients
      PROVE  /\ last[c] \in Nat /\ send[c] \in Seq(Nat) /\ Len(send[c]) \in Nat
             /\ \A i \in 1..Len(send[c]) : send[c][i] \in Nat
  <2>1. last[c] \in Nat /\ send[c] \in Seq(1..MaxBroadcasts)  BY HubAssumption DEF HubType
  <2>2. /\ \A i \in 1..Len(send[c]) : send[c][i] \in 1..MaxBroadcasts
        /\ Len(send[c]) \in Nat
    BY ONLY <2>1, Waiting
  <2>3. send[c] \in Seq(Nat)
    <3>1. 1..MaxBroadcasts \subseteq Nat  OBVIOUS
    <3> QED BY <2>1, <3>1, SeqMonotonic
  <2> QED BY ONLY <2>1, <2>2, <2>3
<1>5. ASSUME NEW c \in Clients
      PROVE  FeedOK(last[c], send[c], n) /\ Newer(n, last[c], send[c])
  <2>1. FeedOK(last[c], send[c], published)  BY DEF FeedInv
  <2> QED BY ONLY <1>1, <1>4, <2>1 DEF FeedOK, Newer
<1>6. /\ Len(commands') = Len(commands) + 1 /\ Len(commands) \in Nat
      /\ \A i \in 1..Len(commands) : commands'[i] = commands[i] /\ commands[i] \in Commands
      /\ commands'[Len(commands) + 1] = cmd
  BY <1>2, <1>3, Sending, Waiting DEF HubType
<1>7. ASSUME NEW i \in 1..Len(commands), IsPublished(commands[i])
      PROVE  commands[i].message \in Nat /\ commands[i].message <= published
  <2>1. \E s \in Topics, k \in 1..MaxBroadcasts : commands[i] = Publish(s, k)
    BY ONLY <1>6, <1>7, CommandKinds DEF IsPublished
  <2>2. commands[i].message \in Nat  BY <2>1, CommandKinds
  <2>3. commands[i].message <= published  BY <1>7 DEF FeedInv, Behind
  <2> QED BY ONLY <2>2, <2>3
<1>8. Ascending(commands')
  <2>1. \A i \in 1..Len(commands) : IsPublished(commands[i]) => commands[i].message < cmd.message
    BY ONLY <1>1, <1>3, <1>7
  <2> QED BY <1>2, <1>3, <2>1, AscendingAppend DEF HubType, FeedInv
<1>9. ASSUME NEW i \in 1..Len(commands')
      PROVE  Behind(commands'[i], last, send, n)
  <2>1. i \in 1..Len(commands) \/ i = Len(commands) + 1  BY ONLY <1>6
  <2>2. CASE i \in 1..Len(commands)
    <3>1. commands'[i] = commands[i] /\ Behind(commands[i], last, send, published)
      BY <1>6, <2>2 DEF FeedInv
    <3>2. IsPublished(commands[i]) => commands[i].message <= n  BY ONLY <1>1, <1>7, <2>2
    <3> QED BY ONLY <3>1, <3>2 DEF Behind
  <2>3. CASE i = Len(commands) + 1
    <3>1. commands'[i] = cmd  BY ONLY <1>6, <2>3
    <3>2. n <= n  BY ONLY <1>1
    <3> QED BY ONLY <1>3, <1>5, <3>1, <3>2 DEF Behind
  <2> QED BY ONLY <2>1, <2>2, <2>3
<1> QED BY <1>2, <1>5, <1>8, <1>9 DEF FeedInv

\* A newer message at the end of a feed keeps it in order.
LEMMA FeedAppend ==
  ASSUME NEW l \in Nat, NEW q \in Seq(Nat), NEW p \in Nat, NEW n \in Nat,
         FeedOK(l, q, p), Newer(n, l, q), n <= p
  PROVE  /\ FeedOK(l, Append(q, n), p)
         /\ \A m \in Nat : n < m /\ Newer(m, l, q) => Newer(m, l, Append(q, n))
<1> DEFINE r == Append(q, n)
<1>1. /\ Len(r) = Len(q) + 1 /\ Len(q) \in Nat
      /\ \A i \in 1..Len(q) : r[i] = q[i] /\ q[i] \in Nat
      /\ r[Len(q) + 1] = n
  BY Sending, Waiting
<1> HIDE DEF r
<1>2. \A i \in 1..Len(r) : i \in 1..Len(q) \/ (i = Len(q) + 1 /\ r[i] = n)
  BY ONLY <1>1
<1>3. ASSUME NEW i \in 1..Len(r)  PROVE l < r[i] /\ r[i] <= p
  <2>1. CASE i \in 1..Len(q)
    <3>1. r[i] = q[i]  BY ONLY <1>1, <2>1
    <3> QED BY ONLY <2>1, <3>1, FeedOK(l, q, p) DEF FeedOK
  <2>2. CASE r[i] = n  BY ONLY <2>2, Newer(n, l, q), n <= p DEF Newer
  <2> QED BY ONLY <1>2, <2>1, <2>2
<1>4. ASSUME NEW i \in 1..Len(r), NEW j \in 1..Len(r), i < j  PROVE r[i] < r[j]
  <2>1. i \in 1..Len(q) /\ r[i] = q[i]  BY ONLY <1>1, <1>4
  <2>2. CASE j \in 1..Len(q)
    <3>1. r[j] = q[j]  BY ONLY <1>1, <2>2
    <3> QED BY ONLY <1>4, <2>1, <2>2, <3>1, FeedOK(l, q, p) DEF FeedOK
  <2>3. CASE r[j] = n  BY ONLY <2>1, <2>3, Newer(n, l, q) DEF Newer
  <2> QED BY ONLY <1>2, <2>2, <2>3
<1>5. FeedOK(l, r, p)  BY ONLY <1>3, <1>4, FeedOK(l, q, p) DEF FeedOK
<1>6. ASSUME NEW m \in Nat, n < m, Newer(m, l, q)
      PROVE  Newer(m, l, r)
  <2>1. ASSUME NEW k \in 1..Len(r)  PROVE r[k] < m
    <3>1. CASE k \in 1..Len(q)
      <4>1. r[k] = q[k]  BY ONLY <1>1, <3>1
      <4> QED BY ONLY <1>6, <3>1, <4>1 DEF Newer
    <3>2. CASE r[k] = n  BY ONLY <1>6, <3>2
    <3> QED BY ONLY <1>2, <3>1, <3>2
  <2> QED BY ONLY <1>6, <2>1 DEF Newer
<1> QED BY ONLY <1>5, <1>6 DEF r

\* The numbers are numbers.
LEMMA FeedNumbers ==
  ASSUME HubType
  PROVE  /\ \A c \in Clients : last[c] \in Nat /\ send[c] \in Seq(Nat)
         /\ published \in Nat
         /\ \A i \in 1..Len(commands) : IsPublished(commands[i]) =>
              \E t \in Topics, n \in 1..MaxBroadcasts : commands[i] = Publish(t, n)
<1>1. 1..MaxBroadcasts \subseteq Nat /\ 0..MaxBroadcasts \subseteq Nat  OBVIOUS
<1>2. \A c \in Clients : last[c] \in Nat /\ send[c] \in Seq(Nat)
  <2>1. \A c \in Clients : last[c] \in 0..MaxBroadcasts /\ send[c] \in Seq(1..MaxBroadcasts)
    BY DEF HubType
  <2> QED BY <1>1, <2>1, SeqMonotonic
<1>3. published \in Nat  BY <1>1 DEF HubType
<1>4. \A i \in 1..Len(commands) : commands[i] \in Commands  BY Waiting DEF HubType
<1> QED BY ONLY <1>2, <1>3, <1>4, CommandKinds DEF IsPublished

\* What is left in the commands channel when its first command is taken.
LEMMA TakenFeed ==
  ASSUME HubType, FeedInv, commands # <<>>
  PROVE  /\ Ascending(Tail(commands))
         /\ \A i \in 1..Len(Tail(commands)) :
              /\ Behind(Tail(commands)[i], last, send, published)
              /\ IsPublished(Head(commands)) /\ IsPublished(Tail(commands)[i])
                   => Head(commands).message < Tail(commands)[i].message
         /\ Behind(Head(commands), last, send, published)
<1> DEFINE q == Tail(commands)
<1>1. /\ Len(commands) \in Nat /\ Len(q) \in Nat
      /\ \A i \in 1..Len(q) : i + 1 \in 1..Len(commands) /\ q[i] = commands[i + 1]
      /\ 1 \in 1..Len(commands) /\ Head(commands) = commands[1]
  BY Receiving DEF HubType
<1> HIDE DEF q
<1>2. \A i \in 1..Len(commands) : Behind(commands[i], last, send, published)  BY DEF FeedInv
<1>3. ASSUME NEW i \in 1..Len(q), NEW j \in 1..Len(q), i < j, IsPublished(q[i]), IsPublished(q[j])
      PROVE  q[i].message < q[j].message
  <2>1. /\ i + 1 \in 1..Len(commands) /\ q[i] = commands[i + 1]
        /\ j + 1 \in 1..Len(commands) /\ q[j] = commands[j + 1] /\ i + 1 < j + 1
    BY ONLY <1>1, <1>3
  <2>2. Ascending(commands)  BY DEF FeedInv
  <2> QED BY ONLY <1>3, <2>1, <2>2 DEF Ascending
<1>4. ASSUME NEW i \in 1..Len(q), IsPublished(Head(commands)), IsPublished(q[i])
      PROVE  Head(commands).message < q[i].message
  <2>1. /\ i + 1 \in 1..Len(commands) /\ q[i] = commands[i + 1] /\ 1 < i + 1
    BY ONLY <1>1, <1>4
  <2>2. Ascending(commands)  BY DEF FeedInv
  <2> QED BY ONLY <1>1, <1>4, <2>1, <2>2 DEF Ascending
<1>5. Ascending(q)  BY ONLY <1>3 DEF Ascending
<1> QED BY ONLY <1>1, <1>2, <1>4, <1>5 DEF q

\* A message is sent: it is newer than what was sent, and older than the rest.
LEMMA CommandFeed ==
  ASSUME HubType, FeedInv, TakeCommand
  PROVE  FeedInv'
<1>1. commands # <<>> /\ commands' = Tail(commands) /\ UNCHANGED <<last, published>>
  BY DEF TakeCommand, counts, history
<1>2. CASE send' = send
  BY <1>1, <1>2, TakenFeed DEF FeedInv
<1>3. ASSUME NEW t \in Topics, NEW n \in 1..MaxBroadcasts, Head(commands) = Publish(t, n),
             send' = Sent(Publish(t, n))
      PROVE  FeedInv'
  <2>1. IsPublished(Head(commands)) /\ Head(commands).message = n /\ n \in Nat
    BY <1>3, CommandKinds DEF IsPublished
  <2>2. n <= published /\ \A c \in Clients : Newer(n, last[c], send[c])
    BY <1>1, <2>1, TakenFeed DEF Behind
  <2>3. ASSUME NEW c \in Clients
        PROVE  /\ FeedOK(last[c], send'[c], published)
               /\ \A m \in Nat : n < m /\ Newer(m, last[c], send[c]) => Newer(m, last[c], send'[c])
    <3>1. send'[c] \in {send[c], Append(send[c], n)}  BY <1>3, SentTo
    <3>2. FeedOK(last[c], send[c], published)  BY DEF FeedInv
    <3>3. /\ FeedOK(last[c], Append(send[c], n), published)
          /\ \A m \in Nat : n < m /\ Newer(m, last[c], send[c])
                              => Newer(m, last[c], Append(send[c], n))
      BY <2>1, <2>2, <3>2, FeedAppend, FeedNumbers
    <3> QED BY ONLY <3>1, <3>2, <3>3
  <2>4. ASSUME NEW i \in 1..Len(commands')
        PROVE  Behind(commands'[i], last, send', published)
    <3>1. Behind(commands'[i], last, send, published)  BY <1>1, TakenFeed
    <3>2. ASSUME IsPublished(commands'[i])
          PROVE  commands'[i].message \in Nat /\ n < commands'[i].message
      <4>1. \E j \in 1..Len(commands) : commands'[i] = commands[j]
        BY <1>1, Receiving DEF HubType
      <4>2. \E s \in Topics, k \in 1..MaxBroadcasts : commands'[i] = Publish(s, k)
        BY <3>2, <4>1, FeedNumbers
      <4>3. commands'[i].message \in Nat  BY <4>2, CommandKinds
      <4> QED BY <1>1, <2>1, <3>2, <4>3, TakenFeed
    <3> QED BY ONLY <2>3, <3>1, <3>2 DEF Behind
  <2>5. Ascending(commands')  BY <1>1, TakenFeed
  <2> QED BY <1>1, <2>3, <2>4, <2>5 DEF FeedInv
<1>4. \/ send' = send
      \/ \E t \in Topics, n \in 1..MaxBroadcasts :
           Head(commands) = Publish(t, n) /\ send' = Sent(Publish(t, n))
  <2>1. Head(commands) \in Commands  BY <1>1, Receiving DEF HubType
  <2>2. Head(commands).typ = "broadcast" =>
          \E t \in Topics, n \in 1..MaxBroadcasts : Head(commands) = Publish(t, n)
    BY ONLY <2>1, CommandKinds
  <2>3. send' = send \/ (Head(commands).typ = "broadcast" /\ send' = Sent(Head(commands)))
    BY DEF TakeCommand, Deliver
  <2> QED BY <2>2, <2>3
<1> QED BY ONLY <1>2, <1>3, <1>4

\* The first message of a feed is written, or dropped with the connection.
LEMMA FeedTail ==
  ASSUME NEW l \in Nat, NEW q \in Seq(Nat), q # <<>>, NEW p \in Nat, FeedOK(l, q, p),
         NEW k \in {l, Head(q)}
  PROVE  /\ FeedOK(k, Tail(q), p)
         /\ \A m \in Nat : Newer(m, l, q) => Newer(m, k, Tail(q))
<1> DEFINE r == Tail(q)
<1>1. /\ Len(q) \in Nat /\ Len(r) \in Nat /\ Head(q) \in Nat
      /\ \A i \in 1..Len(r) : i + 1 \in 1..Len(q) /\ r[i] = q[i + 1]
      /\ 1 \in 1..Len(q) /\ Head(q) = q[1]
  BY Receiving
<1> HIDE DEF r
<1>2. \A i \in 1..Len(q) : q[i] \in Nat  BY Waiting
<1>3. k \in Nat /\ k <= p
  BY ONLY <1>1, k \in {l, Head(q)}, l \in Nat, FeedOK(l, q, p) DEF FeedOK
<1>4. ASSUME NEW i \in 1..Len(r)  PROVE k < r[i] /\ r[i] <= p
  <2>1. /\ i + 1 \in 1..Len(q) /\ r[i] = q[i + 1] /\ 1 < i + 1  BY ONLY <1>1, <1>4
  <2>2. l < q[i + 1] /\ q[i + 1] <= p /\ q[1] < q[i + 1]
    BY ONLY <1>1, <2>1, FeedOK(l, q, p) DEF FeedOK
  <2> QED BY ONLY <1>1, <2>1, <2>2, k \in {l, Head(q)}
<1>5. ASSUME NEW i \in 1..Len(r), NEW j \in 1..Len(r), i < j  PROVE r[i] < r[j]
  <2>1. /\ i + 1 \in 1..Len(q) /\ r[i] = q[i + 1] /\ j + 1 \in 1..Len(q) /\ r[j] = q[j + 1]
        /\ i + 1 < j + 1
    BY ONLY <1>1, <1>5
  <2> QED BY ONLY <2>1, FeedOK(l, q, p) DEF FeedOK
<1>6. ASSUME NEW m \in Nat, Newer(m, l, q)
      PROVE  Newer(m, k, r)
  BY ONLY <1>1, <1>6, k \in {l, Head(q)} DEF Newer
<1>7. FeedOK(k, r, p)  BY ONLY <1>3, <1>4, <1>5 DEF FeedOK
<1> QED BY ONLY <1>6, <1>7 DEF r

LEMMA WriteFeed ==
  ASSUME HubType, FeedInv, NEW c \in Clients, Write(c)
  PROVE  FeedInv'
<1>1. /\ send[c] # <<>> /\ send' = [send EXCEPT ![c] = Tail(send[c])]
      /\ last' \in {last, [last EXCEPT ![c] = Head(send[c])]}
      /\ UNCHANGED <<commands, published>>
  BY DEF Write, queues, counts
<1>2. ASSUME NEW d \in Clients
      PROVE  /\ FeedOK(last'[d], send'[d], published)
             /\ \A m \in Nat : Newer(m, last[d], send[d]) => Newer(m, last'[d], send'[d])
  <2>1. FeedOK(last[d], send[d], published)  BY DEF FeedInv
  <2>2. CASE d = c
    <3>1. last'[d] \in {last[d], Head(send[d])} /\ send'[d] = Tail(send[d])
      BY <1>1, <2>2 DEF HubType
    <3> QED BY <1>1, <2>1, <2>2, <3>1, FeedTail, FeedNumbers
  <2>3. CASE d # c
    <3>1. last'[d] = last[d] /\ send'[d] = send[d]  BY <1>1, <2>3 DEF HubType
    <3> QED BY <2>1, <3>1
  <2> QED BY <2>2, <2>3
<1>3. ASSUME NEW i \in 1..Len(commands)
      PROVE  Behind(commands[i], last', send', published)
  <2>1. Behind(commands[i], last, send, published)  BY DEF FeedInv
  <2>2. IsPublished(commands[i]) => commands[i].message \in Nat
    <3>1. \A t \in Topics, n \in 1..MaxBroadcasts : Publish(t, n).message \in Nat  BY CommandKinds
    <3> QED BY <3>1, FeedNumbers
  <2> QED BY ONLY <1>2, <2>1, <2>2 DEF Behind
<1> QED BY <1>1, <1>2, <1>3 DEF FeedInv

LEMMA NextFeed == HubType /\ FeedInv /\ [Next]_vars => FeedInv'
<1> SUFFICES ASSUME HubType, FeedInv, [Next]_vars  PROVE FeedInv'
  OBVIOUS
<1>1. CASE UNCHANGED <<commands, send, last, published>>  BY <1>1 DEF FeedInv
<1>2. ASSUME NEW c \in Clients, Dispatch(c)  PROVE FeedInv'
  <2>1. /\ commands' = Append(commands, pending[c]) /\ pending[c] # NoCommand
        /\ UNCHANGED <<send, last, published>>
    BY <1>2 DEF Dispatch, hub, counts, history
  <2>2. pending[c] \in ClientCommands(c)  BY <2>1 DEF HubType
  <2>3. pending[c] \in Commands /\ ~IsPublished(pending[c])
    BY <2>2, CommandKinds DEF IsPublished
  <2> QED BY <2>1, <2>3, DispatchFeed
<1>3. ASSUME NEW c \in Clients, Pumps(c), ~Dispatch(c), ~Write(c)  PROVE FeedInv'
  BY <1>1, <1>3 DEF Pumps, Connect, BreakConn, Receive, Leave, StopWriting, queues, hub, counts, history
<1>4. CASE TakeRegister \/ TakeUnregister \/ Park \/ Stop \/ UNCHANGED vars
  BY <1>1, <1>4 DEF TakeRegister, TakeUnregister, Park, Stop, vars, queues, hub, counts, history
<1> QED BY <1>2, <1>3, <1>4, WriteFeed, BroadcastFeed, CommandFeed DEF Next, RunStep

-----------------------------------------------------------------------------
(* Theorems                                                                *)

LEMMA HubInvariant == Spec => []HubInv
<1>1. Init => HubInv
  <2>1. Init => GoneIsRemoved  BY DEF Init, GoneIsRemoved
  <2> QED BY <2>1, InitType, InitMembers, InitLate, InitFeed DEF HubInv
<1>2. HubInv /\ [Next]_vars => HubInv'
  BY NextType, NextMembers, NextLate, NextGone, NextFeed DEF HubInv
<1> QED BY <1>1, <1>2, PTL DEF Spec

\* The channels keep to their buffers, and a client whose Send is closed is not
\* registered (hub.go:35-66, 92-101).
THEOREM HubTypeCorrect == Spec => []TypeOK
<1>1. HubInv => TypeOK
  <2> SUFFICES ASSUME HubType, MembersInv  PROVE TypeOK
    BY DEF HubInv
  <2>1. /\ InSeq(commands) \subseteq Commands
        /\ InSeq(register) \subseteq Clients /\ InSeq(unregister) \subseteq Clients
        /\ \A c \in Clients : InSeq(send[c]) \subseteq 1..MaxBroadcasts
    BY Waiting DEF HubType
  <2> QED BY <2>1 DEF TypeOK, HubType, MembersInv
<1> QED BY <1>1, HubInvariant, PTL

\* Whatever the number of clients, commands and messages, and in whatever order
\* the goroutines run: only a subscription that the hub processed after it had
\* removed its client makes it send on a closed channel (hub.go:92-111, 159-168).
THEOREM OnlyLateCommands == Spec => []OnlyLateCommandsPanic
<1>1. HubInv => OnlyLateCommandsPanic  BY DEF HubInv, LateInv
<1> QED BY <1>1, HubInvariant, PTL

\* A client whose ReadPump has ended waits for its removal or is removed, with
\* its Send closed, or its removal was taken before its registration
\* (client.go:60-63, hub.go:92-95).
THEOREM WhoLeavesIsRemoved == Spec => []GoneIsRemoved
<1>1. HubInv => GoneIsRemoved  BY DEF HubInv
<1> QED BY <1>1, HubInvariant, PTL

\* What is written last and what is sent are one feed.
LEMMA SeenInOrder ==
  ASSUME NEW l \in Nat, NEW q \in Seq(Nat), NEW p, FeedOK(l, q, p),
         NEW i \in DOMAIN (<<l>> \o q), NEW j \in DOMAIN (<<l>> \o q), i < j
  PROVE  (<<l>> \o q)[i] < (<<l>> \o q)[j]
<1> DEFINE s == <<l>> \o q
<1>1. <<l>> \in Seq(Nat) /\ Len(<<l>>) = 1 /\ <<l>>[1] = l /\ Len(q) \in Nat
  BY Waiting
<1>2. /\ s \in Seq(Nat) /\ Len(s) = Len(<<l>>) + Len(q)
      /\ \A k \in 1..(Len(<<l>>) + Len(q)) :
           s[k] = IF k <= Len(<<l>>) THEN <<l>>[k] ELSE q[k - Len(<<l>>)]
  BY <1>1, ConcatProperties
<1>3. DOMAIN s = 1..(1 + Len(q))  BY ONLY <1>1, <1>2, LenProperties
<1>4. i \in 1..(1 + Len(q)) /\ j \in 1..(1 + Len(q)) /\ i < j  BY <1>3
<1>5. s[1] = l
  <2>1. 1 \in 1..(Len(<<l>>) + Len(q)) /\ 1 <= Len(<<l>>)  BY ONLY <1>1
  <2> QED BY ONLY <1>1, <1>2, <2>1
<1>6. ASSUME NEW k \in 1..(1 + Len(q)), k # 1
      PROVE  s[k] = q[k - 1] /\ k - 1 \in 1..Len(q)
  <2>1. k \in 1..(Len(<<l>>) + Len(q)) /\ ~(k <= Len(<<l>>)) /\ k - 1 \in 1..Len(q)
    BY ONLY <1>1, <1>6
  <2> QED BY ONLY <1>1, <1>2, <2>1
<1> HIDE DEF s
<1>7. s[j] = q[j - 1] /\ j - 1 \in 1..Len(q)
  <2>1. j # 1  BY ONLY <1>4
  <2> QED BY ONLY <1>4, <1>6, <2>1
<1>8. s[i] < s[j]
  <2>1. CASE i = 1  BY ONLY <1>5, <1>7, <2>1, FeedOK(l, q, p) DEF FeedOK
  <2>2. CASE i # 1
    <3>1. s[i] = q[i - 1] /\ i - 1 \in 1..Len(q)  BY ONLY <1>4, <1>6, <2>2
    <3>2. i - 1 < j - 1  BY ONLY <1>4
    <3> QED BY ONLY <1>7, <3>1, <3>2, FeedOK(l, q, p) DEF FeedOK
  <2> QED BY ONLY <2>1, <2>2
<1> QED BY ONLY <1>8 DEF s

\* However many messages a slow client misses, what it sees is in the order of
\* publication and never repeated (hub.go:159-168, client.go:129-165).
THEOREM FeedsAreInOrder == Spec => []FeedInOrder
<1>1. HubInv => FeedInOrder
  <2> SUFFICES ASSUME HubType, FeedInv, NEW c \in Clients,
                      NEW i \in DOMAIN (<<last[c]>> \o send[c]),
                      NEW j \in DOMAIN (<<last[c]>> \o send[c]), i < j
               PROVE  (<<last[c]>> \o send[c])[i] < (<<last[c]>> \o send[c])[j]
    BY DEF HubInv, FeedInOrder
  <2>1. last[c] \in Nat /\ send[c] \in Seq(Nat)  BY FeedNumbers
  <2>2. FeedOK(last[c], send[c], published)  BY DEF FeedInv
  <2> QED BY <2>1, <2>2, SeenInOrder
<1> QED BY <1>1, HubInvariant, PTL

=============================================================================

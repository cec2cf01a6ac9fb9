---------------------------- MODULE NetworkClient ----------------------------
(***************************************************************************)
(* One run of the ENet client (client-enet/src/NetworkClient.cpp): the     *)
(* main thread connects, plays and shuts down, while the network thread,   *)
(* started by the constructor, services the same ENet host and queues what *)
(* it gets.  Both threads call enet_host_service without a lock; here each *)
(* event goes to one of them, whichever asks first (the damage the race    *)
(* may do inside ENet is not modelled).                                    *)
(*                                                                         *)
(* The server's welcome is packet 0 and always its first; the component    *)
(* updates that follow are packets 1, 2, ...  The server broadcasts in     *)
(* every frame and never stops: between and after the packets that have a  *)
(* number come updates that say nothing new, without end.                  *)
(***************************************************************************)
EXTENDS Integers, Sequences

CONSTANT MaxUpdates   \* bound: component updates that have a number

ASSUME UpdatesAssumption == MaxUpdates \in Nat

VARIABLES
    \* main thread
    main,            \* where it is
    isConnected, serverPeer,   \* serverPeer: the pointer is not null
    PlayerEntityId,  \* the welcome has set it
    inputPlayer,     \* value main() copied into the InputState
    \* network thread
    net, hand,       \* where it is; the event it has taken, as a sequence
    isRunning, messageQueue,
    \* ENet and the server
    peer,            \* state of the only peer of this host
    incoming,        \* events ENet will return, in order
    sent,            \* packets with a number sent by the server
    \* history
    handled,         \* packets given to handleServerMessage, in order
    stolen,          \* the network thread took an event before connect() returned
    answered,        \* the welcome was received
    outcome          \* what connect() returned

mainVars == <<main, isConnected, serverPeer, PlayerEntityId, inputPlayer, outcome>>
netVars == <<net, hand, stolen>>
vars == <<mainVars, netVars, isRunning, messageQueue, peer, incoming, sent,
          handled, answered>>

\* A received packet is a RECEIVE, or a REPEAT if it says nothing new.
Event == [type : {"CONNECT", "DISCONNECT", "RECEIVE", "REPEAT"}, packet : Nat]
Connected == [type |-> "CONNECT", packet |-> 0]
Disconnected == [type |-> "DISCONNECT", packet |-> 0]
Received(n) == [type |-> "RECEIVE", packet |-> n]
Welcome == Received(0)
Repeated == [type |-> "REPEAT", packet |-> 0]

Init ==
    /\ main = "start" /\ net = "polling" /\ peer = "none"
    /\ isConnected = FALSE /\ serverPeer = FALSE /\ isRunning = TRUE
    /\ PlayerEntityId = FALSE /\ inputPlayer = FALSE
    /\ hand = << >> /\ messageQueue = << >> /\ incoming = << >>
    /\ sent = 0 /\ handled = << >>
    /\ stolen = FALSE /\ answered = FALSE /\ outcome = "none"

-----------------------------------------------------------------------------
(* ENet and the server.                                                     *)

Deliver(event) == incoming' = Append(incoming, event)
envOnly == UNCHANGED <<mainVars, netVars, isRunning, messageQueue, handled, answered>>

Accepted ==
    /\ peer = "connecting"
    /\ peer' = "connected"
    /\ Deliver(Connected)
    /\ UNCHANGED sent /\ envOnly

ServerSends ==
    /\ peer = "connected"
    /\ sent <= MaxUpdates
    /\ Deliver(Received(sent))
    /\ sent' = sent + 1
    /\ UNCHANGED peer /\ envOnly

\* A bound in the state, not in time: at most one of them waits in ENet.
ServerRepeats ==
    /\ peer = "connected"
    /\ sent > 0
    /\ \A i \in 1..Len(incoming) : incoming[i] # Repeated
    /\ Deliver(Repeated)
    /\ UNCHANGED <<peer, sent>> /\ envOnly

\* A refusal, a timeout or the server's leaving; ENet throws away what it had
\* received and not yet returned when it sees it.
ConnectionLost ==
    /\ peer \in {"connecting", "connected"}
    /\ peer' = "none"
    /\ \E k \in 0..Len(incoming) :
          incoming' = Append(SubSeq(incoming, 1, k), Disconnected)
    /\ UNCHANGED sent /\ envOnly

DisconnectAcknowledged ==
    /\ peer = "disconnecting"
    /\ peer' = "none"
    /\ Deliver(Disconnected)
    /\ UNCHANGED sent /\ envOnly

\* enet_host_service returned the oldest event to the caller.
Service ==
    /\ incoming # << >>
    /\ incoming' = Tail(incoming)
    /\ answered' = (answered \/ Head(incoming) = Welcome)
    /\ UNCHANGED sent

-----------------------------------------------------------------------------
(* The main thread: connect().                                              *)

Connect ==
    /\ main = "start"
    /\ main' = "awaitConnect"
    /\ serverPeer' = TRUE
    /\ peer' = "connecting"
    /\ UNCHANGED <<isConnected, PlayerEntityId, inputPlayer, outcome, netVars,
                   isRunning, messageQueue, incoming, sent, handled, answered>>

\* enet_peer_reset forgets the connection without a word to the server;
\* main() returns and the destructor stops the network thread.
FailConnect ==
    /\ main' = "joining"
    /\ outcome' = "false"
    /\ isRunning' = FALSE
    /\ peer' = "none"
    /\ incoming' = << >>
    /\ UNCHANGED <<isConnected, serverPeer, PlayerEntityId, inputPlayer, netVars,
                   messageQueue, sent, handled>>

AwaitConnect ==
    /\ main = "awaitConnect"
    /\ \/ /\ Service
          /\ Head(incoming).type = "CONNECT"
          /\ main' = "awaitWelcome"
          /\ UNCHANGED <<isConnected, serverPeer, PlayerEntityId, inputPlayer,
                         outcome, netVars, isRunning, messageQueue, peer, handled>>
       \/ /\ incoming # << >>
          /\ Head(incoming).type # "CONNECT"
          /\ answered' = (answered \/ Head(incoming) = Welcome)
          /\ FailConnect
       \/ incoming = << >> /\ FailConnect /\ UNCHANGED answered   \* 5 s are over

\* handleServerMessage: a welcome sets the ids, anything else updates the
\* registry.
Bug_WelcomeInConnectOnly(n) ==
    /\ handled' = Append(handled, n)
    /\ PlayerEntityId' = (PlayerEntityId \/ (n = 0 /\ main = "awaitWelcome"))
handleServerMessage(n) ==
    /\ handled' = Append(handled, n)
    /\ PlayerEntityId' = (PlayerEntityId \/ n = 0)
nothingNew == UNCHANGED <<handled, PlayerEntityId>>

\* The first packet is taken for the welcome whatever it is; main() then
\* copies PlayerEntityId into the InputState once and for all.
AwaitWelcome ==
    /\ main = "awaitWelcome"
    /\ \/ /\ Service
          /\ \/ /\ Head(incoming).type = "RECEIVE"
                /\ handleServerMessage(Head(incoming).packet)
             \/ Head(incoming) = Repeated /\ nothingNew
          /\ inputPlayer' = PlayerEntityId'
          /\ isConnected' = TRUE
          /\ main' = "running"
          /\ outcome' = "true"
          /\ UNCHANGED <<serverPeer, netVars, isRunning, messageQueue, peer>>
       \/ /\ incoming # << >>
          /\ Head(incoming).type \notin {"RECEIVE", "REPEAT"}
          /\ FailConnect /\ UNCHANGED answered
       \/ incoming = << >> /\ FailConnect /\ UNCHANGED answered   \* 5 s are over

-----------------------------------------------------------------------------
(* The main thread: update(), once a frame, with queueMutex held from       *)
(* BeginUpdate to EndUpdate.                                                *)

notUpdate == UNCHANGED <<inputPlayer, outcome, netVars, isRunning, peer,
                         incoming, sent, answered>>

BeginUpdate ==
    /\ main = "running"
    /\ main' = "updating"
    /\ UNCHANGED <<isConnected, serverPeer, PlayerEntityId, messageQueue, handled>>
    /\ notUpdate

Bug_PeerClearedOnly ==
    /\ serverPeer' = FALSE
    /\ UNCHANGED <<isConnected, PlayerEntityId, handled>>
HandleDisconnect ==
    /\ isConnected' = FALSE
    /\ serverPeer' = FALSE
    /\ UNCHANGED <<PlayerEntityId, handled>>

HandleQueued ==
    /\ main = "updating"
    /\ messageQueue # << >>
    /\ messageQueue' = Tail(messageQueue)
    /\ LET event == Head(messageQueue)
       IN  CASE event.type = "RECEIVE" ->
                  /\ handleServerMessage(event.packet)
                  /\ UNCHANGED <<isConnected, serverPeer>>
             [] event.type = "REPEAT" ->
                  nothingNew /\ UNCHANGED <<isConnected, serverPeer>>
             [] event.type = "CONNECT" ->
                  /\ isConnected' = TRUE
                  /\ UNCHANGED <<serverPeer, PlayerEntityId, handled>>
             [] event.type = "DISCONNECT" -> HandleDisconnect
    /\ UNCHANGED main
    /\ notUpdate

EndUpdate ==
    /\ main = "updating"
    /\ messageQueue = << >>
    /\ main' = "running"
    /\ UNCHANGED <<isConnected, serverPeer, PlayerEntityId, messageQueue, handled>>
    /\ notUpdate

-----------------------------------------------------------------------------
(* The main thread: the window is closed, the destructor runs.              *)

CloseWindow ==
    /\ main = "running"
    /\ main' = "joining"
    /\ isRunning' = FALSE
    /\ UNCHANGED <<isConnected, serverPeer, PlayerEntityId, inputPlayer, outcome,
                   netVars, messageQueue, peer, incoming, sent, handled, answered>>

closing == UNCHANGED <<PlayerEntityId, inputPlayer, outcome, netVars, isRunning,
                       messageQueue, handled>>

\* join(); then disconnect() if connected.  enet_peer_disconnect throws away
\* what the peer has received and not yet returned, so that the loop of
\* disconnect() can only see the end of the connection.
Join ==
    /\ main = "joining"
    /\ net = "ended"
    /\ IF isConnected /\ serverPeer
       THEN /\ main' = "disconnecting"
            /\ peer' = IF peer = "connected" THEN "disconnecting" ELSE peer
            /\ incoming' = SelectSeq(incoming, LAMBDA e : e.type = "DISCONNECT")
       ELSE main' = "done" /\ UNCHANGED <<peer, incoming>>
    /\ UNCHANGED <<isConnected, serverPeer, sent, answered>>
    /\ closing

AwaitDisconnect ==
    /\ main = "disconnecting"
    /\ \/ Service /\ Head(incoming).type = "DISCONNECT" /\ UNCHANGED peer
       \/ /\ incoming = << >>              \* 3 s are over: enet_peer_reset
          /\ peer' = "none"
          /\ UNCHANGED <<incoming, sent, answered>>
    /\ main' = "done"
    /\ isConnected' = FALSE
    /\ serverPeer' = FALSE
    /\ closing

-----------------------------------------------------------------------------
(* The network thread.                                                      *)

netOnly == UNCHANGED <<mainVars, isRunning, peer, handled>>

NetTake ==
    /\ net = "polling"
    /\ Service
    /\ hand' = << Head(incoming) >>
    /\ net' = "pushing"
    /\ stolen' = (stolen \/ main \in {"start", "awaitConnect", "awaitWelcome"})
    /\ UNCHANGED messageQueue /\ netOnly

\* push under the lock, which the main thread holds while it updates.  A bound
\* in the state again: the queue, which grows without limit, keeps one of those
\* that say nothing new.
queued(e) == \E i \in 1..Len(messageQueue) : messageQueue[i] = e
news == IF hand = << Repeated >> /\ queued(Repeated) THEN << >> ELSE hand
Bug_PushFront ==
    /\ net = "pushing" /\ main # "updating"
    /\ messageQueue' = news \o messageQueue
    /\ hand' = << >> /\ net' = "polling"
    /\ UNCHANGED <<stolen, incoming, sent, answered>> /\ netOnly
NetPush ==
    /\ net = "pushing"
    /\ main # "updating"
    /\ messageQueue' = messageQueue \o news
    /\ hand' = << >>
    /\ net' = "polling"
    /\ UNCHANGED <<stolen, incoming, sent, answered>>
    /\ netOnly

NetSleep ==
    /\ net = "polling"
    /\ incoming = << >>
    /\ net' = "sleeping"
    /\ UNCHANGED <<hand, stolen, messageQueue, incoming, sent, answered>>
    /\ netOnly

Bug_NeverEnds ==
    /\ net = "sleeping"
    /\ net' = "polling"
    /\ UNCHANGED <<hand, stolen, messageQueue, incoming, sent, answered>>
    /\ netOnly
NetWake ==
    /\ net = "sleeping"
    /\ net' = IF isRunning THEN "polling" ELSE "ended"
    /\ UNCHANGED <<hand, stolen, messageQueue, incoming, sent, answered>>
    /\ netOnly

-----------------------------------------------------------------------------
MainStep == Connect \/ AwaitConnect \/ AwaitWelcome \/ BeginUpdate \/ HandleQueued
            \/ EndUpdate \/ Join \/ AwaitDisconnect
NetStep == NetTake \/ NetSleep \/ NetWake
Next == MainStep \/ CloseWindow \/ NetStep \/ NetPush
        \/ Accepted \/ ServerSends \/ ServerRepeats \/ ConnectionLost \/ DisconnectAcknowledged

Spec == Init /\ [][Next]_vars

\* Both threads are scheduled for ever.  The mutex is free for the whole of a
\* frame except update(), so that the network thread gets it in the end: strong
\* fairness for NetPush.  Nothing is assumed of the server, the player or the
\* network.
Fairness == WF_vars(MainStep) /\ WF_vars(NetStep) /\ SF_vars(NetPush)

-----------------------------------------------------------------------------
(* Properties.                                                              *)

playing == main \in {"running", "updating"}
\* What the registry has seen and, once connect() has returned, what it will
\* see, in order.
stream == [i \in 1..Len(handled) |-> Received(handled[i])] \o messageQueue \o hand \o incoming
packet(i) == stream[i].type = "RECEIVE"
\* From the k-th event on, packets are in the order they were sent.
InOrder(k) ==
    \A i, j \in k..Len(stream) :
        packet(i) /\ packet(j) /\ i < j => stream[i].packet < stream[j].packet

\* connect() applies at most one packet out of turn; from then on, they pass from
\* ENet through the hand of the network thread and the queue to the registry
\* in the order they were sent.  Whichever thread took it, none is applied
\* twice or was never sent, and while the connection stands none is lost.
UpdatesArrive ==
    playing =>
        /\ InOrder(2)
        /\ \A i \in 1..Len(stream) : packet(i) => stream[i].packet < sent
        /\ \A i, j \in 1..Len(stream) : packet(i) /\ stream[i] = stream[j] => i = j
        /\ peer = "connected" =>
              \A n \in 0..(sent - 1) : \E i \in 1..Len(stream) : stream[i] = Received(n)

\* The InputState is filled once, after connect(): if no event was taken from
\* under connect(), it holds the player's own entity.  And even a connection
\* that succeeded while the welcome was in the hands of the network thread gets
\* its ids, or ends.
IdsArrive ==
    /\ [](playing /\ ~stolen => inputPlayer)
    /\ playing ~> PlayerEntityId \/ ~playing

\* A connection that has gone is noticed: isConnected does not stay true without
\* a peer, whichever thread gets the news and whatever is queued before it.
LossNoticed == isConnected /\ peer = "none" ~> ~isConnected

\* When the window is closed or connect() has failed, the program ends, once the
\* network thread has found ENet empty or the connection has gone: nothing else
\* than a server that sends faster than the thread takes, whose inner loop does
\* not look at isRunning, keeps the destructor waiting, neither the mutex nor the
\* queue nor an acknowledgement that never comes.
Terminates ==
    ~isRunning /\ (net \in {"sleeping", "ended"} \/ peer # "connected") ~> main = "done"

\* "@return true si la connexion est reussie, false sinon": connect() fails
\* only if the server's answer has not been received.
FailureMeansNoAnswer == outcome = "false" => ~answered

=============================================================================

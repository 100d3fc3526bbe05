------------------------------ MODULE WebSocket ------------------------------
(***************************************************************************)
(* The WebSocket manager (websocket.go): the goroutine Run that owns the   *)
(* table of connections, the request handler ServeWS that registers a      *)
(* connection and queues the stored notifications of its user, and the     *)
(* read and write pumps of a connection.                                   *)
(*                                                                         *)
(* register and unregister are unbuffered channels: handing a client over  *)
(* is one step of the sender and of Run.  Run then takes the write lock of *)
(* m.mux, so it waits until nobody iterates over the table.  A message is  *)
(* the handler that queues it and the position of the notification.        *)
(***************************************************************************)
EXTENDS Naturals, Sequences, FiniteSets

CONSTANTS
    Client,     \* connections
    User,
    Owner,      \* userID of a connection
    Notes,      \* number of stored notifications of a user
    Cap,        \* capacity of the send channel, 256 in the code
    MayStop     \* Stop may be called; the server does not call it

ASSUME WebSocketAssumption ==
    /\ Owner \in [Client -> User]
    /\ Notes \in [User -> Nat]
    /\ Cap \in Nat \ {0}
    /\ MayStop \in BOOLEAN

VARIABLES
    serve,      \* where the handler ServeWS of a connection is
    next,       \* the notification that handler queues next
    bcast,      \* clients it has still to send it to; it holds the read lock unless {}
    run,        \* what Run has received and not yet done
    conns,      \* m.conns: the registered clients of all users
    send,       \* the send channels
    closed,     \* close(c.send) was called
    conn,       \* the network connection
    kicks,      \* goroutines of BroadcastToUser waiting to unregister the client
    reader,     \* readPump
    writer,     \* writePump
    stopped,    \* m.closed is closed
    panicked    \* a send on, or a second close of, a closed channel

hvars == <<serve, next, bcast>>
pvars == <<reader, writer>>
vars == <<serve, next, bcast, run, conns, send, closed, conn, kicks,
          reader, writer, stopped, panicked>>

Message == Client \X Nat
Idle == <<"idle">>

Init ==
    /\ serve = [c \in Client |-> "register"]
    /\ next = [c \in Client |-> 1]
    /\ bcast = [c \in Client |-> {}]
    /\ run = Idle
    /\ conns = {}
    /\ send = [c \in Client |-> <<>>]
    /\ closed = [c \in Client |-> FALSE]
    /\ conn = [c \in Client |-> "open"]
    /\ kicks = [c \in Client |-> 0]
    /\ reader = [c \in Client |-> "none"]
    /\ writer = [c \in Client |-> "none"]
    /\ stopped = FALSE
    /\ panicked = FALSE

-----------------------------------------------------------------------------
(* Run.                                                                    *)

\* m.mux.Lock() returns.
CanLock == \A c \in Client : bcast[c] = {}

RunRegisters(c) ==
    /\ run = <<"register", c>> /\ CanLock
    /\ conns' = conns \cup {c}
    /\ run' = Idle
    /\ UNCHANGED <<hvars, send, closed, conn, kicks, pvars, stopped, panicked>>

\* Mutant of RunUnregisters: the channel is closed whether or not the client
\* is still in the table.
RunUnregistersAlways(c) ==
    /\ run = <<"unregister", c>> /\ CanLock
    /\ conns' = conns \ {c}
    /\ closed' = [closed EXCEPT ![c] = TRUE]
    /\ panicked' = (panicked \/ closed[c])
    /\ run' = Idle
    /\ UNCHANGED <<hvars, send, conn, kicks, pvars, stopped>>

\* Only the first one to unregister a client closes its channel.
RunUnregisters(c) ==
    /\ run = <<"unregister", c>> /\ CanLock
    /\ IF c \in conns
       THEN /\ conns' = conns \ {c}
            /\ closed' = [closed EXCEPT ![c] = TRUE]
            /\ panicked' = (panicked \/ closed[c])
       ELSE UNCHANGED <<conns, closed, panicked>>
    /\ run' = Idle
    /\ UNCHANGED <<hvars, send, conn, kicks, pvars, stopped>>

Stop ==
    /\ MayStop /\ ~stopped
    /\ stopped' = TRUE
    /\ UNCHANGED <<hvars, run, conns, send, closed, conn, kicks, pvars, panicked>>

\* Run closes every connection and returns: nobody receives from register
\* and unregister any more.
RunStops ==
    /\ stopped /\ run = Idle /\ CanLock
    /\ conn' = [c \in Client |-> IF c \in conns THEN "closed" ELSE conn[c]]
    /\ closed' = [c \in Client |-> c \in conns \/ closed[c]]
    /\ panicked' = (panicked \/ \E c \in conns : closed[c])
    /\ conns' = {}
    /\ run' = <<"returned">>
    /\ UNCHANGED <<hvars, send, kicks, pvars, stopped>>

-----------------------------------------------------------------------------
(* ServeWS and BroadcastToUser.                                            *)

\* A request with a valid token of an existing user has been upgraded (others
\* change nothing); manager.register <- client.  The handler goes on while Run
\* has yet to take the lock.
Register(c) ==
    /\ serve[c] = "register" /\ run = Idle
    /\ run' = <<"register", c>>
    /\ serve' = [serve EXCEPT ![c] = "queue"]
    /\ UNCHANGED <<next, bcast, conns, send, closed, conn, kicks, pvars, stopped, panicked>>

\* BroadcastToUser takes the read lock and looks up the user's clients.
BroadcastToUser(c) ==
    LET set == {d \in conns : Owner[d] = Owner[c]}
    IN  /\ serve[c] = "queue" /\ bcast[c] = {} /\ next[c] <= Notes[Owner[c]]
        /\ bcast' = [bcast EXCEPT ![c] = set]
        /\ next' = [next EXCEPT ![c] = IF set = {} THEN @ + 1 ELSE @]
        /\ UNCHANGED <<serve, run, conns, send, closed, conn, kicks, pvars, stopped, panicked>>

\* Mutant of Deliver: the message is dropped and the client stays.
DeliverOrDrop(c, d) ==
    /\ send' = [send EXCEPT ![d] = IF Len(@) < Cap THEN Append(@, <<c, next[c]>>) ELSE @]
    /\ UNCHANGED kicks

\* Mutant of Deliver: a plain send, which waits for room in the channel.
DeliverBlocking(c, d) ==
    /\ Len(send[d]) < Cap
    /\ send' = [send EXCEPT ![d] = Append(@, <<c, next[c]>>)]
    /\ UNCHANGED kicks

\* A full channel does not make the handler wait: a goroutine is started that
\* disconnects the client.
Deliver(c, d) ==
    IF Len(send[d]) < Cap
    THEN /\ send' = [send EXCEPT ![d] = Append(@, <<c, next[c]>>)]
         /\ UNCHANGED kicks
    ELSE /\ kicks' = [kicks EXCEPT ![d] = @ + 1]
         /\ UNCHANGED send

\* One turn of the loop over the user's clients; the last one unlocks.
SendTo(c, d) ==
    /\ d \in bcast[c]
    /\ Deliver(c, d)
    /\ panicked' = (panicked \/ closed[d])
    /\ bcast' = [bcast EXCEPT ![c] = @ \ {d}]
    /\ next' = [next EXCEPT ![c] = IF bcast[c] = {d} THEN @ + 1 ELSE @]
    /\ UNCHANGED <<serve, run, conns, closed, conn, pvars, stopped>>

\* All notifications are queued, or GetUserNotifications has failed.
StartPumps(c) ==
    /\ serve[c] = "queue" /\ bcast[c] = {}
    /\ next[c] > Notes[Owner[c]] \/ next[c] = 1
    /\ serve' = [serve EXCEPT ![c] = "done"]
    /\ reader' = [reader EXCEPT ![c] = "read"]
    /\ writer' = [writer EXCEPT ![c] = "wait"]
    /\ UNCHANGED <<next, bcast, run, conns, send, closed, conn, kicks, stopped, panicked>>

\* The goroutine started for a full channel: m.unregister <- cl, and
\* cl.conn.Close().
Kick(c) ==
    /\ kicks[c] > 0 /\ run = Idle
    /\ run' = <<"unregister", c>>
    /\ kicks' = [kicks EXCEPT ![c] = @ - 1]
    /\ conn' = [conn EXCEPT ![c] = "closed"]
    /\ UNCHANGED <<hvars, conns, send, closed, pvars, stopped, panicked>>

-----------------------------------------------------------------------------
(* The pumps.                                                              *)

\* The browser leaves, the network breaks or no pong comes for pongWait.
PeerGone(c) ==
    /\ conn[c] = "open"
    /\ conn' = [conn EXCEPT ![c] = "closed"]
    /\ UNCHANGED <<hvars, run, conns, send, closed, kicks, pvars, stopped, panicked>>

\* Mutant of ReadPump: the deferred function only closes.
ReadPumpOnlyCloses(c) ==
    /\ reader[c] = "read" /\ conn[c] = "closed"
    /\ reader' = [reader EXCEPT ![c] = "done"]
    /\ UNCHANGED <<hvars, run, conns, send, closed, conn, kicks, writer, stopped, panicked>>

\* ReadMessage returns an error and the deferred function runs:
\* c.manager.unregister <- c, and c.conn.Close(), which changes nothing.
ReadPump(c) ==
    /\ reader[c] = "read" /\ conn[c] = "closed" /\ run = Idle
    /\ run' = <<"unregister", c>>
    /\ reader' = [reader EXCEPT ![c] = "done"]
    /\ UNCHANGED <<hvars, conns, send, closed, conn, kicks, writer, stopped, panicked>>

\* A frame with the messages in the channel; nobody else takes any, so the
\* loop over the counted ones does not wait.  Writing to a lost connection may
\* fail.
WriterSends(c) ==
    /\ writer[c] = "wait" /\ send[c] # <<>>
    /\ send' = [send EXCEPT ![c] = <<>>]
    /\ \E w \in IF conn[c] = "open" THEN {"wait"} ELSE {"wait", "done"} :
          writer' = [writer EXCEPT ![c] = w]
    /\ UNCHANGED <<hvars, run, conns, closed, conn, kicks, reader, stopped, panicked>>

\* The channel is closed and empty, or a ping cannot be written: writePump
\* returns and closes the connection.
WriterReturns(c) ==
    /\ writer[c] = "wait"
    /\ (closed[c] /\ send[c] = <<>>) \/ conn[c] = "closed"
    /\ writer' = [writer EXCEPT ![c] = "done"]
    /\ conn' = [conn EXCEPT ![c] = "closed"]
    /\ UNCHANGED <<hvars, run, conns, send, closed, kicks, reader, stopped, panicked>>

-----------------------------------------------------------------------------
Run == RunStops \/ \E c \in Client : RunRegisters(c) \/ RunUnregisters(c)
Serve(c) ==
    \/ Register(c) \/ BroadcastToUser(c) \/ StartPumps(c)
    \/ \E d \in Client : SendTo(c, d)
WritePump(c) == WriterSends(c) \/ WriterReturns(c)

Next ==
    \/ Run \/ Stop
    \/ \E c \in Client : \/ Serve(c) \/ Kick(c) \/ PeerGone(c) \/ ReadPump(c) \/ WritePump(c)

\* Goroutines run.  The hand-overs to Run are finitely many, so weak fairness
\* is enough for those that wait for it.  Browsers leave as they like.
Fairness ==
    /\ WF_vars(Run)
    /\ \A c \in Client : /\ WF_vars(Serve(c)) /\ WF_vars(Kick(c))
                         /\ WF_vars(ReadPump(c)) /\ WF_vars(WritePump(c))

Spec == Init /\ [][Next]_vars /\ Fairness

-----------------------------------------------------------------------------
(* Properties.                                                             *)

\* Every variable holds a value of its kind; no channel holds more than its
\* capacity.
TypeOK ==
    /\ serve \in [Client -> {"register", "queue", "done"}]
    /\ next \in [Client -> Nat]
    /\ bcast \in [Client -> SUBSET Client]
    /\ run \in {Idle, <<"returned">>} \cup ({"register", "unregister"} \X Client)
    /\ conns \subseteq Client
    /\ send \in [Client -> Seq(Message)] /\ \A c \in Client : Len(send[c]) <= Cap
    /\ closed \in [Client -> BOOLEAN]
    /\ conn \in [Client -> {"open", "closed"}]
    /\ kicks \in [Client -> Nat]
    /\ reader \in [Client -> {"none", "read", "done"}]
    /\ writer \in [Client -> {"none", "wait", "done"}]
    /\ stopped \in BOOLEAN /\ panicked \in BOOLEAN

\* However the read pump, the goroutines of full channels and Stop race to
\* disconnect a client while handlers queue messages for it, nobody sends on
\* or closes its closed channel: the process does not panic.
NoPanic == ~panicked

\* The notifications of handler d behind position i in the channel of client c.
Behind(d, c, i) == {j \in 1..Len(send[c]) : j > i /\ send[c][j][1] = d}

\* The notification that handler d has last queued, or tried to, for client c.
Latest(d, c) == IF bcast[d] = {} \/ c \in bcast[d] THEN next[d] - 1 ELSE next[d]

\* What waits in the channel of a client that stays connected are the latest
\* notifications of each handler, in order and without a gap: a message that
\* finds the channel full leads to the client's disconnection.
NoSilentGap ==
    \A c \in conns, d \in Client :
        (kicks[c] = 0 /\ run # <<"unregister", c>>) =>
            \A i \in 1..Len(send[c]) :
                send[c][i][1] = d =>
                    send[c][i][2] + Cardinality(Behind(d, c, i)) = Latest(d, c)

\* ServeWS always gets to its pumps, however full the channels are.
HandlerFinishes ==
    \A c \in Client : (serve[c] = "register") ~> (serve[c] = "done" \/ stopped)

\* Once the connection is lost, the client leaves the table and no goroutine
\* of it remains.
NothingLeaks ==
    \A c \in Client :
        (serve[c] = "done" /\ conn[c] # "open")
          ~> (stopped \/ (/\ c \notin conns /\ kicks[c] = 0
                          /\ reader[c] = "done" /\ writer[c] = "done"))

=============================================================================

--------------------------- MODULE WebSocketProofs ---------------------------
(***************************************************************************)
(* No connection's channel is closed twice or sent on after it is closed,  *)
(* and none of a client that stays connected lacks a notification between  *)
(* two others, for any number of connections, users and notifications and  *)
(* any capacity of the channels.                                           *)
(***************************************************************************)
EXTENDS WebSocket, TLAPS, FiniteSetTheorems

\* Why a closed channel is out of reach: its client has left the table for
\* good, since a client is handed to Run for registration only once, and a
\* handler iterates over clients of the table, which Run cannot change
\* meanwhile.
Reach ==
    /\ \A c \in Client : closed[c] => c \notin conns
    /\ \A c \in Client : (serve[c] = "register" \/ run = <<"register", c>>)
                            => c \notin conns /\ ~closed[c]
    /\ \A c \in Client : run = <<"register", c>> => serve[c] # "register"
    /\ \A c \in Client : bcast[c] \subseteq conns

SafeInv == TypeOK /\ Reach /\ NoPanic

\* Every variable of the manager, its handlers and its pumps keeps its type,
\* and no send channel ever holds more than its capacity.
LEMMA TypeStep == TypeOK /\ [Next]_vars => TypeOK'
<1> USE WebSocketAssumption
<1> SUFFICES ASSUME TypeOK, [Next]_vars PROVE TypeOK'
  OBVIOUS
<1>1. CASE UNCHANGED vars
  BY <1>1 DEF TypeOK, vars
<1>2. ASSUME NEW c \in Client, RunRegisters(c) PROVE TypeOK'
  BY <1>2 DEF TypeOK, RunRegisters, hvars, pvars, Idle
<1>3. ASSUME NEW c \in Client, RunUnregisters(c) PROVE TypeOK'
  BY <1>3 DEF TypeOK, RunUnregisters, hvars, pvars, Idle
<1>4. CASE Stop
  BY <1>4 DEF TypeOK, Stop, hvars, pvars
<1>5. CASE RunStops
  BY <1>5 DEF TypeOK, RunStops, hvars, pvars
<1>6. ASSUME NEW c \in Client, Register(c) PROVE TypeOK'
  BY <1>6 DEF TypeOK, Register, pvars
<1>7. ASSUME NEW c \in Client, BroadcastToUser(c) PROVE TypeOK'
  BY <1>7, SMTT(40) DEF TypeOK, BroadcastToUser, pvars
<1>8. ASSUME NEW c \in Client, NEW d \in Client, SendTo(c, d) PROVE TypeOK'
  <2>1. next' \in [Client -> Nat] /\ bcast' \in [Client -> SUBSET Client]
    <3>1. next \in [Client -> Nat] /\ bcast \in [Client -> SUBSET Client]
      BY DEF TypeOK
    <3>2. \E n \in {next[c], next[c] + 1} : next' = [next EXCEPT ![c] = n]
      BY <1>8 DEF SendTo
    <3>3. bcast' = [bcast EXCEPT ![c] = bcast[c] \ {d}]
      BY <1>8 DEF SendTo
    <3> QED
      BY <3>1, <3>2, <3>3
  <2>2. kicks' \in [Client -> Nat]
    <3>1. kicks \in [Client -> Nat]
      BY DEF TypeOK
    <3>2. kicks' = kicks \/ kicks' = [kicks EXCEPT ![d] = kicks[d] + 1]
      BY <1>8 DEF SendTo, Deliver
    <3> QED
      BY <3>1, <3>2
  <2>3. <<c, next[c]>> \in Message /\ send[d] \in Seq(Message) /\ Len(send[d]) \in Nat
    BY DEF TypeOK, Message
  <2>4. /\ Append(send[d], <<c, next[c]>>) \in Seq(Message)
        /\ Len(Append(send[d], <<c, next[c]>>)) = Len(send[d]) + 1
    BY <2>3
  <2>5. send' \in [Client -> Seq(Message)] /\ \A b \in Client : (Len(send[b]) <= Cap)'
    <3>1. CASE Len(send[d]) < Cap
      <4>1. send' = [send EXCEPT ![d] = Append(send[d], <<c, next[c]>>)]
        BY <1>8, <3>1 DEF SendTo, Deliver
      <4>2. Len(send[d]) + 1 <= Cap
        BY <2>3, <3>1
      <4> QED
        BY <4>1, <4>2, <2>4 DEF TypeOK
    <3>2. CASE ~(Len(send[d]) < Cap)
      BY <1>8, <3>2 DEF SendTo, Deliver, TypeOK
    <3> QED
      BY <3>1, <3>2
  <2>6. panicked' \in BOOLEAN
    BY <1>8 DEF SendTo
  <2> QED
    BY <1>8, <2>1, <2>2, <2>5, <2>6 DEF TypeOK, SendTo, pvars
<1>9. ASSUME NEW c \in Client, StartPumps(c) PROVE TypeOK'
  BY <1>9 DEF TypeOK, StartPumps
<1>10. ASSUME NEW c \in Client, Kick(c) PROVE TypeOK'
  BY <1>10 DEF TypeOK, Kick, hvars, pvars
<1>11. ASSUME NEW c \in Client, PeerGone(c) PROVE TypeOK'
  BY <1>11 DEF TypeOK, PeerGone, hvars, pvars
<1>12. ASSUME NEW c \in Client, ReadPump(c) PROVE TypeOK'
  BY <1>12 DEF TypeOK, ReadPump, hvars
<1>13. ASSUME NEW c \in Client, WriterSends(c) PROVE TypeOK'
  <2>1. send' \in [Client -> Seq(Message)] /\ \A b \in Client : (Len(send[b]) <= Cap)'
    <3>1. <<>> \in Seq(Message) /\ Len(<<>>) = 0
      OBVIOUS
    <3> QED
      BY <1>13, <3>1 DEF TypeOK, WriterSends
  <2>2. writer' \in [Client -> {"none", "wait", "done"}]
    BY <1>13 DEF TypeOK, WriterSends
  <2> QED
    BY <1>13, <2>1, <2>2 DEF TypeOK, WriterSends, hvars
<1>14. ASSUME NEW c \in Client, WriterReturns(c) PROVE TypeOK'
  BY <1>14 DEF TypeOK, WriterReturns, hvars
<1> QED
  BY <1>1, <1>2, <1>3, <1>4, <1>5, <1>6, <1>7, <1>8, <1>9, <1>10, <1>11, <1>12,
     <1>13, <1>14 DEF Next, Run, Serve, WritePump

\* Every step keeps closed channels out of reach and does not panic.
LEMMA ReachStep == SafeInv /\ [Next]_vars => Reach' /\ NoPanic'
<1> SUFFICES ASSUME SafeInv, [Next]_vars PROVE Reach' /\ NoPanic'
  OBVIOUS
<1> USE DEF SafeInv, Reach, NoPanic
<1>1. CASE UNCHANGED vars
  BY <1>1 DEF vars
<1>2. ASSUME NEW c \in Client, RunRegisters(c) PROVE Reach' /\ NoPanic'
  BY <1>2 DEF TypeOK, RunRegisters, hvars, Idle
<1>3. ASSUME NEW c \in Client, RunUnregisters(c) PROVE Reach' /\ NoPanic'
  <2>1. /\ \A b \in Client : bcast'[b] = {}
        /\ \A b \in Client : run' # <<"register", b>>
        /\ serve' = serve
    BY <1>3 DEF RunUnregisters, CanLock, hvars, Idle
  <2>2. CASE c \in conns
    <3>1. /\ conns' = conns \ {c}
          /\ \A b \in Client : closed'[b] = IF b = c THEN TRUE ELSE closed[b]
      BY <1>3, <2>2 DEF TypeOK, RunUnregisters
    <3>2. ~closed[c] /\ serve[c] # "register"
      BY <2>2
    <3>3. NoPanic'
      BY <1>3, <2>2, <3>2 DEF RunUnregisters
    <3> QED
      BY <2>1, <3>1, <3>2, <3>3
  <2>3. CASE c \notin conns
    BY <1>3, <2>1, <2>3 DEF RunUnregisters
  <2> QED
    BY <2>2, <2>3
<1>4. CASE Stop
  BY <1>4 DEF Stop, hvars
<1>5. CASE RunStops
  BY <1>5 DEF TypeOK, RunStops, CanLock, hvars, Idle
<1>6. ASSUME NEW c \in Client, Register(c) PROVE Reach' /\ NoPanic'
  BY <1>6 DEF TypeOK, Register, Idle
<1>7. ASSUME NEW c \in Client, BroadcastToUser(c) PROVE Reach' /\ NoPanic'
  BY <1>7 DEF TypeOK, BroadcastToUser
<1>8. ASSUME NEW c \in Client, NEW d \in Client, SendTo(c, d) PROVE Reach' /\ NoPanic'
  BY <1>8 DEF TypeOK, SendTo
<1>9. ASSUME NEW c \in Client, StartPumps(c) PROVE Reach' /\ NoPanic'
  BY <1>9 DEF TypeOK, StartPumps
<1>10. ASSUME NEW c \in Client, Kick(c) PROVE Reach' /\ NoPanic'
  BY <1>10 DEF Kick, hvars, Idle
<1>11. ASSUME NEW c \in Client, PeerGone(c) PROVE Reach' /\ NoPanic'
  BY <1>11 DEF PeerGone, hvars
<1>12. ASSUME NEW c \in Client, ReadPump(c) PROVE Reach' /\ NoPanic'
  BY <1>12 DEF ReadPump, hvars, Idle
<1>13. ASSUME NEW c \in Client, WriterSends(c) PROVE Reach' /\ NoPanic'
  BY <1>13 DEF WriterSends, hvars
<1>14. ASSUME NEW c \in Client, WriterReturns(c) PROVE Reach' /\ NoPanic'
  BY <1>14 DEF WriterReturns, hvars
<1> QED
  BY <1>1, <1>2, <1>3, <1>4, <1>5, <1>6, <1>7, <1>8, <1>9, <1>10, <1>11, <1>12,
     <1>13, <1>14 DEF Next, Run, Serve, WritePump

\* NewWSManager starts with an empty table and no channel closed.
LEMMA SafeInit == Init => SafeInv
<1> SUFFICES ASSUME Init PROVE SafeInv
  OBVIOUS
<1>1. <<>> \in Seq(Message) /\ Len(<<>>) = 0
  OBVIOUS
<1>2. TypeOK
  <2>1. send \in [Client -> Seq(Message)]
    BY <1>1 DEF Init
  <2>2. \A c \in Client : Len(send[c]) <= Cap
    BY <1>1, WebSocketAssumption DEF Init
  <2>3. kicks \in [Client -> Nat] /\ next \in [Client -> Nat]
    BY DEF Init
  <2>4. closed \in [Client -> BOOLEAN] /\ stopped \in BOOLEAN /\ panicked \in BOOLEAN
    BY DEF Init
  <2> QED
    BY <2>1, <2>2, <2>3, <2>4 DEF Init, TypeOK
<1>3. \A c \in Client : run # <<"register", c>>
  BY DEF Init, Idle
<1> QED
  BY <1>2, <1>3 DEF Init, SafeInv, Reach, NoPanic

\* The process never panics: nobody sends on a closed send channel of websocket.go
\* or closes one again, however Run, the handlers, the goroutines of full channels,
\* the pumps and Stop interleave.
THEOREM NeverPanics == Spec => []NoPanic
<1>1. Init => SafeInv
  BY SafeInit
<1>2. SafeInv /\ [Next]_vars => SafeInv'
  BY TypeStep, ReachStep DEF SafeInv
<1>3. SafeInv => NoPanic
  BY DEF SafeInv
<1> QED
  BY <1>1, <1>2, <1>3, PTL DEF Spec

-----------------------------------------------------------------------------
(* No gap.                                                                 *)

\* Whose messages a channel can hold: a client gets none before it is in the
\* table, and only those of handlers of its own user.
Addressed ==
    /\ \A c \in Client : (serve[c] = "register" \/ run = <<"register", c>>) => send[c] = <<>>
    /\ \A c \in Client : \A d \in bcast[c] : Owner[d] = Owner[c]
    /\ \A c \in Client : \A i \in 1..Len(send[c]) : Owner[send[c][i][1]] = Owner[c]

GapInv == SafeInv /\ Addressed /\ NoSilentGap

\* The messages of handler d behind position i of channel s.
BehindIn(s, i, d) == {j \in 1..Len(s) : j > i /\ s[j][1] = d}

\* A message that is appended is one more behind every one of its handler, and
\* has none behind itself.
LEMMA BehindAppend ==
  ASSUME NEW s \in Seq(Message), NEW m \in Message, NEW i \in 1..Len(s), NEW d,
         NEW t, t = Append(s, m)
  PROVE  /\ Cardinality(BehindIn(s, i, d)) \in Nat
         /\ m[1] = d => Cardinality(BehindIn(t, i, d)) = Cardinality(BehindIn(s, i, d)) + 1
         /\ m[1] # d => BehindIn(t, i, d) = BehindIn(s, i, d)
<1> DEFINE B == BehindIn(s, i, d)
           C == BehindIn(t, i, d)
           n == Len(s) + 1
<1>1. Len(s) \in Nat /\ Len(t) = n /\ t[n] = m /\ \A j \in 1..Len(s) : t[j] = s[j]
  OBVIOUS
<1>2. IsFiniteSet(B) /\ Cardinality(B) \in Nat /\ n \notin B
  <2>1. IsFiniteSet(1..Len(s)) /\ B \subseteq 1..Len(s)
    BY <1>1, FS_Interval DEF BehindIn
  <2>2. IsFiniteSet(B)
    BY <2>1, FS_Subset
  <2> QED
    BY <1>1, <2>1, <2>2, FS_CardinalityType
<1>3. \A j \in 1..Len(t) : j \in 1..Len(s) \/ j = n
  BY <1>1
<1>4. n > i /\ \A j \in 1..Len(s) : j \in 1..Len(t)
  BY <1>1
<1>5. n \in 1..Len(t)
  BY <1>1
<1>6. m[1] = d => C = B \cup {n}
  BY <1>1, <1>3, <1>4, <1>5 DEF BehindIn
<1>7. m[1] # d => C = B
  BY <1>1, <1>3, <1>4 DEF BehindIn
<1>8. Cardinality(B \cup {n}) = Cardinality(B) + 1
  <2> HIDE DEF B, n
  <2> QED  BY <1>2, FS_AddElement
<1> QED
  BY <1>2, <1>6, <1>7, <1>8

\* No broadcast is behind the one just queued.
LEMMA LastHasNone ==
  ASSUME NEW s \in Seq(Message), NEW m \in Message, NEW d, NEW t, t = Append(s, m),
         NEW i, i = Len(s) + 1
  PROVE  Cardinality(BehindIn(t, i, d)) = 0
<1>1. Len(t) = i /\ i \in Nat
  OBVIOUS
<1>2. BehindIn(t, i, d) = {}
  BY <1>1 DEF BehindIn
<1> QED
  BY <1>2, FS_EmptySet

\* The types of the variables of one client.
LEMMA ChannelTypes ==
  ASSUME TypeOK, NEW c \in Client
  PROVE  /\ send[c] \in Seq(Message) /\ Len(send[c]) \in Nat
         /\ \A i \in 1..Len(send[c]) : send[c][i] \in Message
         /\ next[c] \in Nat /\ bcast[c] \subseteq Client /\ kicks[c] \in Nat
BY DEF TypeOK

Quiet(c) == kicks[c] = 0 /\ run # <<"unregister", c>>

\* A step that leaves the channels and the handlers alone, and lets nobody
\* into the table whose channel is not empty, makes no gap.
LEMMA QuietStep ==
  ASSUME GapInv, UNCHANGED <<send, next, bcast>>,
         \A c \in conns' : \/ send[c] = <<>>
                           \/ c \in conns /\ (Quiet(c)' => Quiet(c))
  PROVE  NoSilentGap'
<1> SUFFICES ASSUME NEW c \in conns', NEW d \in Client, Quiet(c)',
                    NEW i \in 1..Len(send[c]), send[c][i][1] = d
             PROVE  (send[c][i][2] + Cardinality(Behind(d, c, i)) = Latest(d, c))'
  BY DEF NoSilentGap, Quiet
<1>1. send[c] # <<>>
  OBVIOUS
<1>2. c \in conns /\ Quiet(c)
  BY <1>1
<1>3. send[c][i][2] + Cardinality(Behind(d, c, i)) = Latest(d, c)
  BY <1>2 DEF GapInv, NoSilentGap, Quiet
<1> QED
  BY <1>3 DEF Behind, Latest

\* Steps of Run, the pumps and the goroutines that disconnect clients.
LEMMA GapOthers ==
  ASSUME GapInv,
         \/ Stop \/ RunStops
         \/ \E c \in Client : \/ RunRegisters(c) \/ RunUnregisters(c) \/ Register(c) \/ StartPumps(c)
                              \/ Kick(c) \/ PeerGone(c) \/ ReadPump(c) \/ WriterReturns(c)
  PROVE  Addressed' /\ NoSilentGap'
<1> USE DEF GapInv, SafeInv
<1>1. UNCHANGED <<send, next, bcast>>
  BY DEF Stop, RunStops, RunRegisters, RunUnregisters, Register, StartPumps, Kick, PeerGone,
         ReadPump, WriterReturns, hvars
<1>2. \A c \in Client : (serve'[c] = "register" \/ run' = <<"register", c>>)
                          => serve[c] = "register" \/ run = <<"register", c>>
  BY DEF Stop, RunStops, RunRegisters, RunUnregisters, Register, StartPumps, Kick, PeerGone,
         ReadPump, WriterReturns, hvars, TypeOK, Idle
<1>3. Addressed'
  BY <1>1, <1>2 DEF Addressed
<1>4. ASSUME NEW c \in conns'
      PROVE  send[c] = <<>> \/ (c \in conns /\ (Quiet(c)' => Quiet(c)))
  <2>1. CASE Stop
    BY <2>1 DEF Stop, Quiet
  <2>2. CASE RunStops
    BY <1>4, <2>2 DEF RunStops
  <2>3. ASSUME NEW b \in Client, RunRegisters(b)
        PROVE  send[c] = <<>> \/ (c \in conns /\ (Quiet(c)' => Quiet(c)))
    <3>1. send[b] = <<>> /\ conns' = conns \cup {b} /\ run = <<"register", b>> /\ kicks' = kicks
      BY <2>3 DEF RunRegisters, Addressed
    <3>2. run # <<"unregister", c>>
      BY <3>1
    <3> QED
      BY <1>4, <3>1, <3>2 DEF Quiet
  <2>4. ASSUME NEW b \in Client, RunUnregisters(b)
        PROVE  c \in conns /\ (Quiet(c)' => Quiet(c))
    <3>1. run = <<"unregister", b>> /\ kicks' = kicks /\ conns' = conns \ {b}
      BY <2>4 DEF RunUnregisters
    <3>2. c # b /\ c \in conns
      BY <1>4, <3>1
    <3>3. run # <<"unregister", c>>
      BY <3>1, <3>2
    <3> QED
      BY <3>1, <3>2, <3>3 DEF Quiet
  <2>5. ASSUME NEW b \in Client,
               Register(b) \/ StartPumps(b) \/ PeerGone(b) \/ ReadPump(b) \/ WriterReturns(b)
        PROVE  c \in conns /\ (Quiet(c)' => Quiet(c))
    <3>1. conns' = conns /\ kicks' = kicks /\ (run' = run \/ run = Idle)
      BY <2>5 DEF Register, StartPumps, PeerGone, ReadPump, WriterReturns, hvars
    <3>2. Idle # <<"unregister", c>>
      BY DEF Idle
    <3> QED
      BY <1>4, <3>1, <3>2 DEF Quiet
  <2>6. ASSUME NEW b \in Client, Kick(b)
        PROVE  c \in conns /\ (Quiet(c)' => Quiet(c))
    <3>1. /\ conns' = conns /\ run = Idle /\ run' = <<"unregister", b>>
          /\ kicks' = [kicks EXCEPT ![b] = kicks[b] - 1]
      BY <2>6 DEF Kick
    <3>2. c \in Client /\ kicks \in [Client -> Nat]
      BY <1>4, <3>1 DEF TypeOK
    <3>3. Idle # <<"unregister", c>>
      BY DEF Idle
    <3>4. CASE c = b
      BY <1>4, <3>1, <3>4 DEF Quiet
    <3>5. CASE c # b
      <4>1. kicks'[c] = kicks[c]
        BY <3>1, <3>2, <3>5
      <4> QED
        BY <1>4, <3>1, <3>3, <4>1 DEF Quiet
    <3> QED
      BY <3>4, <3>5
  <2> QED
    BY <2>1, <2>2, <2>3, <2>4, <2>5, <2>6
<1> QED
  BY <1>1, <1>3, <1>4, QuietStep

\* A frame takes everything out of the channel.
LEMMA GapWriter ==
  ASSUME GapInv, NEW b \in Client, WriterSends(b)
  PROVE  Addressed' /\ NoSilentGap'
<1>1. /\ \A c \in Client : send'[c] = IF c = b THEN <<>> ELSE send[c]
      /\ UNCHANGED <<serve, next, bcast, run, conns, kicks>>
  BY DEF WriterSends, hvars, GapInv, SafeInv, TypeOK
<1>2. conns \subseteq Client
  BY DEF GapInv, SafeInv, TypeOK
<1>3. Addressed'
  BY <1>1 DEF GapInv, Addressed
<1>4. NoSilentGap'
  <2> SUFFICES ASSUME NEW c \in conns', NEW d \in Client, Quiet(c)',
                      NEW i \in 1..Len(send'[c]), send'[c][i][1] = d
               PROVE  (send[c][i][2] + Cardinality(Behind(d, c, i)) = Latest(d, c))'
    BY DEF NoSilentGap, Quiet
  <2>1. send'[c] = send[c] /\ c \in conns /\ Quiet(c)
    BY <1>1, <1>2 DEF Quiet
  <2>2. send[c][i][2] + Cardinality(Behind(d, c, i)) = Latest(d, c)
    BY <2>1 DEF GapInv, NoSilentGap, Quiet
  <2> QED
    BY <1>1, <2>1, <2>2 DEF Behind, Latest
<1> QED
  BY <1>3, <1>4

\* The handler starts on its next notification: a client that has messages of
\* it belongs to the same user and is among those it will send it to.
LEMMA GapBroadcast ==
  ASSUME GapInv, NEW b \in Client, BroadcastToUser(b)
  PROVE  Addressed' /\ NoSilentGap'
<1> DEFINE set == {d \in conns : Owner[d] = Owner[b]}
<1>1. /\ bcast[b] = {}
      /\ bcast' = [bcast EXCEPT ![b] = set]
      /\ next' = [next EXCEPT ![b] = IF set = {} THEN next[b] + 1 ELSE next[b]]
      /\ UNCHANGED <<serve, run, conns, send, kicks>>
  BY DEF BroadcastToUser
<1>2. TypeOK /\ Addressed /\ NoSilentGap
  BY DEF GapInv, SafeInv
<1>3. /\ bcast'[b] = set /\ next'[b] = IF set = {} THEN next[b] + 1 ELSE next[b]
      /\ \A d \in Client : d # b => bcast'[d] = bcast[d] /\ next'[d] = next[d]
  BY <1>1, <1>2 DEF TypeOK
<1>4. Addressed'
  <2>1. \A c \in Client : \A d \in bcast'[c] : Owner[d] = Owner[c]
    BY <1>2, <1>3 DEF Addressed
  <2> QED
    BY <1>1, <1>2, <2>1 DEF Addressed
<1>5. NoSilentGap'
  <2> SUFFICES ASSUME NEW c \in conns, NEW d \in Client, Quiet(c),
                      NEW i \in 1..Len(send[c]), send[c][i][1] = d
               PROVE  (send[c][i][2] + Cardinality(Behind(d, c, i)) = Latest(d, c))'
    BY <1>1 DEF NoSilentGap, Quiet
  <2>1. send[c][i][2] + Cardinality(Behind(d, c, i)) = Latest(d, c)
    BY <1>2 DEF NoSilentGap, Quiet
  <2>2. Latest(d, c)' = Latest(d, c)
    <3>1. CASE d # b
      BY <1>3, <3>1 DEF Latest
    <3>2. CASE d = b
      <4>1. Owner[d] = Owner[c]
        BY <1>2 DEF Addressed, TypeOK
      <4>2. c \in set
        BY <3>2, <4>1
      <4>3. next'[d] = next[d] /\ c \in bcast'[d] /\ bcast[d] = {}
        BY <1>1, <1>3, <3>2, <4>2
      <4> QED
        BY <4>3 DEF Latest
    <3> QED
      BY <3>1, <3>2
  <2>3. Behind(d, c, i)' = Behind(d, c, i)
    BY <1>1 DEF Behind
  <2> QED
    BY <1>1, <2>1, <2>2, <2>3
<1> QED
  BY <1>4, <1>5

\* One notification is queued, or starts the disconnection of the client.
LEMMA GapSend ==
  ASSUME GapInv, NEW b \in Client, NEW x \in Client, SendTo(b, x)
  PROVE  Addressed' /\ NoSilentGap'
<1> DEFINE m == <<b, next[b]>>
           t == Append(send[x], m)
<1>1. TypeOK /\ Addressed /\ NoSilentGap /\ Reach
  BY DEF GapInv, SafeInv
<1>2. /\ x \in bcast[b]
      /\ bcast' = [bcast EXCEPT ![b] = bcast[b] \ {x}]
      /\ next' = [next EXCEPT ![b] = IF bcast[b] = {x} THEN next[b] + 1 ELSE next[b]]
      /\ UNCHANGED <<serve, run, conns>>
  BY DEF SendTo
<1>3. /\ bcast'[b] = bcast[b] \ {x}
      /\ next'[b] = IF bcast[b] = {x} THEN next[b] + 1 ELSE next[b]
      /\ \A d \in Client : d # b => bcast'[d] = bcast[d] /\ next'[d] = next[d]
      /\ next[b] \in Nat
  BY <1>1, <1>2 DEF TypeOK
<1>4. \/ /\ send' = [send EXCEPT ![x] = t] /\ kicks' = kicks
      \/ /\ send' = send /\ kicks' = [kicks EXCEPT ![x] = kicks[x] + 1]
  BY DEF SendTo, Deliver
<1>5. /\ send[x] \in Seq(Message) /\ Len(send[x]) \in Nat /\ m \in Message /\ m[1] = b /\ m[2] = next[b]
  BY <1>1, <1>3, ChannelTypes DEF Message
<1>6. Len(t) = Len(send[x]) + 1 /\ t[Len(send[x]) + 1] = m
      /\ \A i \in 1..Len(send[x]) : t[i] = send[x][i]
  BY <1>5
<1>7. \A c \in Client : c # x => send'[c] = send[c] /\ kicks'[c] = kicks[c]
  BY <1>1, <1>4 DEF TypeOK
<1>8. \/ send'[x] = t /\ kicks'[x] = kicks[x]
      \/ send'[x] = send[x] /\ kicks'[x] # 0
  <2>1. kicks[x] \in Nat /\ kicks \in [Client -> Nat] /\ send \in [Client -> Seq(Message)]
    BY <1>1 DEF TypeOK
  <2> HIDE DEF t
  <2> QED
    BY <1>4, <2>1
<1> HIDE DEF m
<1>9. Addressed'
  <2>1. serve[x] # "register" /\ run # <<"register", x>>
    BY <1>1, <1>2 DEF Reach
  <2>2. \A c \in Client : \A d \in bcast'[c] : Owner[d] = Owner[c]
    BY <1>1, <1>3 DEF Addressed
  <2>3. ASSUME NEW c \in Client, NEW i \in 1..Len(send'[c])
        PROVE  Owner[send'[c][i][1]] = Owner[c]
    <3>1. CASE send'[c] = send[c]
      BY <1>1, <2>3, <3>1 DEF Addressed
    <3>2. CASE c = x /\ send'[c] = t
      <4>1. Owner[x] = Owner[b]
        BY <1>1, <1>2 DEF Addressed
      <4>2. i \in 1..Len(send[x]) \/ i = Len(send[x]) + 1
        BY <1>5, <1>6, <2>3, <3>2
      <4> QED
        BY <1>1, <1>5, <1>6, <3>2, <4>1, <4>2 DEF Addressed
    <3> QED
      BY <1>7, <1>8, <3>1, <3>2
  <2>4. \A c \in Client : (serve'[c] = "register" \/ run' = <<"register", c>>) => send'[c] = <<>>
    BY <1>1, <1>2, <1>7, <2>1 DEF Addressed
  <2> QED
    BY <2>2, <2>3, <2>4 DEF Addressed
<1>10. \A d, c \in Client : ~(d = b /\ c = x) => Latest(d, c)' = Latest(d, c)
  <2> TAKE d, c \in Client
  <2>1. CASE d # b
    BY <1>3, <2>1 DEF Latest
  <2>2. CASE d = b /\ c # x
    <3>1. CASE bcast[b] = {x}
      BY <1>3, <2>2, <3>1 DEF Latest
    <3>2. CASE bcast[b] # {x}
      BY <1>2, <1>3, <2>2, <3>2 DEF Latest
    <3> QED
      BY <3>1, <3>2
  <2> QED
    BY <2>1, <2>2
<1>11. Latest(b, x)' = next[b] /\ Latest(b, x) = next[b] - 1
  BY <1>2, <1>3 DEF Latest
<1>12. NoSilentGap'
  <2> SUFFICES ASSUME NEW c \in conns, NEW d \in Client, Quiet(c)',
                      NEW i \in 1..Len(send'[c]), send'[c][i][1] = d
               PROVE  send'[c][i][2] + Cardinality(Behind(d, c, i)') = Latest(d, c)'
    BY <1>2 DEF NoSilentGap, Quiet
  <2>1. c \in Client
    BY <1>1 DEF TypeOK
  <2>2. CASE c # x
    <3>1. send'[c] = send[c] /\ kicks'[c] = kicks[c] /\ run' = run
      BY <1>2, <1>7, <2>1, <2>2
    <3>2. send[c][i][2] + Cardinality(Behind(d, c, i)) = Latest(d, c)
      BY <1>1, <3>1 DEF NoSilentGap, Quiet
    <3>3. Behind(d, c, i)' = Behind(d, c, i)
      BY <3>1 DEF Behind
    <3> QED
      BY <1>10, <2>1, <2>2, <3>1, <3>2, <3>3
  <2>3. CASE c = x
    <3>1. send'[x] = t /\ kicks'[x] = kicks[x] /\ run' = run
      BY <1>2, <1>8, <2>3 DEF Quiet
    <3>2. Quiet(x)
      BY <2>3, <3>1 DEF Quiet
    <3> DEFINE B == BehindIn(send[x], i, d)
               C == BehindIn(t, i, d)
    <3>3. Behind(d, c, i)' = C /\ Behind(d, x, i) = B
      BY <2>3, <3>1 DEF Behind, BehindIn
    <3>4. CASE i = Len(send[x]) + 1
      <4>1. d = b /\ t[i] = m
        BY <1>5, <1>6, <2>3, <3>1, <3>4
      <4>2. Cardinality(C) = 0
        BY <1>5, <3>4, LastHasNone
      <4> HIDE DEF C, t
      <4>3. send'[c][i][2] = next[b]
        BY <1>5, <2>3, <3>1, <4>1
      <4> QED
        BY <1>3, <1>11, <2>3, <3>3, <4>1, <4>2, <4>3
    <3>5. CASE i \in 1..Len(send[x])
      <4>1. t[i] = send[x][i] /\ send[x][i][1] = d
        BY <1>6, <2>3, <3>1, <3>5
      <4>2. send[x][i][2] + Cardinality(B) = Latest(d, x)
        BY <1>1, <2>3, <3>2, <3>3, <3>5, <4>1 DEF NoSilentGap, Quiet
      <4>3. send[x][i][2] \in Nat
        BY <1>1, <3>5, ChannelTypes DEF Message
      <4>4. /\ Cardinality(B) \in Nat
            /\ m[1] = d => Cardinality(C) = Cardinality(B) + 1
            /\ m[1] # d => C = B
        <5>1. send[x] \in Seq(Message) /\ m \in Message
          BY <1>5
        <5> QED
          BY <3>5, <5>1, BehindAppend, ZenonT(60)
      <4> HIDE DEF B, C, t
      <4>5. CASE d = b
        <5>1. Cardinality(C) = Cardinality(B) + 1
          BY <1>5, <4>4, <4>5
        <5>2. send[x][i][2] + Cardinality(B) = next[b] - 1
          BY <1>11, <4>2, <4>5
        <5>3. send[x][i][2] + Cardinality(C) = next[b]
          <6> DEFINE p == send[x][i][2]
                     k == Cardinality(B)
                     l == Cardinality(C)
                     last == next[b]
          <6>1. p \in Nat /\ k \in Nat /\ last \in Nat
            BY <1>3, <4>3, <4>4
          <6>2. l = k + 1 /\ p + k = last - 1
            BY <5>1, <5>2
          <6> HIDE DEF p, k, l, last
          <6>3. p + l = last
            BY <6>1, <6>2
          <6> QED
            BY <6>3 DEF p, l, last
        <5>4. send'[c][i][2] = send[x][i][2]
          BY <2>3, <3>1, <4>1
        <5> QED
          BY <1>11, <2>3, <3>3, <4>5, <5>3, <5>4
      <4>6. CASE d # b
        BY <1>5, <1>10, <2>3, <3>1, <3>3, <4>1, <4>2, <4>4, <4>6
      <4> QED
        BY <4>5, <4>6
    <3>6. i \in 1..Len(send[x]) \/ i = Len(send[x]) + 1
      BY <1>5, <1>6, <2>3, <3>1
    <3> QED
      BY <3>4, <3>5, <3>6
  <2> QED
    BY <2>2, <2>3
<1> QED
  BY <1>9, <1>12

\* Every step keeps the messages of a connected client without a gap.
LEMMA GapStep == GapInv /\ [Next]_vars => GapInv'
<1> SUFFICES ASSUME GapInv, [Next]_vars PROVE GapInv'
  OBVIOUS
<1>1. SafeInv'
  BY TypeStep, ReachStep DEF GapInv, SafeInv
<1>2. CASE UNCHANGED vars
  <2>1. Addressed'
    BY <1>2 DEF vars, GapInv, Addressed
  <2>2. NoSilentGap'
    <3>1. UNCHANGED <<send, next, bcast, run, conns, kicks>>
      BY <1>2 DEF vars
    <3> QED
      BY <3>1, QuietStep DEF Quiet
  <2> QED
    BY <1>1, <2>1, <2>2 DEF GapInv
<1>3. CASE Next
  <2>1. Addressed' /\ NoSilentGap'
    BY <1>3, GapOthers, GapWriter, GapBroadcast, GapSend DEF Next, Run, Serve, WritePump
  <2> QED
    BY <1>1, <2>1 DEF GapInv
<1> QED
  BY <1>2, <1>3

\* What waits in the channel of a client that stays connected are the latest
\* notifications of each handler in order, none missing between two: a full
\* channel makes BroadcastToUser disconnect the client instead of dropping one.
THEOREM NeverAGap == Spec => []NoSilentGap
<1>1. Init => GapInv
  <2> SUFFICES ASSUME Init PROVE GapInv
    OBVIOUS
  <2>1. SafeInv
    BY SafeInit
  <2>2. Addressed
    BY DEF Init, Addressed, Idle
  <2>3. NoSilentGap
    BY DEF Init, NoSilentGap
  <2> QED
    BY <2>1, <2>2, <2>3 DEF GapInv
<1>2. GapInv /\ [Next]_vars => GapInv'
  BY GapStep
<1>3. GapInv => NoSilentGap
  BY DEF GapInv
<1> QED
  BY <1>1, <1>2, <1>3, PTL DEF Spec
=============================================================================

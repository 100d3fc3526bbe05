---------------------------- MODULE AccountsProofs ----------------------------
(***************************************************************************)
(* Proofs about Accounts, for any replicas, handlers, names and bounds: a  *)
(* repair never changes an account, a registration that raced with nothing *)
(* creates what it asked for, client commands never stop the log, and the  *)
(* reconciler's cursor passes no record of an account it never had.        *)
(***************************************************************************)
EXTENDS Accounts, TLAPS, FiniteSetTheorems

-----------------------------------------------------------------------------
(* Types.                                                                  *)

CheckedOp == [pc : {"checked"}, at : Replica, cmd : Command]
WaitOp == [pc : {"wait"}, at : Replica, cmd : Command, idx : Nat]
CreatedOp == [pc : {"created"}, at : Replica, asked : Row, row : Row]
StampedOp == [pc : {"stamped"}, at : Replica, row : Row, ts : Nat]
OpState == {Idle} \cup CheckedOp \cup WaitOp \cup CreatedOp \cup StampedOp
ScanState == {NoScan} \cup [peer : Replica, logs : Seq(Record), idx : Nat, max : Nat]

\* A handler that changes a user found it, and users are never removed.
TargetsExist ==
    \A h \in Handler :
        (op[h].pc = "checked" /\ op[h].cmd.op \in {"profile", "password"}) =>
            users[op[h].at][op[h].cmd.id] # NoUser

\* A scan that waits for a repair still has the record it is about.
RepairsHaveRecord ==
    \A r \in Replica : (scan[r] # NoScan /\ scan[r].idx > 0) => scan[r].logs # <<>>

TypeInv ==
    /\ leader \in Replica
    /\ users \in [Replica -> Table]
    /\ known \in [Replica -> SUBSET (Row \cup {NoUser})]
    /\ queue \in [Replica -> Seq(Command)]
    /\ committed \in Nat
    /\ failed \in [Replica -> BOOLEAN]
    /\ op \in [Handler -> OpState]
    /\ audit \in [Replica -> Seq(Record)]
    /\ since \in [Replica -> [Replica -> Nat]]
    /\ scan \in [Replica -> ScanState]
    /\ requests \in Nat /\ locals \in Nat /\ elections \in Nat /\ now \in Nat
    /\ raced \in BOOLEAN /\ refused \in BOOLEAN
    /\ TargetsExist
    /\ RepairsHaveRecord

-----------------------------------------------------------------------------
(* Registrations.                                                          *)

NameFree(d, row) == ByName(d, row.name) = {} /\ ByEmail(d, row.email) = {}

\* The account that was asked for, or a user who has another name by now.
Settled(d, row) ==
    \/ d[IdOf[row.name]] = row
    \/ d[IdOf[row.name]] # NoUser /\ d[IdOf[row.name]].name # row.name

AloneInv ==
    ~raced => \A h \in Handler :
        /\ op[h] # Idle => \A g \in Handler : op[g] # Idle => g = h
        /\ op[h].pc = "checked" =>
            /\ queue[op[h].at] = <<>>
            /\ op[h].cmd.op = "create" => NameFree(users[op[h].at], op[h].cmd.row)
        /\ (op[h].pc = "wait" /\ op[h].cmd.op = "create") =>
            /\ op[h].idx = committed
            /\ \/ queue[op[h].at] = <<op[h].cmd>> /\ NameFree(users[op[h].at], op[h].cmd.row)
               \/ queue[op[h].at] = <<>> /\ Settled(users[op[h].at], op[h].cmd.row)

-----------------------------------------------------------------------------
(* The cursor.                                                             *)

KnownInv == \A r \in Replica : \A i \in Id : users[r][i] \in known[r]

\* A cursor is where it started, or a record of that second or a later one is there.
Anchored(p, t) == t = 0 \/ \E j \in 1..Len(audit[p]) : audit[p][j].ts >= t

AnchorInv ==
    /\ \A r, p \in Replica : Anchored(p, since[r][p])
    /\ \A r \in Replica : scan[r] # NoScan => Anchored(scan[r].peer, scan[r].max)

\* A repair under way is in the queue, or applied.
RepairInv ==
    \A r \in Replica : Len(queue[r]) <= committed /\
        ((scan[r] # NoScan /\ scan[r].idx > 0) =>
            /\ scan[r].idx <= committed
            /\ IF Applied(r) >= scan[r].idx THEN Head(scan[r].logs).row \in known[r]
               ELSE queue[r][scan[r].idx - Applied(r)] =
                        [op |-> "ensure", row |-> Head(scan[r].logs).row])

-----------------------------------------------------------------------------
(* What a command does to a table.                                         *)

\* The fields of a command.
LEMMA CommandCases ==
    ASSUME NEW c \in Command
    PROVE  \/ c.op \in {"create", "ensure"} /\ c.row \in Row
           \/ c.op = "profile" /\ c.id \in Id /\ c.name \in Name /\ c.email \in Email
           \/ c.op = "password" /\ c.id \in Id /\ c.hash \in Nat
  BY DEF Command

\* The fields of a row.
LEMMA RowFields ==
    ASSUME NEW row \in Row
    PROVE  /\ row.name \in Name /\ row.email \in Email /\ row.hash \in Nat
           /\ IdOf[row.name] \in Id /\ row # NoUser
  BY AccountsAssumption, UserAssumption DEF Row

\* A new user fills one place of the table.
LEMMA CreateUserIs ==
    ASSUME NEW d \in Table, NEW row \in Row
    PROVE  /\ CreateUser(d, row) \in Table
           /\ CreateUser(d, row)[IdOf[row.name]] = row
           /\ \A i \in Id \ {IdOf[row.name]} : CreateUser(d, row)[i] = d[i]
           /\ \A j \in Id : d[j] # NoUser => CreateUser(d, row)[j] # NoUser
  BY RowFields DEF CreateUser, Table

\* A new profile keeps the user and touches nobody else.
LEMMA UpdateUserIs ==
    ASSUME NEW d \in Table, NEW i \in Id, d[i] # NoUser, NEW n \in Name, NEW e \in Email
    PROVE  /\ UpdateUser(d, i, n, e) \in Table
           /\ UpdateUser(d, i, n, e)[i] # NoUser
           /\ \A j \in Id \ {i} : UpdateUser(d, i, n, e)[j] = d[j]
           /\ \A j \in Id : d[j] # NoUser => UpdateUser(d, i, n, e)[j] # NoUser
  <1> DEFINE row == [d[i] EXCEPT !.name = n, !.email = e]
  <1>1. d[i] \in Row
    BY DEF Table
  <1>2. row \in Row
    BY <1>1 DEF Row
  <1>3. UpdateUser(d, i, n, e) = [d EXCEPT ![i] = row]
    BY DEF UpdateUser, Table
  <1> QED
    BY <1>2, <1>3, RowFields DEF Table

\* So does a new password.
LEMMA UpdatePasswordIs ==
    ASSUME NEW d \in Table, NEW i \in Id, d[i] # NoUser, NEW h \in Nat
    PROVE  /\ UpdatePassword(d, i, h) \in Table
           /\ UpdatePassword(d, i, h)[i] # NoUser
           /\ \A j \in Id \ {i} : UpdatePassword(d, i, h)[j] = d[j]
           /\ \A j \in Id : d[j] # NoUser => UpdatePassword(d, i, h)[j] # NoUser
  <1> DEFINE row == [d[i] EXCEPT !.hash = h]
  <1>1. d[i] \in Row
    BY DEF Table
  <1>2. row \in Row
    BY <1>1 DEF Row
  <1>3. UpdatePassword(d, i, h) = [d EXCEPT ![i] = row]
    BY DEF UpdatePassword, Table
  <1> QED
    BY <1>2, <1>3, RowFields DEF Table

\* Applying a command leaves a table, and every user in it.
LEMMA ApplyIs ==
    ASSUME NEW d \in Table, NEW c \in Command
    PROVE  /\ Apply(d, c).d \in Table
           /\ Apply(d, c).err \in {"none", "ignorable", "fatal"}
           /\ \A i \in Id : d[i] # NoUser => Apply(d, c).d[i] # NoUser
           /\ Apply(d, c).err = "fatal" => \/ c.op = "ensure" /\ InsertConflicts(d, c.row)
                                           \/ c.op = "profile" /\ d[c.id] = NoUser
  <1>1. CASE c.op = "create" /\ c.row \in Row
    BY <1>1, CreateUserIs, RowFields DEF Apply, ApplyCreate, Ok, Ignorable
  <1>2. CASE c.op = "ensure" /\ c.row \in Row
    BY <1>2, CreateUserIs, RowFields DEF Apply, EnsureUser, Ok, Fatal
  <1>3. CASE c.op = "profile" /\ c.id \in Id /\ c.name \in Name /\ c.email \in Email
    BY <1>3, UpdateUserIs DEF Apply, ApplyProfile, Ok, Ignorable, Fatal
  <1>4. CASE c.op = "password" /\ c.id \in Id /\ c.hash \in Nat
    BY <1>4, UpdatePasswordIs DEF Apply, ApplyPassword, Ok
  <1> QED
    BY <1>1, <1>2, <1>3, <1>4, CommandCases

\* A repair that does not fail leaves its row in the table and keeps all others.
LEMMA EnsureIs ==
    ASSUME NEW d \in Table, NEW row \in Row
    PROVE  /\ EnsureUser(d, row).err # "fatal" => \E i \in Id : EnsureUser(d, row).d[i] = row
           /\ \A i \in Id : d[i] # NoUser => EnsureUser(d, row).d[i] = d[i]
  BY CreateUserIs, RowFields DEF EnsureUser, Ok, Fatal, InsertConflicts

\* A registration with a free name and a free email creates its account, or
\* finds its identifier taken by another name.
LEMMA CreateSettles ==
    ASSUME NEW d \in Table, NEW row \in Row, NameFree(d, row)
    PROVE  ApplyCreate(d, row).err # "fatal" /\ Settled(ApplyCreate(d, row).d, row)
  <1>1. CASE d[IdOf[row.name]] # NoUser
    <2>1. d[IdOf[row.name]].name # row.name
      BY <1>1, RowFields DEF NameFree, ByName
    <2> QED
      BY <1>1, <2>1 DEF ApplyCreate, Ok, Ignorable, Settled, InsertConflicts, NameFree
  <1>2. CASE d[IdOf[row.name]] = NoUser
    BY <1>2, CreateUserIs DEF ApplyCreate, Ok, Settled, InsertConflicts, NameFree
  <1> QED
    BY <1>1, <1>2

-----------------------------------------------------------------------------
(* Types.                                                                  *)

\* What a handler holds, by where it is.
LEMMA OpCases ==
    ASSUME TypeInv, NEW h \in Handler
    PROVE  /\ op[h].pc = "checked" => op[h] \in CheckedOp
           /\ op[h].pc = "wait" => op[h] \in WaitOp
           /\ op[h].pc = "created" => op[h] \in CreatedOp
           /\ op[h].pc = "stamped" => op[h] \in StampedOp
           /\ op[h].pc \notin {"checked", "wait", "created", "stamped"} => op[h] = Idle
           /\ op[h] = Idle <=> op[h].pc = "idle"
  BY DEF TypeInv, OpState, CheckedOp, WaitOp, CreatedOp, StampedOp, Idle

\* The element of a sequence of records, its first one and the rest.
LEMMA RecordsAre ==
    ASSUME NEW s \in Seq(Record)
    PROVE  /\ Len(s) \in Nat
           /\ \A k \in 1..Len(s) : s[k] \in Record /\ s[k].row \in Row /\ s[k].ts \in Nat
           /\ s # <<>> => /\ Head(s) \in Record /\ Head(s).row \in Row /\ Head(s) = s[1]
                          /\ 1 \in 1..Len(s)
                          /\ Tail(s) \in Seq(Record) /\ Len(Tail(s)) = Len(s) - 1
                          /\ \A k \in 1..(Len(s) - 1) : Tail(s)[k] = s[k + 1]
  <1>1. \A k \in 1..Len(s) : s[k] \in Record
    OBVIOUS
  <1>2. \A x \in Record : x.row \in Row /\ x.ts \in Nat
    BY DEF Record
  <1>3. s # <<>> => /\ Head(s) \in Record /\ Head(s) = s[1]
                    /\ 1 \in 1..Len(s)
                    /\ Tail(s) \in Seq(Record) /\ Len(Tail(s)) = Len(s) - 1
                    /\ \A k \in 1..(Len(s) - 1) : Tail(s)[k] = s[k + 1]
    OBVIOUS
  <1> QED
    BY <1>1, <1>2, <1>3

\* What a scan under way holds.
LEMMA ScanCases ==
    ASSUME TypeInv, NEW r \in Replica, scan[r] # NoScan
    PROVE  /\ scan[r].peer \in Replica /\ scan[r].logs \in Seq(Record)
           /\ scan[r].idx \in Nat /\ scan[r].max \in Nat
           /\ scan[r] = [peer |-> scan[r].peer, logs |-> scan[r].logs,
                         idx |-> scan[r].idx, max |-> scan[r].max]
  BY DEF TypeInv, ScanState

\* A scan that goes on with the logs l and the repair n.
ScanWith(r, l, n) == [peer |-> scan[r].peer, logs |-> l, idx |-> n, max |-> scan[r].max]

\* A scan changes to one of its type.
LEMMA ScanSet ==
    ASSUME TypeInv, NEW r \in Replica, NEW x \in ScanState,
           x = NoScan \/ x.idx = 0 \/ x.logs # <<>>,
           scan' = [scan EXCEPT ![r] = x]
    PROVE  scan' \in [Replica -> ScanState] /\ RepairsHaveRecord'
  <1>1. \A s \in Replica : scan'[s] = IF s = r THEN x ELSE scan[s]
    BY DEF TypeInv
  <1>2. \A s \in Replica : (scan'[s] # NoScan /\ scan'[s].idx > 0) => scan'[s].logs # <<>>
    BY <1>1 DEF TypeInv, RepairsHaveRecord
  <1>3. scan' \in [Replica -> ScanState]
    BY DEF TypeInv
  <1> QED
    BY <1>2, <1>3 DEF RepairsHaveRecord

\* The same, field by field.
LEMMA ScanContinues ==
    ASSUME TypeInv, NEW r \in Replica, scan[r] # NoScan,
           NEW l \in Seq(Record), NEW n \in Nat, n = 0 \/ l # <<>>,
           scan' = [scan EXCEPT ![r] = ScanWith(r, l, n)]
    PROVE  scan' \in [Replica -> ScanState] /\ RepairsHaveRecord'
  <1> DEFINE x == ScanWith(r, l, n)
  <1>1. x \in ScanState /\ x.idx = n /\ x.logs = l
    BY ScanCases DEF ScanWith, ScanState
  <1> HIDE DEF x
  <1>2. scan' = [scan EXCEPT ![r] = x]
    BY DEF x
  <1> QED
    BY <1>1, <1>2, ScanSet

\* How the actions write it.
LEMMA ScanExcept ==
    ASSUME TypeInv, NEW r \in Replica, scan[r] # NoScan, NEW l, NEW n
    PROVE  /\ [scan EXCEPT ![r].logs = l] = [scan EXCEPT ![r] = ScanWith(r, l, scan[r].idx)]
           /\ [scan EXCEPT ![r].idx = n] = [scan EXCEPT ![r] = ScanWith(r, scan[r].logs, n)]
           /\ [scan EXCEPT ![r].idx = 0, ![r].logs = l] =
                 [scan EXCEPT ![r] = ScanWith(r, l, 0)]
  <1>1. scan[r] = [peer |-> scan[r].peer, logs |-> scan[r].logs,
                   idx |-> scan[r].idx, max |-> scan[r].max]
    BY ScanCases
  <1>2. [scan[r] EXCEPT !.logs = l] = ScanWith(r, l, scan[r].idx)
    BY <1>1 DEF ScanWith
  <1>3. [scan[r] EXCEPT !.idx = n] = ScanWith(r, scan[r].logs, n)
    BY <1>1 DEF ScanWith
  <1>4. [scan[r] EXCEPT !.idx = 0, !.logs = l] = ScanWith(r, l, 0)
    <2>1. [scan[r] EXCEPT !.idx = 0, !.logs = l] = [[scan[r] EXCEPT !.idx = 0] EXCEPT !.logs = l]
      OBVIOUS
    <2>2. [ScanWith(r, scan[r].logs, 0) EXCEPT !.logs = l] = ScanWith(r, l, 0)
      BY DEF ScanWith
    <2>3. [scan[r] EXCEPT !.idx = 0] = ScanWith(r, scan[r].logs, 0)
      BY <1>1 DEF ScanWith
    <2> QED
      BY <2>1, <2>2, <2>3
  <1>5. [scan EXCEPT ![r].idx = 0, ![r].logs = l] =
          [scan EXCEPT ![r] = [scan[r] EXCEPT !.idx = 0, !.logs = l]]
    BY DEF TypeInv
  <1> QED
    BY <1>2, <1>3, <1>4, <1>5

\* The record a scan is at, and the rest.
LEMMA ScanHead ==
    ASSUME TypeInv, NEW r \in Replica, scan[r] # NoScan, scan[r].logs # <<>>
    PROVE  /\ Head(scan[r].logs) \in Record /\ Head(scan[r].logs).row \in Row
           /\ Tail(scan[r].logs) \in Seq(Record)
  BY ScanCases, RecordsAre

\* A scan leaves the record it was at behind.
LEMMA ScanDrops ==
    ASSUME TypeInv, NEW r \in Replica, scan[r] # NoScan, scan[r].logs # <<>>,
           scan' = [scan EXCEPT ![r] = ScanWith(r, Tail(scan[r].logs), 0)]
    PROVE  scan' \in [Replica -> ScanState] /\ RepairsHaveRecord'
  <1> DEFINE x == ScanWith(r, Tail(scan[r].logs), 0)
  <1>1. x \in ScanState /\ x.idx = 0
    BY ScanCases, ScanHead DEF ScanWith, ScanState
  <1> HIDE DEF x
  <1>2. scan' = [scan EXCEPT ![r] = x]
    BY DEF x
  <1> QED
    BY <1>1, <1>2, ScanSet

\* Init establishes the types.
LEMMA TypeInit == Init => TypeInv
  <1> SUFFICES ASSUME Init PROVE TypeInv
    OBVIOUS
  <1>1. PICK first \in Replica, n \in Name, e \in Email :
          LET row == [name |-> n, email |-> e, hash |-> 0]
          IN  /\ leader \in Replica
              /\ users = [r \in Replica |-> [i \in Id |-> IF i = IdOf[n] THEN row ELSE NoUser]]
              /\ known = [r \in Replica |-> {row, NoUser}]
              /\ queue = [r \in Replica |-> <<>>]
              /\ committed = 0
              /\ failed = [r \in Replica |-> FALSE]
              /\ op = [h \in Handler |-> Idle]
              /\ audit = [r \in Replica |->
                            IF r = first THEN <<[row |-> row, ts |-> 0]>> ELSE <<>>]
              /\ since = [r \in Replica |-> [p \in Replica |-> 0]]
              /\ scan = [r \in Replica |-> NoScan]
              /\ requests = 0 /\ locals = 0 /\ elections = 0 /\ now = 0
              /\ raced = FALSE /\ refused = FALSE
    BY DEF Init
  <1> DEFINE row == [name |-> n, email |-> e, hash |-> 0]
  <1>2. row \in Row
    BY DEF Row
  <1>3. [row |-> row, ts |-> 0] \in Record
    BY <1>2 DEF Record
  <1> HIDE DEF row
  <1>4. users \in [Replica -> Table] /\ known \in [Replica -> SUBSET (Row \cup {NoUser})]
    BY <1>1, <1>2 DEF Table, row
  <1>5. audit \in [Replica -> Seq(Record)]
    BY <1>1, <1>3 DEF row
  <1>6. TargetsExist
    BY <1>1 DEF TargetsExist, Idle
  <1>10. RepairsHaveRecord
    BY <1>1 DEF RepairsHaveRecord
  <1>7. op \in [Handler -> OpState] /\ scan \in [Replica -> ScanState]
    BY <1>1 DEF OpState, ScanState
  <1>8. queue \in [Replica -> Seq(Command)] /\ since \in [Replica -> [Replica -> Nat]]
    BY <1>1
  <1>9. failed \in [Replica -> BOOLEAN] /\ raced \in BOOLEAN /\ refused \in BOOLEAN
    BY <1>1
  <1> QED
    BY <1>1, <1>4, <1>5, <1>6, <1>7, <1>8, <1>9, <1>10 DEF TypeInv

\* While nothing but the tables changes, and no user leaves them, the types stay.
LEMMA TablesGrow ==
    ASSUME TypeInv, NEW r \in Replica, NEW d \in Table,
           \A i \in Id : users[r][i] # NoUser => d[i] # NoUser,
           users' = [users EXCEPT ![r] = d], Remember(r)
    PROVE  /\ users' \in [Replica -> Table]
           /\ known' \in [Replica -> SUBSET (Row \cup {NoUser})]
           /\ \A s \in Replica : \A i \in Id : users[s][i] # NoUser => users'[s][i] # NoUser
  <1>1. users' \in [Replica -> Table]
    BY DEF TypeInv
  <1>2. {users'[r][i] : i \in Id} \subseteq Row \cup {NoUser}
    BY <1>1 DEF Table
  <1> QED
    BY <1>1, <1>2 DEF TypeInv, Remember

\* A step of the handlers.
LEMMA TypeHandler ==
    ASSUME TypeInv, NEW h \in Handler, Handle(h) \/ Finish(h)
    PROVE  TypeInv'
  <1> USE DEF TypeInv
  <1>1. ASSUME NEW r \in Replica, NEW c \in Command, Accepted(h, r, c),
               c.op \in {"profile", "password"} => users[r][c.id] # NoUser
        PROVE  TypeInv'
    <2>1. [pc |-> "checked", at |-> r, cmd |-> c] \in OpState
      BY DEF OpState, CheckedOp
    <2>2. op' \in [Handler -> OpState]
      BY <1>1, <2>1 DEF Accepted
    <2>3. TargetsExist'
      BY <1>1 DEF Accepted, TargetsExist
    <2> QED
      BY <1>1, <2>2, <2>3 DEF Accepted, RepairsHaveRecord
  <1>2. CASE Handle(h)
    <2>1. PICK r \in Replica :
            \/ \E n \in Name, e \in Email :
                \/ HandleRegister(h, r, n, e)
                \/ \E i \in Id : HandleUpdateProfile(h, r, i, n, e)
            \/ \E i \in Id : HandleUpdatePassword(h, r, i)
      BY <1>2 DEF Handle
    <2>2. ASSUME NEW n \in Name, NEW e \in Email, HandleRegister(h, r, n, e)
          PROVE  TypeInv'
      <3> DEFINE c == [op |-> "create", row |-> [name |-> n, email |-> e, hash |-> requests + 1]]
      <3>1. c \in Command /\ c.op = "create"
        BY DEF Command, Row
      <3>2. Accepted(h, r, c)
        BY <2>2 DEF HandleRegister
      <3> QED
        BY <1>1, <3>1, <3>2
    <2>3. ASSUME NEW n \in Name, NEW e \in Email, NEW i \in Id, HandleUpdateProfile(h, r, i, n, e)
          PROVE  TypeInv'
      <3> DEFINE c == [op |-> "profile", id |-> i, name |-> n, email |-> e]
      <3>1. c \in Command /\ c.id = i
        BY DEF Command
      <3>2. Accepted(h, r, c) /\ users[r][i] # NoUser
        BY <2>3 DEF HandleUpdateProfile
      <3> QED
        BY <1>1, <3>1, <3>2
    <2>4. ASSUME NEW i \in Id, HandleUpdatePassword(h, r, i)
          PROVE  TypeInv'
      <3> DEFINE c == [op |-> "password", id |-> i, hash |-> requests + 1]
      <3>1. c \in Command /\ c.id = i
        BY DEF Command
      <3>2. Accepted(h, r, c) /\ users[r][i] # NoUser
        BY <2>4 DEF HandleUpdatePassword
      <3> QED
        BY <1>1, <3>1, <3>2
    <2> QED
      BY <2>1, <2>2, <2>3, <2>4
  <1>3. CASE Propose(h)
    <2>1. op[h] \in CheckedOp
      BY <1>3, OpCases DEF Propose
    <2>2. op' \in [Handler -> OpState]
      <3>1. [pc |-> "wait", at |-> op[h].at, cmd |-> op[h].cmd, idx |-> committed + 1] \in WaitOp
        BY <2>1 DEF CheckedOp, WaitOp
      <3> QED
        BY <1>3, <3>1 DEF Propose, OpState
    <2>3. queue' \in [Replica -> Seq(Command)] /\ committed' \in Nat
      BY <1>3, <2>1, SMTT(40) DEF Propose, Commit, CheckedOp
    <2>4. TargetsExist'
      BY <1>3 DEF Propose, TargetsExist
    <2> QED
      BY <1>3, <2>2, <2>3, <2>4 DEF Propose, RepairsHaveRecord
  <1>4. CASE ProposeFails(h)
    BY <1>4 DEF ProposeFails, OpState, TargetsExist, RepairsHaveRecord, Idle
  <1>5. CASE Return(h)
    <2> DEFINE r == op[h].at
               c == op[h].cmd
               found == ByName(users[r], c.row.name)
               row == IF found = {} THEN c.row ELSE users[r][CHOOSE i \in found : TRUE]
               next == IF c.op # "create" THEN Idle
                       ELSE [pc |-> "created", at |-> r, asked |-> c.row, row |-> row]
    <2>1. op[h] \in WaitOp
      BY <1>5, OpCases DEF Return
    <2>2. r \in Replica /\ c \in Command
      BY <2>1 DEF WaitOp
    <2>3. op' = [op EXCEPT ![h] = next]
      BY <1>5 DEF Return
    <2>4. ASSUME c.op = "create" PROVE c.row \in Row /\ row \in Row
      <3>1. c.row \in Row
        BY <2>2, <2>4, CommandCases
      <3>2. CASE found # {}
        <4>1. (CHOOSE i \in found : TRUE) \in found
          BY <3>2
        <4> QED
          BY <4>1, <3>1, <2>2, ZenonT(60) DEF ByName, Table
      <3> QED
        BY <3>1, <3>2
    <2>5. next \in OpState /\ next.pc # "checked"
      <3>1. CASE c.op # "create"
        BY <3>1 DEF OpState, Idle
      <3>2. CASE c.op = "create"
        <4> HIDE DEF row
        <4> QED
          BY <3>2, <2>2, <2>4 DEF OpState, CreatedOp
      <3> QED
        BY <3>1, <3>2
    <2> HIDE DEF next
    <2>6. op' \in [Handler -> OpState]
      BY <2>3, <2>5
    <2>7. TargetsExist'
      BY <1>5, <2>3, <2>5 DEF Return, TargetsExist
    <2> QED
      BY <1>5, <2>6, <2>7 DEF Return, RepairsHaveRecord
  <1>6. CASE Fallback(h)
    <2> DEFINE r == op[h].at
               c == op[h].cmd
    <2>1. op[h] \in CheckedOp
      BY <1>6, OpCases DEF Fallback
    <2>2. r \in Replica /\ c \in Command
      BY <2>1 DEF CheckedOp
    <2>3. users[r] \in Table
      BY <2>2
    <2>4. c.op \in {"profile", "password"} => users[r][c.id] # NoUser
      BY <1>6 DEF Fallback, TargetsExist
    <2>5. PICK d \in Table : /\ users' = [users EXCEPT ![r] = d]
                             /\ \A i \in Id : users[r][i] # NoUser => d[i] # NoUser
      <3>1. CASE c.op = "create"
        <4>1. c.row \in Row
          BY <2>2, <3>1, CommandCases
        <4>2. users' = [users EXCEPT ![r] = CreateUser(@, c.row)] \/ users' = [users EXCEPT ![r] = @]
          BY <1>6, <3>1 DEF Fallback
        <4>3. CASE users' = [users EXCEPT ![r] = CreateUser(@, c.row)]
          <5>1. users' = [users EXCEPT ![r] = CreateUser(users[r], c.row)]
            BY <4>3
          <5>2. \A i \in Id : users[r][i] # NoUser => CreateUser(users[r], c.row)[i] # NoUser
            BY <2>3, <4>1, CreateUserIs
          <5>3. CreateUser(users[r], c.row) \in Table
            BY <2>3, <4>1, CreateUserIs
          <5> QED
            BY <5>1, <5>2, <5>3
        <4>4. CASE users' = [users EXCEPT ![r] = @]
          BY <2>3, <4>4
        <4> QED
          BY <4>2, <4>3, <4>4
      <3>2. CASE c.op = "profile"
        <4>1. c.id \in Id /\ c.name \in Name /\ c.email \in Email
          BY <2>2, <3>2, CommandCases
        <4>2. users' = [users EXCEPT ![r] =
                    IF UpdateConflicts(@, c.id, c.name, c.email) THEN @
                    ELSE UpdateUser(@, c.id, c.name, c.email)]
          BY <1>6, <3>2 DEF Fallback
        <4>3. /\ UpdateUser(users[r], c.id, c.name, c.email) \in Table
              /\ \A i \in Id : users[r][i] # NoUser =>
                    UpdateUser(users[r], c.id, c.name, c.email)[i] # NoUser
          BY <2>3, <2>4, <3>2, <4>1, UpdateUserIs
        <4>4. CASE UpdateConflicts(users[r], c.id, c.name, c.email)
          <5>1. users' = [users EXCEPT ![r] = users[r]]
            BY <4>2, <4>4
          <5> QED
            BY <2>3, <5>1
        <4>5. CASE ~UpdateConflicts(users[r], c.id, c.name, c.email)
          <5>1. users' = [users EXCEPT ![r] = UpdateUser(users[r], c.id, c.name, c.email)]
            BY <4>2, <4>5
          <5> QED
            BY <4>3, <5>1
        <4> QED
          BY <4>4, <4>5
      <3>3. CASE c.op = "password"
        <4>1. c.id \in Id /\ c.hash \in Nat
          BY <2>2, <3>3, CommandCases
        <4>2. users' = [users EXCEPT ![r] = UpdatePassword(@, c.id, c.hash)]
          BY <1>6, <3>3 DEF Fallback
        <4>3. /\ UpdatePassword(users[r], c.id, c.hash) \in Table
              /\ \A i \in Id : users[r][i] # NoUser =>
                    UpdatePassword(users[r], c.id, c.hash)[i] # NoUser
          BY <2>3, <2>4, <3>3, <4>1, UpdatePasswordIs, ZenonT(60)
        <4>4. users' = [users EXCEPT ![r] = UpdatePassword(users[r], c.id, c.hash)]
          BY <4>2
        <4> QED
          BY <4>3, <4>4
      <3> QED
        BY <1>6, <3>1, <3>2, <3>3 DEF Fallback
    <2>6. /\ users' \in [Replica -> Table]
          /\ known' \in [Replica -> SUBSET (Row \cup {NoUser})]
          /\ \A s \in Replica : \A i \in Id : users[s][i] # NoUser => users'[s][i] # NoUser
      BY <1>6, <2>2, <2>5, TablesGrow DEF Fallback
    <2>7. op' \in [Handler -> OpState] /\ \A g \in Handler : op'[g].pc = "checked" => op'[g] = op[g]
      <3>1. CASE op' = [op EXCEPT ![h] = Idle]
        BY <3>1 DEF OpState, Idle
      <3>2. CASE c.op = "create"
                 /\ op' = [op EXCEPT ![h] = [pc |-> "created", at |-> r, asked |-> c.row, row |-> c.row]]
        BY <3>2, <2>2, CommandCases DEF OpState, CreatedOp
      <3> QED
        BY <1>6, <3>1, <3>2 DEF Fallback
    <2>8. TargetsExist'
      <3> SUFFICES ASSUME NEW g \in Handler, op'[g].pc = "checked",
                          op'[g].cmd.op \in {"profile", "password"}
                   PROVE  users'[op'[g].at][op'[g].cmd.id] # NoUser
        BY DEF TargetsExist
      <3>1. op'[g] = op[g] /\ op[g] \in CheckedOp
        BY <2>7, OpCases
      <3>2. op[g].cmd.id \in Id /\ op[g].at \in Replica
        BY <3>1, CommandCases DEF CheckedOp
      <3> QED
        BY <2>6, <3>1, <3>2 DEF TargetsExist
    <2> QED
      BY <1>6, <2>6, <2>7, <2>8 DEF Fallback, RepairsHaveRecord
  <1>7. CASE RecordAudit(h)
    <2>1. op[h] \in CreatedOp
      BY <1>7, OpCases DEF RecordAudit
    <2>2. now' \in Nat
      BY <1>7, AccountsAssumption DEF RecordAudit
    <2>3. [pc |-> "stamped", at |-> op[h].at, row |-> op[h].row, ts |-> now'] \in OpState
      BY <2>1, <2>2 DEF CreatedOp, StampedOp, OpState
    <2>4. op' \in [Handler -> OpState] /\ TargetsExist'
      BY <1>7, <2>3 DEF RecordAudit, TargetsExist
    <2> QED
      BY <1>7, <2>2, <2>4 DEF RecordAudit, RepairsHaveRecord
  <1>8. CASE AppendAudit(h)
    <2>1. op[h] \in StampedOp
      BY <1>8, OpCases DEF AppendAudit
    <2>2. audit' \in [Replica -> Seq(Record)]
      <3> DEFINE rec == [row |-> op[h].row, ts |-> op[h].ts]
      <3>1. audit' = [audit EXCEPT ![op[h].at] = Append(@, rec)]
        BY <1>8 DEF AppendAudit
      <3>2. rec \in Record /\ op[h].at \in Replica
        BY <2>1 DEF StampedOp, Record
      <3> HIDE DEF rec
      <3> QED
        BY <3>1, <3>2
    <2>3. op' \in [Handler -> OpState] /\ TargetsExist'
      BY <1>8 DEF AppendAudit, OpState, TargetsExist, Idle
    <2> QED
      BY <1>8, <2>2, <2>3 DEF AppendAudit, RepairsHaveRecord
  <1> QED
    BY <1>2, <1>3, <1>4, <1>5, <1>6, <1>7, <1>8 DEF Finish

\* A function that never repeats a value takes as many as it has arguments.
LEMMA DistinctValues ==
    ASSUME NEW S, IsFiniteSet(S), NEW n \in Nat, n = Cardinality(S), NEW f \in [1..n -> S],
           \A i \in 1..n : f[i] \notin {f[j] : j \in 1..(i - 1)}
    PROVE  \A x \in S : \E i \in 1..n : f[i] = x
  <1>1. IsFiniteSet(1..n) /\ Cardinality(1..n) = n
    BY FS_Interval
  <1>2. ASSUME NEW i \in 1..n, NEW j \in 1..n, f[i] = f[j] PROVE i = j
    <2>1. CASE i < j
      BY <1>2, <2>1
    <2>2. CASE j < i
      BY <1>2, <2>2
    <2> QED
      BY <2>1, <2>2
  <1>3. f \in Injection(1..n, S)
    BY <1>2 DEF Injection, IsInjective
  <1>4. f \in Surjection(1..n, S)
    BY <1>1, <1>3, FS_Injection
  <1> QED
    BY <1>4 DEF Surjection

\* Every answer of /cluster/local-audit/users consists of records of the table and,
\* if all of them fit, holds every one that is new enough.
LEMMA ListIs ==
    ASSUME TypeInv, NEW p \in Replica, NEW t \in Nat, NEW logs \in ListAuditLogs(p, t)
    PROVE  /\ logs \in Seq(Record)
           /\ \A n \in 1..Len(logs) : \E k \in 1..Len(audit[p]) : logs[n] = audit[p][k]
           /\ Len(audit[p]) <= AuditLimit =>
                \A k \in 1..Len(audit[p]) : audit[p][k].ts >= t =>
                    \E n \in 1..Len(logs) : logs[n] = audit[p][k]
  <1> DEFINE L == Len(audit[p])
             new == {k \in 1..L : audit[p][k].ts >= t}
             m == Min({Cardinality(new), AuditLimit})
             rest(f, i) == new \ {f[j] : j \in 1..(i - 1)}
  <1>1. L \in Nat /\ audit[p] \in Seq(Record)
    BY DEF TypeInv
  <1>2. IsFiniteSet(1..L) /\ Cardinality(1..L) = L
    <2>1. L \in Nat
      BY <1>1
    <2> HIDE DEF L
    <2> QED
      BY <2>1, FS_Interval
  <1>3. IsFiniteSet(new) /\ Cardinality(new) \in Nat /\ Cardinality(new) <= L
    BY <1>1, <1>2, FS_Subset, FS_CardinalityType
  <1>4. AuditLimit \in Nat
    BY AccountsAssumption
  <1>5. m \in Nat /\ (L <= AuditLimit => m = Cardinality(new))
    <2> HIDE DEF new
    <2>1. \E x \in {Cardinality(new), AuditLimit} :
            \A y \in {Cardinality(new), AuditLimit} : x <= y
      BY <1>3, <1>4
    <2>2. m \in {Cardinality(new), AuditLimit} /\ m <= Cardinality(new)
      BY <1>3, <1>4, <2>1 DEF Min
    <2>3. m <= AuditLimit
      BY <1>3, <1>4, <2>1 DEF Min
    <2> HIDE DEF m
    <2> QED
      BY <1>1, <1>3, <1>4, <2>2, <2>3
  <1>6. PICK f \in [1..m -> new] :
          /\ logs = [i \in 1..m |-> audit[p][f[i]]]
          /\ \A i \in 1..m : f[i] \in rest(f, i)
    BY DEF ListAuditLogs
  <1> HIDE DEF m
  <1>7. \A i \in 1..m : f[i] \in 1..L /\ f[i] \notin {f[j] : j \in 1..(i - 1)}
    BY <1>6
  <1> HIDE DEF new
  <1>8. logs \in [1..m -> Record]
    BY <1>1, <1>6, <1>7
  <1>9. logs \in Seq(Record) /\ Len(logs) = m
    BY <1>5, <1>8
  <1>10. ASSUME L <= AuditLimit, NEW k \in 1..L, audit[p][k].ts >= t
         PROVE  \E n \in 1..Len(logs) : logs[n] = audit[p][k]
    <2>1. k \in new
      BY <1>10 DEF new
    <2>2. PICK i \in 1..m : f[i] = k
      BY <1>3, <1>5, <1>7, <1>10, <2>1, DistinctValues
    <2> QED
      BY <1>6, <1>9, <2>2
  <1> QED
    BY <1>6, <1>7, <1>9, <1>10

\* A step of the reconciler.
LEMMA TypeScan ==
    ASSUME TypeInv, NEW r \in Replica, Reconcile(r)
    PROVE  TypeInv'
  <1>0. committed \in Nat /\ committed + 1 \in Nat /\ since \in [Replica -> [Replica -> Nat]]
    BY DEF TypeInv
  <1>a. ASSUME UNCHANGED <<leader, users, known, failed, op, audit, requests, locals,
                           elections, now>>,
               queue' \in [Replica -> Seq(Command)], committed' \in Nat,
               since' \in [Replica -> [Replica -> Nat]],
               raced' \in BOOLEAN, refused' \in BOOLEAN,
               scan' \in [Replica -> ScanState] /\ RepairsHaveRecord'
        PROVE  TypeInv'
    BY <1>a DEF TypeInv, TargetsExist
  <1>b. /\ queue \in [Replica -> Seq(Command)] /\ raced \in BOOLEAN /\ refused \in BOOLEAN
    BY DEF TypeInv
  <1>1. ASSUME NEW p \in Replica, FetchAudit(r, p) PROVE TypeInv'
    <2>1. since[r][p] \in Nat
      BY <1>0
    <2>a. PICK logs \in ListAuditLogs(p, since[r][p]) \ {<<>>} :
            scan' = [scan EXCEPT ![r] = [peer |-> p, logs |-> logs, idx |-> 0, max |-> logs[1].ts]]
      BY <1>1 DEF FetchAudit
    <2> DEFINE x == [peer |-> p, logs |-> logs, idx |-> 0, max |-> logs[1].ts]
    <2>2. logs \in Seq(Record) /\ logs # <<>>
      BY <2>1, <2>a, ListIs
    <2>3. logs[1].ts \in Nat
      BY <2>2, RecordsAre
    <2>4. scan' = [scan EXCEPT ![r] = x]
      BY <2>a
    <2>5. x \in ScanState /\ x.idx = 0
      BY <2>2, <2>3 DEF ScanState
    <2> HIDE DEF x
    <2>6. scan' \in [Replica -> ScanState] /\ RepairsHaveRecord'
      BY <2>4, <2>5, ScanSet
    <2>7. UNCHANGED <<leader, users, known, queue, committed, failed, op, audit, since,
                      requests, locals, elections, now, raced, refused>>
      BY <1>1 DEF FetchAudit
    <2> QED
      BY <1>0, <1>a, <1>b, <2>6, <2>7
  <1>2. CASE SkipRecord(r)
    <2>1. scan[r] # NoScan /\ scan[r].logs # <<>> /\ scan[r].idx = 0
      BY <1>2 DEF SkipRecord
    <2>2. scan' = [scan EXCEPT ![r].logs = Tail(scan[r].logs)]
      BY <1>2 DEF SkipRecord
    <2>3. scan' = [scan EXCEPT ![r] = ScanWith(r, Tail(scan[r].logs), 0)]
      BY <2>1, <2>2, ScanExcept
    <2>4. scan' \in [Replica -> ScanState] /\ RepairsHaveRecord'
      BY <2>1, <2>3, ScanDrops
    <2>5. UNCHANGED <<leader, users, known, queue, committed, failed, op, audit, since,
                      requests, locals, elections, now, raced, refused>>
      BY <1>2 DEF SkipRecord
    <2> QED
      BY <1>0, <1>a, <1>b, <2>4, <2>5
  <1>3. CASE ProposeRepair(r)
    <2>1. scan[r] # NoScan /\ scan[r].logs # <<>> /\ scan[r].idx = 0
      BY <1>3 DEF ProposeRepair
    <2>2. \/ scan' = [scan EXCEPT ![r].idx = committed + 1]
          \/ scan' = [scan EXCEPT ![r].logs = Tail(scan[r].logs)]
      BY <1>3 DEF ProposeRepair
    <2>3. ASSUME scan' = [scan EXCEPT ![r].idx = committed + 1]
          PROVE  scan' \in [Replica -> ScanState] /\ RepairsHaveRecord'
      <3>1. scan' = [scan EXCEPT ![r] = ScanWith(r, scan[r].logs, committed + 1)]
        BY <2>1, <2>3, ScanExcept, ZenonT(60)
      <3> QED
        BY <1>0, <2>1, <3>1, ScanCases, ScanContinues
    <2>4. ASSUME scan' = [scan EXCEPT ![r].logs = Tail(scan[r].logs)]
          PROVE  scan' \in [Replica -> ScanState] /\ RepairsHaveRecord'
      <3>1. scan' = [scan EXCEPT ![r] = ScanWith(r, Tail(scan[r].logs), 0)]
        BY <2>1, <2>4, ScanExcept
      <3> QED
        BY <2>1, <3>1, ScanDrops
    <2>5. scan' \in [Replica -> ScanState] /\ RepairsHaveRecord'
      BY <2>2, <2>3, <2>4
    <2>6. queue' \in [Replica -> Seq(Command)] /\ committed' \in Nat
      <3> DEFINE c == [op |-> "ensure", row |-> Head(scan[r].logs).row]
      <3>1. c \in Command
        BY <2>1, ScanHead DEF Command
      <3>2. Commit(c) \/ UNCHANGED <<committed, queue>>
        BY <1>3 DEF ProposeRepair
      <3> HIDE DEF c
      <3>3. CASE Commit(c)
        <4>1. \A s \in Replica : Append(queue[s], c) \in Seq(Command)
          BY <1>b, <3>1
        <4> QED
          BY <1>0, <3>3, <4>1 DEF Commit
      <3> QED
        BY <1>0, <1>b, <3>2, <3>3
    <2>7. raced' \in BOOLEAN /\ refused' \in BOOLEAN
      BY <1>3, <1>b DEF ProposeRepair
    <2>8. UNCHANGED <<leader, users, known, failed, op, audit, since, requests, locals,
                      elections, now>>
      BY <1>3 DEF ProposeRepair
    <2> QED
      BY <1>0, <1>a, <2>5, <2>6, <2>7, <2>8
  <1>4. CASE RepairReturns(r)
    <2>1. scan[r] # NoScan /\ scan[r].logs # <<>>
      BY <1>4 DEF RepairReturns, TypeInv, RepairsHaveRecord
    <2>2. scan' = [scan EXCEPT ![r].idx = 0, ![r].logs = Tail(scan[r].logs)]
      BY <1>4, <2>1 DEF RepairReturns, TypeInv
    <2>3. scan' = [scan EXCEPT ![r] = ScanWith(r, Tail(scan[r].logs), 0)]
      BY <2>1, <2>2, ScanExcept
    <2>4. scan' \in [Replica -> ScanState] /\ RepairsHaveRecord'
      BY <2>1, <2>3, ScanDrops
    <2>5. refused' \in BOOLEAN
      BY <1>4, <1>b DEF RepairReturns
    <2>6. UNCHANGED <<leader, users, known, queue, committed, failed, op, audit, since,
                      requests, locals, elections, now, raced>>
      BY <1>4 DEF RepairReturns
    <2> QED
      BY <1>0, <1>a, <1>b, <2>4, <2>5, <2>6
  <1>5. CASE EndScan(r)
    <2>1. scan' \in [Replica -> ScanState] /\ RepairsHaveRecord'
      BY <1>5, ScanSet DEF EndScan, ScanState
    <2>2. since' \in [Replica -> [Replica -> Nat]]
      BY <1>0, <1>5, ScanCases DEF EndScan
    <2>3. UNCHANGED <<leader, users, known, queue, committed, failed, op, audit,
                      requests, locals, elections, now, raced, refused>>
      BY <1>5 DEF EndScan
    <2> QED
      BY <1>0, <1>a, <1>b, <2>1, <2>2, <2>3
  <1> QED
    BY <1>1, <1>2, <1>3, <1>4, <1>5 DEF Reconcile

\* A step of the applier, of the reconciler, or an election.
LEMMA TypeReplica ==
    ASSUME TypeInv, NEW r \in Replica,
           ApplyNext(r) \/ ApplyFails(r) \/ Reconcile(r) \/ ChangeLeader(r)
    PROVE  TypeInv'
  <1> USE DEF TypeInv
  <1>1. CASE ApplyNext(r)
    <2>1. queue[r] \in Seq(Command) /\ queue[r] # <<>> /\ users[r] \in Table
      BY <1>1 DEF ApplyNext
    <2>2. Head(queue[r]) \in Command /\ Tail(queue[r]) \in Seq(Command)
      BY <2>1
    <2>3. /\ Outcome(r).d \in Table
          /\ \A i \in Id : users[r][i] # NoUser => Outcome(r).d[i] # NoUser
      BY <2>1, <2>2, ApplyIs DEF Outcome
    <2>4. users' = [users EXCEPT ![r] = Outcome(r).d] /\ Remember(r)
      BY <1>1 DEF ApplyNext
    <2>5. /\ users' \in [Replica -> Table]
          /\ known' \in [Replica -> SUBSET (Row \cup {NoUser})]
          /\ \A s \in Replica : \A i \in Id : users[s][i] # NoUser => users'[s][i] # NoUser
      BY <2>3, <2>4, TablesGrow
    <2>6. queue' \in [Replica -> Seq(Command)] /\ failed' \in [Replica -> BOOLEAN]
      BY <1>1, <2>2 DEF ApplyNext
    <2>7. TargetsExist'
      <3> SUFFICES ASSUME NEW g \in Handler, op[g].pc = "checked",
                          op[g].cmd.op \in {"profile", "password"}
                   PROVE  users'[op[g].at][op[g].cmd.id] # NoUser
        BY <1>1 DEF TargetsExist, ApplyNext
      <3>1. op[g] \in CheckedOp
        BY OpCases
      <3>2. op[g].cmd.id \in Id /\ op[g].at \in Replica
        BY <3>1, CommandCases DEF CheckedOp
      <3> QED
        BY <2>5, <3>2 DEF TargetsExist
    <2> QED
      BY <1>1, <2>5, <2>6, <2>7 DEF ApplyNext, RepairsHaveRecord
  <1>2. CASE ApplyFails(r)
    BY <1>2 DEF ApplyFails, TargetsExist, RepairsHaveRecord
  <1>3. CASE Reconcile(r)
    BY <1>3, TypeScan
  <1>4. CASE ChangeLeader(r)
    BY <1>4 DEF ChangeLeader, TargetsExist, RepairsHaveRecord
  <1> QED
    BY <1>1, <1>2, <1>3, <1>4

\* Every step keeps the types.
LEMMA TypeStep == TypeInv /\ [Next]_vars => TypeInv'
  <1>1. ASSUME TypeInv, UNCHANGED vars PROVE TypeInv'
    BY <1>1 DEF TypeInv, TargetsExist, RepairsHaveRecord, vars
  <1> QED
    BY <1>1, TypeHandler, TypeReplica DEF Next

-----------------------------------------------------------------------------
(* Repairs.                                                                *)

\* The steps that touch the tables, the queues or the log.
LEMMA WhoWrites ==
    ASSUME [Next]_vars
    PROVE  \/ UNCHANGED <<users, known, queue, committed>>
           \/ \E h \in Handler : Propose(h) \/ Fallback(h)
           \/ \E r \in Replica : ApplyNext(r) \/ ProposeRepair(r)
  <1>1. CASE UNCHANGED vars
    BY <1>1 DEF vars
  <1>2. ASSUME NEW h \in Handler, Handle(h) PROVE UNCHANGED <<users, known, queue, committed>>
    BY <1>2 DEF Handle, HandleRegister, HandleUpdateProfile, HandleUpdatePassword, Accepted
  <1>3. ASSUME NEW h \in Handler,
               ProposeFails(h) \/ Return(h) \/ RecordAudit(h) \/ AppendAudit(h)
        PROVE  UNCHANGED <<users, known, queue, committed>>
    BY <1>3 DEF ProposeFails, Return, RecordAudit, AppendAudit
  <1>4. ASSUME NEW r \in Replica, Reconcile(r), ~ProposeRepair(r)
        PROVE  UNCHANGED <<users, known, queue, committed>>
    BY <1>4 DEF Reconcile, FetchAudit, SkipRecord, RepairReturns, EndScan
  <1>5. ASSUME NEW r \in Replica, ApplyFails(r) \/ ChangeLeader(r)
        PROVE  UNCHANGED <<users, known, queue, committed>>
    BY <1>5 DEF ApplyFails, ChangeLeader
  <1> QED
    BY <1>1, <1>2, <1>3, <1>4, <1>5 DEF Next, Finish

\* Applying a repair keeps every user there is.
LEMMA RepairStep ==
    ASSUME TypeInv, [Next]_vars, NEW r \in Replica,
           queue[r] # <<>>, Head(queue[r]).op = "ensure", queue'[r] # queue[r],
           NEW i \in Id, users[r][i] # NoUser
    PROVE  users'[r][i] = users[r][i]
  <1>1. ASSUME NEW s \in Replica, ApplyNext(s) PROVE users'[r][i] = users[r][i]
    <2>1. s = r
      BY <1>1 DEF ApplyNext, TypeInv
    <2>2. queue[r] \in Seq(Command) /\ users[r] \in Table
      BY DEF TypeInv
    <2>3. Head(queue[r]) \in Command
      BY <2>2
    <2>4. Head(queue[r]).row \in Row
      BY <2>3, CommandCases
    <2>5. Outcome(r) = EnsureUser(users[r], Head(queue[r]).row)
      BY DEF Outcome, Apply
    <2>6. users'[r] = Outcome(r).d
      BY <1>1, <2>1 DEF ApplyNext, TypeInv
    <2> QED
      BY <2>2, <2>4, <2>5, <2>6, EnsureIs
  <1>2. ASSUME NEW h \in Handler, Fallback(h) PROVE FALSE
    BY <1>2 DEF Fallback
  <1>3. ASSUME NEW h \in Handler, Propose(h) PROVE users'[r][i] = users[r][i]
    BY <1>3 DEF Propose
  <1>4. ASSUME NEW s \in Replica, ProposeRepair(s) PROVE users'[r][i] = users[r][i]
    BY <1>4 DEF ProposeRepair
  <1> QED
    BY <1>1, <1>2, <1>3, <1>4, WhoWrites

\* A repair never changes the account of an existing user, whatever was
\* registered, renamed or given a new password since the record was written
\* (EnsureUser, storage.go).
THEOREM RepairsKeepAccounts == Spec => RepairsOnlyAdd
  <1> DEFINE A == \A r \in Replica :
          (queue[r] # <<>> /\ Head(queue[r]).op = "ensure" /\ queue'[r] # queue[r]) =>
              \A i \in Id : users[r][i] # NoUser => users'[r][i] = users[r][i]
  <1>1. TypeInv /\ [Next]_vars => [A]_vars
    BY RepairStep
  <1> QED
    BY <1>1, TypeInit, TypeStep, PTL DEF Spec, RepairsOnlyAdd

-----------------------------------------------------------------------------
(* Registrations.                                                          *)

\* Init: nobody has asked for anything.
LEMMA AloneInit == Init => AloneInv
  BY DEF Init, AloneInv, Idle

\* A step of the handlers, seen from a run in which nothing has raced.
LEMMA AloneHandler ==
    ASSUME TypeInv, AloneInv, NEW h \in Handler, Handle(h) \/ Finish(h)
    PROVE  AloneInv'
  <1> SUFFICES ASSUME ~raced' PROVE AloneInv'
    BY DEF AloneInv
  <1>0. op \in [Handler -> OpState] /\ queue \in [Replica -> Seq(Command)] /\ committed \in Nat
    BY DEF TypeInv
  <1>1. ASSUME NEW r \in Replica, NEW c, Accepted(h, r, c),
               c.op = "create" => NameFree(users[r], c.row)
        PROVE  AloneInv'
    <2>1. queue[r] = <<>> /\ \A g \in Handler : op[g] = Idle
      BY <1>1 DEF Accepted
    <2>2. op'[h] = [pc |-> "checked", at |-> r, cmd |-> c] /\ \A g \in Handler \ {h} : op'[g] = Idle
      BY <1>0, <1>1, <2>1 DEF Accepted
    <2>3. UNCHANGED <<users, queue, committed>>
      BY <1>1 DEF Accepted
    <2> QED
      BY <1>1, <2>1, <2>2, <2>3 DEF AloneInv, Idle, NameFree
  <1>2. CASE Handle(h)
    <2>1. PICK r \in Replica :
            \/ \E n \in Name, e \in Email :
                \/ HandleRegister(h, r, n, e)
                \/ \E i \in Id : HandleUpdateProfile(h, r, i, n, e)
            \/ \E i \in Id : HandleUpdatePassword(h, r, i)
      BY <1>2 DEF Handle
    <2>2. ASSUME NEW n \in Name, NEW e \in Email, HandleRegister(h, r, n, e)
          PROVE  AloneInv'
      BY <1>1, <2>2 DEF HandleRegister, NameFree
    <2>3. ASSUME NEW n \in Name, NEW e \in Email, NEW i \in Id, HandleUpdateProfile(h, r, i, n, e)
          PROVE  AloneInv'
      BY <1>1, <2>3 DEF HandleUpdateProfile
    <2>4. ASSUME NEW i \in Id, HandleUpdatePassword(h, r, i)
          PROVE  AloneInv'
      BY <1>1, <2>4 DEF HandleUpdatePassword
    <2> QED
      BY <2>1, <2>2, <2>3, <2>4
  <1>3. ASSUME op[h] # Idle, raced' = raced,
               \A g \in Handler \ {h} : op'[g] = op[g],
               op'[h].pc \notin {"checked", "wait"}
        PROVE  AloneInv'
    <2>1. \A g \in Handler \ {h} : op'[g] = Idle
      BY <1>3 DEF AloneInv
    <2> QED
      BY <1>3, <2>1 DEF AloneInv, Idle
  <1>4. CASE Propose(h)
    <2> DEFINE r == op[h].at
               c == op[h].cmd
    <2>1. op[h] \in CheckedOp /\ op[h].pc = "checked"
      BY <1>4, OpCases DEF Propose
    <2>2. r \in Replica /\ c \in Command
      BY <2>1 DEF CheckedOp
    <2>3. ~raced /\ UNCHANGED users
      BY <1>4 DEF Propose
    <2>4. /\ queue[r] = <<>> /\ \A g \in Handler \ {h} : op[g] = Idle
          /\ c.op = "create" => NameFree(users[r], c.row)
      BY <2>1, <2>3 DEF AloneInv, Idle
    <2>5. /\ op'[h].pc = "wait" /\ op'[h].at = r /\ op'[h].cmd = c /\ op'[h].idx = committed + 1
          /\ \A g \in Handler \ {h} : op'[g] = Idle
      BY <1>0, <1>4, <2>4 DEF Propose
    <2>6. committed' = committed + 1 /\ queue'[r] = Append(queue[r], c)
      BY <1>4, <2>2 DEF Propose, Commit
    <2>7. queue'[r] = <<c>>
      BY <2>4, <2>6
    <2> HIDE DEF c, r
    <2>8. ~raced => /\ op'[h] # Idle
                    /\ (op'[h].cmd.op = "create" => NameFree(users'[op'[h].at], op'[h].cmd.row))
                    /\ op'[h].idx = committed' /\ queue'[op'[h].at] = <<op'[h].cmd>>
      BY <2>3, <2>4, <2>5, <2>6, <2>7 DEF Idle
    <2> QED
      BY <2>3, <2>5, <2>8 DEF AloneInv, Idle, NameFree
  <1>5. CASE ProposeFails(h)
    BY <1>0, <1>3, <1>5 DEF ProposeFails, Idle
  <1>6. CASE Return(h)
    BY <1>0, <1>3, <1>6 DEF Return, Idle
  <1>7. CASE Fallback(h)
    BY <1>0, <1>3, <1>7 DEF Fallback, Idle
  <1>8. CASE RecordAudit(h)
    BY <1>0, <1>3, <1>8 DEF RecordAudit, Idle
  <1>9. CASE AppendAudit(h)
    BY <1>0, <1>3, <1>9 DEF AppendAudit, Idle
  <1> QED
    BY <1>2, <1>4, <1>5, <1>6, <1>7, <1>8, <1>9 DEF Finish

\* A step of the applier or of the reconciler, or an election.
LEMMA AloneReplica ==
    ASSUME TypeInv, AloneInv, NEW r \in Replica,
           ApplyNext(r) \/ ApplyFails(r) \/ Reconcile(r) \/ ChangeLeader(r)
    PROVE  AloneInv'
  <1> SUFFICES ASSUME ~raced' PROVE AloneInv'
    BY DEF AloneInv
  <1>1. CASE ApplyNext(r)
    <2>1. ~raced /\ UNCHANGED <<op, committed>>
      BY <1>1 DEF ApplyNext
    <2>2. queue[r] \in Seq(Command) /\ queue[r] # <<>> /\ users[r] \in Table
      BY <1>1 DEF ApplyNext, TypeInv
    <2>3. /\ \A s \in Replica \ {r} : users'[s] = users[s] /\ queue'[s] = queue[s]
          /\ users'[r] = Outcome(r).d /\ queue'[r] = Tail(queue[r])
      BY <1>1 DEF ApplyNext, TypeInv
    <2> SUFFICES ASSUME NEW h \in Handler
                 PROVE  /\ op[h] # Idle => \A g \in Handler : op[g] # Idle => g = h
                        /\ op[h].pc = "checked" =>
                            /\ queue'[op[h].at] = <<>>
                            /\ op[h].cmd.op = "create" => NameFree(users'[op[h].at], op[h].cmd.row)
                        /\ (op[h].pc = "wait" /\ op[h].cmd.op = "create") =>
                            /\ op[h].idx = committed
                            /\ \/ /\ queue'[op[h].at] = <<op[h].cmd>>
                                  /\ NameFree(users'[op[h].at], op[h].cmd.row)
                               \/ /\ queue'[op[h].at] = <<>>
                                  /\ Settled(users'[op[h].at], op[h].cmd.row)
      BY <2>1 DEF AloneInv
    <2>4. op[h] # Idle => \A g \in Handler : op[g] # Idle => g = h
      BY <2>1 DEF AloneInv
    <2>5. CASE op[h].pc \notin {"checked", "wait"}
      BY <2>4, <2>5
    <2>6. CASE op[h].pc = "checked"
      <3>1. op[h].at \in Replica
        BY <2>6, OpCases DEF CheckedOp
      <3>2. /\ queue[op[h].at] = <<>>
            /\ op[h].cmd.op = "create" => NameFree(users[op[h].at], op[h].cmd.row)
        BY <2>1, <2>6 DEF AloneInv
      <3>3. op[h].at # r
        BY <2>2, <3>2
      <3> QED
        BY <2>3, <2>4, <2>6, <3>1, <3>2, <3>3
    <2>7. CASE op[h].pc = "wait" /\ op[h].cmd.op = "create"
      <3> DEFINE c == op[h].cmd
      <3>1. op[h].at \in Replica /\ c \in Command /\ c.row \in Row
        BY <2>7, OpCases, CommandCases DEF WaitOp
      <3>2. /\ op[h].idx = committed
            /\ \/ queue[op[h].at] = <<c>> /\ NameFree(users[op[h].at], c.row)
               \/ queue[op[h].at] = <<>> /\ Settled(users[op[h].at], c.row)
        BY <2>1, <2>7 DEF AloneInv
      <3>3. CASE op[h].at # r
        BY <2>3, <2>4, <2>7, <3>1, <3>2, <3>3
      <3>4. CASE op[h].at = r
        <4>1. queue[r] = <<c>> /\ NameFree(users[r], c.row)
          BY <2>2, <3>2, <3>4
        <4>2. Head(queue[r]) = c /\ Tail(queue[r]) = <<>>
          BY <3>1, <4>1
        <4>3. Outcome(r) = ApplyCreate(users[r], c.row)
          BY <2>7, <4>2 DEF Outcome, Apply
        <4>4. Settled(users'[r], c.row)
          BY <2>2, <2>3, <3>1, <4>1, <4>3, CreateSettles
        <4> QED
          BY <2>3, <2>4, <2>7, <3>2, <3>4, <4>2, <4>4
      <3> QED
        BY <3>3, <3>4
    <2>8. CASE op[h].pc = "wait" /\ op[h].cmd.op # "create"
      BY <2>4, <2>8
    <2> QED
      BY <2>5, <2>6, <2>7, <2>8
  <1>2. ASSUME UNCHANGED <<users, queue, committed, op>>, ~raced PROVE AloneInv'
    BY <1>2, ZenonT(60) DEF AloneInv, NameFree, Settled, ByName, ByEmail
  <1>3. CASE ProposeRepair(r)
    <2>1. ~raced /\ op' = op
      <3>1. op' = op
        BY <1>3 DEF ProposeRepair
      <3>2. raced => raced'
        BY <1>3, ZenonT(60) DEF ProposeRepair
      <3> QED
        BY <3>1, <3>2
    <2>2. CASE \A h \in Handler : op[h] = Idle
      BY <2>1, <2>2 DEF AloneInv, Idle
    <2>3. CASE UNCHANGED <<queue, committed>>
      <3>1. UNCHANGED <<users, queue, committed, op>>
        BY <1>3, <2>1, <2>3 DEF ProposeRepair
      <3> QED
        BY <1>2, <2>1, <3>1
    <2> QED
      BY <1>3, <2>2, <2>3 DEF ProposeRepair
  <1>4. CASE ApplyFails(r) \/ ChangeLeader(r)
    BY <1>2, <1>4 DEF ApplyFails, ChangeLeader
  <1>5. CASE Reconcile(r) /\ ~ProposeRepair(r)
    BY <1>2, <1>5 DEF Reconcile, FetchAudit, SkipRecord, RepairReturns, EndScan
  <1> QED
    BY <1>1, <1>3, <1>4, <1>5

\* Every step keeps what a request that raced with nothing relies on.
LEMMA AloneStep == TypeInv /\ AloneInv /\ [Next]_vars => AloneInv'
  <1>1. ASSUME AloneInv, UNCHANGED vars PROVE AloneInv'
    BY <1>1, ZenonT(60) DEF AloneInv, NameFree, Settled, ByName, ByEmail, vars
  <1> QED
    BY <1>1, AloneHandler, AloneReplica DEF Next

\* The step that answers a registration.
LEMMA CreatedStep ==
    ASSUME TypeInv, AloneInv, [Next]_vars, NEW h \in Handler,
           op[h].pc # "created", op'[h].pc = "created", ~raced
    PROVE  Settled(users'[op[h].at], op'[h].asked)
  <1>0. op \in [Handler -> OpState] /\ users \in [Replica -> Table]
    BY DEF TypeInv
  <1>1. Return(h) \/ Fallback(h)
    <2>1. op' # op
      OBVIOUS
    <2>2. ASSUME NEW g \in Handler, Handle(g) PROVE FALSE
      <3>1. PICK r, c : op' = [op EXCEPT ![g] = [pc |-> "checked", at |-> r, cmd |-> c]]
        BY <2>2 DEF Handle, HandleRegister, HandleUpdateProfile, HandleUpdatePassword, Accepted
      <3> QED
        BY <1>0, <3>1
    <2>3. ASSUME NEW g \in Handler,
                 Propose(g) \/ ProposeFails(g) \/ RecordAudit(g) \/ AppendAudit(g)
          PROVE  FALSE
      <3>1. CASE Propose(g)
        BY <1>0, <3>1 DEF Propose
      <3>3. CASE RecordAudit(g)
        BY <1>0, <3>3 DEF RecordAudit
      <3>2. CASE ProposeFails(g) \/ AppendAudit(g)
        <4>1. op' = [op EXCEPT ![g] = Idle]
          BY <3>2 DEF ProposeFails, AppendAudit
        <4> QED
          BY <1>0, <4>1 DEF Idle
      <3> QED
        BY <2>3, <3>1, <3>2, <3>3
    <2>4. ASSUME NEW g \in Handler, Return(g) \/ Fallback(g) PROVE g = h
      BY <1>0, <2>4 DEF Return, Fallback
    <2>5. ASSUME NEW r \in Replica,
                 ApplyNext(r) \/ ApplyFails(r) \/ Reconcile(r) \/ ChangeLeader(r)
          PROVE  op' = op
      BY <2>5 DEF ApplyNext, ApplyFails, ChangeLeader, Reconcile, FetchAudit, SkipRecord,
                  ProposeRepair, RepairReturns, EndScan
    <2>6. UNCHANGED vars => op' = op
      BY DEF vars
    <2> QED
      BY <2>1, <2>2, <2>3, <2>4, <2>5, <2>6 DEF Next, Finish
  <1>2. CASE Return(h)
    <2>1. op[h] \in WaitOp /\ op[h].pc = "wait" /\ Applied(op[h].at) >= op[h].idx
      BY <1>2, OpCases DEF Return
    <2>2. op[h].cmd.op = "create" /\ op'[h].asked = op[h].cmd.row /\ users' = users
      BY <1>0, <1>2 DEF Return, Idle
    <2>3. op[h].at \in Replica /\ committed \in Nat /\ op[h].cmd \in Command
      BY <2>1 DEF WaitOp, TypeInv
    <2>4. /\ op[h].idx = committed
          /\ \/ queue[op[h].at] = <<op[h].cmd>>
             \/ queue[op[h].at] = <<>> /\ Settled(users[op[h].at], op[h].cmd.row)
      BY <2>1, <2>2 DEF AloneInv
    <2>5. queue[op[h].at] # <<op[h].cmd>>
      <3>1. SUFFICES ASSUME queue[op[h].at] = <<op[h].cmd>> PROVE FALSE
        OBVIOUS
      <3>2. Len(queue[op[h].at]) = 1
        BY <2>3, <3>1
      <3> QED
        BY <2>1, <2>3, <2>4, <3>2 DEF Applied
    <2> QED
      BY <2>2, <2>4, <2>5
  <1>3. CASE Fallback(h)
    <2> DEFINE r == op[h].at
               c == op[h].cmd
    <2>1. op[h] \in CheckedOp
      BY <1>3, OpCases DEF Fallback
    <2>2. r \in Replica /\ c \in Command
      BY <2>1 DEF CheckedOp
    <2>3. c.op = "create" /\ users' = [users EXCEPT ![r] = CreateUser(@, c.row)] /\ op'[h].asked = c.row
      <3>1. op' # [op EXCEPT ![h] = Idle]
        BY <1>0 DEF Idle
      <3>2. /\ c.op = "create" /\ users' = [users EXCEPT ![r] = CreateUser(@, c.row)]
            /\ op' = [op EXCEPT ![h] = [pc |-> "created", at |-> r, asked |-> c.row, row |-> c.row]]
        BY <1>3, <3>1 DEF Fallback
      <3> QED
        BY <1>0, <3>2
    <2>4. c.row \in Row
      BY <2>2, <2>3, CommandCases
    <2>5. users'[r] = CreateUser(users[r], c.row) /\ users[r] \in Table
      BY <1>0, <2>2, <2>3
    <2> QED
      BY <2>3, <2>4, <2>5, CreateUserIs DEF Settled
  <1> QED
    BY <1>1, <1>2, <1>3

\* A registration that was checked while nothing else was under way, and is
\* answered 201, has created the account it asked for, unless the identifier of
\* the name belongs to a user with another name (handleRegister).
THEOREM UnracedRegistration == Spec => RegistrationCreates
  <1> DEFINE A == \A h \in Handler :
          (op[h].pc # "created" /\ op'[h].pc = "created" /\ ~raced) =>
              LET d == users'[op[h].at]
                  row == op'[h].asked
              IN  \/ d[IdOf[row.name]] = row
                  \/ d[IdOf[row.name]] # NoUser /\ d[IdOf[row.name]].name # row.name
  <1>1. TypeInv /\ AloneInv /\ [Next]_vars => [A]_vars
    BY CreatedStep DEF Settled
  <1> HIDE DEF A
  <1>2. Spec => [][A]_vars
    BY <1>1, TypeInit, TypeStep, AloneInit, AloneStep, PTL DEF Spec
  <1> QED
    BY <1>2, SMTT(40) DEF RegistrationCreates, A

-----------------------------------------------------------------------------
(* The log.  While no request was served without a leader, every table is    *)
(* what some prefix of the one log leaves: T[k] is the table after the first *)
(* k commands, C[k] the k-th command.                                        *)

LogOf(T, C) ==
    /\ T \in [0..committed -> Table] /\ C \in [1..committed -> Command]
    /\ \A k \in 1..committed : T[k] = Apply(T[k - 1], C[k]).d
    /\ \A k \in 0..committed : \A i \in Id : T[k][i] # NoUser => T[committed][i] # NoUser
    /\ \A k \in 1..committed : C[k].op = "profile" => T[k - 1][C[k].id] # NoUser

Follows(r, T, C) ==
    /\ Applied(r) \in 0..committed
    /\ users[r] = T[Applied(r)]
    /\ \A j \in 1..Len(queue[r]) : queue[r][j] = C[Applied(r) + j]

\* A profile about to be proposed is one of a user the log creates.
Proposable(T) ==
    \A h \in Handler : (op[h].pc = "checked" /\ op[h].cmd.op = "profile") =>
        T[committed][op[h].cmd.id] # NoUser

LogInv ==
    locals = 0 => \E T, C : /\ LogOf(T, C) /\ Proposable(T)
                            /\ \A r \in Replica : Follows(r, T, C)

\* At the start the log is empty.
LEMMA LogInit == Init => LogInv
  <1> SUFFICES ASSUME Init PROVE LogInv
    OBVIOUS
  <1>1. TypeInv /\ committed = 0 /\ \A h \in Handler : op[h] = Idle
    BY TypeInit DEF Init
  <1>2. PICK d : users = [r \in Replica |-> d]
    BY DEF Init
  <1>3. PICK s \in Replica : TRUE
    BY DEF Init
  <1>4. d \in Table
    BY <1>1, <1>2, <1>3 DEF TypeInv
  <1> DEFINE T == [k \in 0..0 |-> d]
             C == [k \in 1..0 |-> CHOOSE c \in Command : TRUE]
  <1>5. LogOf(T, C)
    BY <1>1, <1>4 DEF LogOf
  <1>6. Proposable(T)
    BY <1>1 DEF Proposable, Idle
  <1>7. ASSUME NEW r \in Replica PROVE Follows(r, T, C)
    <2>1. queue[r] = <<>> /\ Len(queue[r]) = 0
      BY DEF Init
    <2>2. Applied(r) = 0
      <3>1. Len(queue[r]) = 0 /\ committed = 0
        BY <1>1, <2>1
      <3> QED
        BY <3>1 DEF Applied
    <2>3. users[r] = T[0]
      <3>1. T[0] = d
        OBVIOUS
      <3> QED
        BY <1>2, <3>1
    <2> HIDE DEF T, C
    <2> QED
      BY <1>1, <2>1, <2>2, <2>3 DEF Follows
  <1> HIDE DEF T, C
  <1> QED
    BY <1>5, <1>6, <1>7 DEF LogInv

\* A command that is committed extends the log by one.
LEMMA LogCommits ==
    ASSUME TypeInv, NEW T, NEW C, LogOf(T, C), Proposable(T),
           \A r \in Replica : Follows(r, T, C),
           NEW c \in Command, Commit(c), users' = users,
           c.op = "profile" => T[committed][c.id] # NoUser,
           \A g \in Handler : op'[g].pc = "checked" => op'[g] = op[g]
    PROVE  \E U, D : /\ LogOf(U, D)' /\ Proposable(U)'
                     /\ \A r \in Replica : Follows(r, U, D)'
  <1>n. PICK n : n = committed
    OBVIOUS
  <1> DEFINE new == Apply(T[n], c).d
             U == [k \in 0..(n + 1) |-> IF k <= n THEN T[k] ELSE new]
             D == [k \in 1..(n + 1) |-> IF k <= n THEN C[k] ELSE c]
  <1>1. n \in Nat /\ committed = n /\ committed' = n + 1
    BY <1>n DEF TypeInv, Commit
  <1>2. T \in [0..n -> Table] /\ C \in [1..n -> Command] /\ T[n] \in Table
    BY <1>1 DEF LogOf
  <1>3. new \in Table /\ \A i \in Id : T[n][i] # NoUser => new[i] # NoUser
    BY <1>2, ApplyIs
  <1> HIDE DEF new
  <1>4. U \in [0..(n + 1) -> Table] /\ D \in [1..(n + 1) -> Command]
    BY <1>1, <1>2, <1>3
  <1>5. /\ U[n + 1] = new /\ D[n + 1] = c
        /\ \A k \in 0..n : U[k] = T[k]
        /\ \A k \in 1..n : D[k] = C[k]
    BY <1>1
  <1> HIDE DEF U, D
  <1>6. LogOf(U, D)'
    <2>1. ASSUME NEW k \in 1..(n + 1) PROVE U[k] = Apply(U[k - 1], D[k]).d
      <3>1. CASE k = n + 1
        BY <1>1, <1>5, <3>1 DEF new
      <3>2. CASE k \in 1..n
        <4>1. k - 1 \in 0..n /\ k \in 0..n
          BY <1>1, <3>2
        <4>2. T[k] = Apply(T[k - 1], C[k]).d
          BY <1>1, <3>2 DEF LogOf
        <4> QED
          BY <1>5, <3>2, <4>1, <4>2
      <3> QED
        BY <1>1, <3>1, <3>2
    <2>2. ASSUME NEW k \in 0..(n + 1), NEW i \in Id, U[k][i] # NoUser PROVE U[n + 1][i] # NoUser
      <3>1. CASE k \in 0..n
        <4>1. T[n][i] # NoUser
          BY <1>1, <1>5, <2>2, <3>1 DEF LogOf
        <4> QED
          BY <1>3, <1>5, <4>1
      <3> QED
        BY <1>1, <2>2, <3>1
    <2>3. ASSUME NEW k \in 1..(n + 1), D[k].op = "profile" PROVE U[k - 1][D[k].id] # NoUser
      <3>1. CASE k = n + 1
        BY <1>1, <1>5, <2>3, <3>1
      <3>2. CASE k \in 1..n
        <4>1. k - 1 \in 0..n
          BY <1>1, <3>2
        <4> QED
          BY <1>1, <1>5, <2>3, <3>2, <4>1 DEF LogOf
      <3> QED
        BY <1>1, <3>1, <3>2
    <2> QED
      BY <1>1, <1>4, <2>1, <2>2, <2>3 DEF LogOf
  <1>7. Proposable(U)'
    <2> SUFFICES ASSUME NEW h \in Handler, op'[h].pc = "checked", op'[h].cmd.op = "profile"
                 PROVE  U[n + 1][op'[h].cmd.id] # NoUser
      BY <1>1 DEF Proposable
    <2>1. op'[h] = op[h] /\ op[h] \in CheckedOp
      BY OpCases
    <2>2. op[h].cmd.id \in Id
      BY <2>1, CommandCases DEF CheckedOp
    <2> QED
      BY <1>1, <1>3, <1>5, <2>1, <2>2 DEF Proposable
  <1>8. ASSUME NEW r \in Replica PROVE Follows(r, U, D)'
    <2> DEFINE q == queue[r]
               m == n - Len(q)
    <2>1. q \in Seq(Command) /\ Len(q) \in Nat /\ queue'[r] = Append(q, c)
      BY DEF TypeInv, Commit
    <2>2. /\ Len(queue'[r]) = Len(q) + 1 /\ queue'[r][Len(q) + 1] = c
          /\ \A j \in 1..Len(q) : queue'[r][j] = q[j]
      BY <2>1
    <2>3. m \in 0..n /\ users[r] = T[m] /\ \A j \in 1..Len(q) : q[j] = C[m + j]
      BY <1>1 DEF Follows, Applied
    <2> HIDE DEF q
    <2>4. committed' - Len(queue'[r]) = m
      BY <1>1, <2>1, <2>2
    <2>5. users'[r] = U[m]
      BY <1>5, <2>3
    <2>6. ASSUME NEW j \in 1..(Len(q) + 1) PROVE queue'[r][j] = D[m + j]
      <3>1. CASE j = Len(q) + 1
        <4>1. m + j = n + 1
          BY <1>1, <2>1, <3>1
        <4> QED
          BY <1>5, <2>2, <3>1, <4>1
      <3>2. CASE j \in 1..Len(q)
        <4>1. m + j \in 1..n
          BY <1>1, <2>1, <2>3, <3>2
        <4> QED
          BY <1>5, <2>2, <2>3, <3>2, <4>1
      <3> QED
        BY <2>1, <3>1, <3>2
    <2>7. m \in 0..(n + 1)
      BY <1>1, <2>3
    <2> QED
      BY <1>1, <2>2, <2>4, <2>5, <2>6, <2>7 DEF Follows, Applied
  <1> QED
    BY <1>6, <1>7, <1>8

\* A replica that applies its next command follows the log one step further.
LEMMA LogApplies ==
    ASSUME TypeInv, NEW T, NEW C, LogOf(T, C), NEW r \in Replica, NEW s \in Replica,
           Follows(s, T, C), ApplyNext(r)
    PROVE  Follows(s, T, C)'
  <1>1. committed' = committed /\ committed \in Nat
    BY DEF ApplyNext, TypeInv
  <1>2. CASE s # r
    <2>1. users'[s] = users[s] /\ queue'[s] = queue[s]
      BY <1>2 DEF ApplyNext, TypeInv
    <2> QED
      BY <1>1, <2>1 DEF Follows, Applied
  <1>3. CASE s = r
    <2>1. users'[r] = Outcome(r).d /\ queue'[r] = Tail(queue[r]) /\ queue[r] # <<>>
      BY DEF ApplyNext, TypeInv
    <2>2. queue[r] \in Seq(Command) /\ Len(queue[r]) \in Nat
      BY DEF TypeInv
    <2>3. /\ Len(queue'[r]) = Len(queue[r]) - 1 /\ 1 \in 1..Len(queue[r])
          /\ Head(queue[r]) = queue[r][1]
          /\ \A j \in 1..(Len(queue[r]) - 1) : queue'[r][j] = queue[r][j + 1]
      BY <2>1, <2>2
    <2> DEFINE m == committed - Len(queue[r])
    <2>4. m \in 0..committed /\ users[r] = T[m] /\ \A j \in 1..Len(queue[r]) : queue[r][j] = C[m + j]
      BY <1>3 DEF Follows, Applied
    <2>5. m + 1 \in 1..committed /\ (m + 1) - 1 = m
      BY <1>1, <2>2, <2>3, <2>4
    <2>6. Head(queue[r]) = C[m + 1]
      BY <2>3, <2>4
    <2>7. T[m + 1] = Apply(T[m], C[m + 1]).d
      BY <2>5 DEF LogOf
    <2>8. users'[r] = T[m + 1]
      BY <2>1, <2>4, <2>6, <2>7 DEF Outcome
    <2>9. committed' - Len(queue'[r]) = m + 1
      BY <1>1, <2>2, <2>3
    <2>10. ASSUME NEW j \in 1..Len(queue'[r]) PROVE queue'[r][j] = C[(m + 1) + j]
      <3>1. j \in 1..(Len(queue[r]) - 1) /\ j + 1 \in 1..Len(queue[r])
        BY <2>2, <2>3
      <3>2. queue'[r][j] = C[m + (j + 1)]
        BY <2>3, <2>4, <3>1
      <3>3. m + (j + 1) = (m + 1) + j
        BY <1>1, <2>2, <3>1
      <3> QED
        BY <3>2, <3>3
    <2>11. m + 1 \in 0..committed'
      BY <1>1, <2>5
    <2> HIDE DEF m
    <2> QED
      BY <1>3, <2>8, <2>9, <2>10, <2>11 DEF Follows, Applied
  <1> QED
    BY <1>2, <1>3

\* Every step keeps the tables on the log.
LEMMA LogStep == TypeInv /\ LogInv /\ [Next]_vars => LogInv'
  <1> SUFFICES ASSUME TypeInv, LogInv, [Next]_vars, locals' = 0 PROVE LogInv'
    BY DEF LogInv
  <1>0. op \in [Handler -> OpState] /\ locals \in Nat
    BY DEF TypeInv
  <1>1. locals = 0 /\ \A h \in Handler : ~Fallback(h)
    <2>1. \A h \in Handler : ~Fallback(h)
      BY <1>0 DEF Fallback
    <2>2. locals' = locals
      <3>1. ASSUME NEW h \in Handler, Handle(h) PROVE locals' = locals
        BY <3>1 DEF Handle, HandleRegister, HandleUpdateProfile, HandleUpdatePassword, Accepted
      <3>2. ASSUME NEW h \in Handler, Finish(h) PROVE locals' = locals
        BY <2>1, <3>2 DEF Finish, Propose, ProposeFails, Return, RecordAudit, AppendAudit
      <3>3. ASSUME NEW r \in Replica,
                   ApplyNext(r) \/ ApplyFails(r) \/ Reconcile(r) \/ ChangeLeader(r)
            PROVE  locals' = locals
        BY <3>3 DEF ApplyNext, ApplyFails, ChangeLeader, Reconcile, FetchAudit, SkipRecord,
                    ProposeRepair, RepairReturns, EndScan
      <3> QED
        BY <3>1, <3>2, <3>3 DEF Next, vars
    <2> QED
      BY <2>1, <2>2
  <1>2. PICK T, C : LogOf(T, C) /\ Proposable(T) /\ \A r \in Replica : Follows(r, T, C)
    BY <1>1 DEF LogInv
  <1>3. ASSUME UNCHANGED <<users, queue, committed>>, Proposable(T)' PROVE LogInv'
    <2>1. LogOf(T, C)'
      BY <1>2, <1>3 DEF LogOf
    <2>2. \A r \in Replica : Follows(r, T, C)'
      BY <1>2, <1>3 DEF Follows, Applied
    <2> QED
      BY <1>3, <2>1, <2>2 DEF LogInv
  <1>4. ASSUME committed' = committed, \A g \in Handler : op'[g].pc = "checked" => op'[g] = op[g]
        PROVE  Proposable(T)'
    BY <1>2, <1>4 DEF Proposable
  <1>5. ASSUME NEW h \in Handler, NEW r \in Replica, NEW c, Accepted(h, r, c),
               c.op = "profile" => c.id \in Id /\ users[r][c.id] # NoUser
        PROVE  LogInv'
    <2>1. UNCHANGED <<users, queue, committed>>
      BY <1>5 DEF Accepted
    <2>2. /\ op'[h] = [pc |-> "checked", at |-> r, cmd |-> c]
          /\ \A g \in Handler \ {h} : op'[g] = op[g]
      BY <1>0, <1>5 DEF Accepted
    <2>3. c.op = "profile" => T[committed][c.id] # NoUser
      BY <1>2, <1>5 DEF Follows, LogOf
    <2>4. Proposable(T)'
      BY <1>2, <2>1, <2>2, <2>3 DEF Proposable
    <2> QED
      BY <1>3, <2>1, <2>4
  <1>6. ASSUME NEW h \in Handler, Handle(h) PROVE LogInv'
    <2>1. PICK r \in Replica :
            \/ \E n \in Name, e \in Email :
                \/ HandleRegister(h, r, n, e)
                \/ \E i \in Id : HandleUpdateProfile(h, r, i, n, e)
            \/ \E i \in Id : HandleUpdatePassword(h, r, i)
      BY <1>6 DEF Handle
    <2>2. ASSUME NEW n \in Name, NEW e \in Email, HandleRegister(h, r, n, e)
          PROVE  LogInv'
      BY <1>5, <2>2 DEF HandleRegister
    <2>3. ASSUME NEW n \in Name, NEW e \in Email, NEW i \in Id, HandleUpdateProfile(h, r, i, n, e)
          PROVE  LogInv'
      <3> DEFINE c == [op |-> "profile", id |-> i, name |-> n, email |-> e]
      <3>1. Accepted(h, r, c) /\ c.id = i /\ users[r][i] # NoUser
        BY <2>3 DEF HandleUpdateProfile
      <3> HIDE DEF c
      <3> QED
        BY <1>5, <3>1
    <2>4. ASSUME NEW i \in Id, HandleUpdatePassword(h, r, i)
          PROVE  LogInv'
      BY <1>5, <2>4 DEF HandleUpdatePassword
    <2> QED
      BY <2>1, <2>2, <2>3, <2>4
  <1>7. ASSUME NEW h \in Handler,
               ProposeFails(h) \/ Return(h) \/ RecordAudit(h) \/ AppendAudit(h)
        PROVE  LogInv'
    <2>1. UNCHANGED <<users, queue, committed>>
      BY <1>7 DEF ProposeFails, Return, RecordAudit, AppendAudit
    <2>2. \A g \in Handler : op'[g].pc = "checked" => op'[g] = op[g]
      BY <1>0, <1>7 DEF ProposeFails, Return, RecordAudit, AppendAudit, Idle
    <2> QED
      BY <1>3, <1>4, <2>1, <2>2
  <1>8. ASSUME NEW h \in Handler, Propose(h) PROVE LogInv'
    <2>1. op[h] \in CheckedOp /\ op[h].pc = "checked"
      BY <1>8, OpCases DEF Propose
    <2>2. op[h].cmd \in Command
      BY <2>1 DEF CheckedOp
    <2>3. Commit(op[h].cmd) /\ users' = users
      BY <1>8 DEF Propose
    <2>4. \A g \in Handler : op'[g].pc = "checked" => op'[g] = op[g]
      BY <1>0, <1>8 DEF Propose
    <2>5. op[h].cmd.op = "profile" => T[committed][op[h].cmd.id] # NoUser
      BY <1>2, <2>1 DEF Proposable
    <2>6. PICK c : c = op[h].cmd
      OBVIOUS
    <2> QED
      BY <1>2, <2>2, <2>3, <2>4, <2>5, <2>6, LogCommits DEF LogInv
  <1>9. ASSUME NEW r \in Replica, ProposeRepair(r) PROVE LogInv'
    <2>1. op' = op /\ users' = users
      BY <1>9 DEF ProposeRepair
    <2>2. CASE UNCHANGED <<committed, queue>>
      BY <1>3, <1>4, <2>1, <2>2
    <2>3. CASE Commit([op |-> "ensure", row |-> Head(scan[r].logs).row])
      <3>1. PICK c : c = [op |-> "ensure", row |-> Head(scan[r].logs).row]
        OBVIOUS
      <3>2. c \in Command /\ c.op # "profile"
        BY <1>9, <3>1, ScanHead DEF ProposeRepair, Command
      <3> QED
        BY <1>2, <2>1, <2>3, <3>1, <3>2, LogCommits DEF LogInv
    <2> QED
      BY <1>9, <2>2, <2>3 DEF ProposeRepair
  <1>10. ASSUME NEW r \in Replica, ApplyNext(r) PROVE LogInv'
    <2>1. UNCHANGED <<op, committed>>
      BY <1>10 DEF ApplyNext
    <2>2. Proposable(T)'
      BY <1>4, <2>1
    <2>3. LogOf(T, C)'
      BY <1>2, <2>1 DEF LogOf
    <2>4. \A s \in Replica : Follows(s, T, C)'
      BY <1>2, <1>10, LogApplies
    <2> QED
      BY <2>2, <2>3, <2>4 DEF LogInv
  <1>11. ASSUME NEW r \in Replica,
                ApplyFails(r) \/ ChangeLeader(r) \/ (Reconcile(r) /\ ~ProposeRepair(r))
         PROVE  LogInv'
    <2>1. UNCHANGED <<users, queue, committed, op>>
      BY <1>11 DEF ApplyFails, ChangeLeader, Reconcile, FetchAudit, SkipRecord, RepairReturns,
                   EndScan
    <2> QED
      BY <1>3, <1>4, <2>1
  <1>12. CASE UNCHANGED vars
    <2>1. UNCHANGED <<users, queue, committed, op>>
      BY <1>12 DEF vars
    <2> QED
      BY <1>3, <1>4, <2>1
  <1> QED
    BY <1>1, <1>6, <1>7, <1>8, <1>9, <1>10, <1>11, <1>12 DEF Next, Finish

\* No mix of client requests stops the log: what fails for good is the repair of
\* a user that conflicts with another one, or a profile of a user who was
\* registered on another replica only (isIgnorableApplyError, EnsureUser).
THEOREM RequestsNeverBlock == Spec => []BlockedByRepairsOnly
  <1>1. TypeInv /\ LogInv => BlockedByRepairsOnly
    <2> SUFFICES ASSUME TypeInv, LogInv, NEW r \in Replica,
                        queue[r] # <<>>, Outcome(r).err = "fatal"
                 PROVE  LET c == Head(queue[r])
                        IN  \/ c.op = "ensure" /\ InsertConflicts(users[r], c.row)
                            \/ c.op = "profile" /\ locals > 0 /\ users[r][c.id] = NoUser
      BY DEF BlockedByRepairsOnly
    <2> DEFINE c == Head(queue[r])
    <2>1. queue[r] \in Seq(Command) /\ users[r] \in Table /\ locals \in Nat
      BY DEF TypeInv
    <2>2. c \in Command /\ c = queue[r][1] /\ 1 \in 1..Len(queue[r]) /\ Len(queue[r]) \in Nat
      BY <2>1
    <2>3. \/ c.op = "ensure" /\ InsertConflicts(users[r], c.row)
          \/ c.op = "profile" /\ users[r][c.id] = NoUser
      BY <2>1, <2>2, ApplyIs DEF Outcome
    <2>4. ASSUME c.op = "profile", users[r][c.id] = NoUser, locals = 0 PROVE FALSE
      <3>1. PICK T, C : LogOf(T, C) /\ Follows(r, T, C)
        BY <2>4 DEF LogInv
      <3> DEFINE m == Applied(r)
      <3>2. m = committed - Len(queue[r]) /\ m \in 0..committed /\ committed \in Nat
        BY <3>1 DEF Follows, Applied, TypeInv
      <3>3. m + 1 \in 1..committed /\ (m + 1) - 1 = m
        BY <2>2, <3>2
      <3>4. c = C[m + 1] /\ users[r] = T[m]
        BY <2>2, <3>1 DEF Follows
      <3> HIDE DEF m, c
      <3>5. T[m][c.id] # NoUser
        BY <2>4, <3>1, <3>3, <3>4 DEF LogOf
      <3> QED
        BY <2>4, <3>4, <3>5
    <2> HIDE DEF c
    <2>5. locals # 0 => locals > 0
      BY <2>1
    <2> QED
      BY <2>3, <2>4, <2>5 DEF c
  <1> QED
    BY <1>1, TypeInit, TypeStep, LogInit, LogStep, PTL DEF Spec

-----------------------------------------------------------------------------
(* The cursor.                                                             *)

\* What a replica has had is never forgotten, and covers what it has.
LEMMA KnownStep ==
    ASSUME TypeInv, KnownInv, [Next]_vars
    PROVE  KnownInv' /\ \A r \in Replica : known[r] \subseteq known'[r]
  <1>1. ASSUME UNCHANGED <<users, known>>
        PROVE  KnownInv' /\ \A r \in Replica : known[r] \subseteq known'[r]
    BY <1>1 DEF KnownInv
  <1>2. ASSUME NEW r \in Replica, NEW d, users' = [users EXCEPT ![r] = d], Remember(r)
        PROVE  KnownInv' /\ \A s \in Replica : known[s] \subseteq known'[s]
    <2>1. /\ known'[r] = known[r] \cup {users'[r][i] : i \in Id}
          /\ \A s \in Replica \ {r} : known'[s] = known[s] /\ users'[s] = users[s]
      BY <1>2 DEF Remember, TypeInv
    <2> QED
      BY <2>1 DEF KnownInv
  <1>3. ASSUME NEW r \in Replica, ApplyNext(r)
        PROVE  KnownInv' /\ \A s \in Replica : known[s] \subseteq known'[s]
    BY <1>2, <1>3 DEF ApplyNext
  <1>4. ASSUME NEW h \in Handler, Fallback(h)
        PROVE  KnownInv' /\ \A s \in Replica : known[s] \subseteq known'[s]
    <2> DEFINE r == op[h].at
    <2>1. r \in Replica /\ users \in [Replica -> Table]
      BY <1>4, OpCases DEF Fallback, CheckedOp, TypeInv
    <2>2. Remember(r)
      BY <1>4 DEF Fallback
    <2>3. \E d : users' = [users EXCEPT ![r] = d]
      <3>1. users = [users EXCEPT ![r] = users[r]]
        BY <2>1
      <3> QED
        BY <1>4, <3>1 DEF Fallback
    <2> QED
      BY <1>2, <2>1, <2>2, <2>3
  <1>5. ASSUME NEW h \in Handler, Propose(h) PROVE UNCHANGED <<users, known>>
    BY <1>5 DEF Propose
  <1>6. ASSUME NEW r \in Replica, ProposeRepair(r) PROVE UNCHANGED <<users, known>>
    BY <1>6 DEF ProposeRepair
  <1> QED
    BY <1>1, <1>3, <1>4, <1>5, <1>6, WhoWrites

\* The steps that touch records, cursors or scans.
LEMMA WhoScans ==
    ASSUME [Next]_vars
    PROVE  \/ UNCHANGED <<audit, since, scan, refused>>
           \/ \E h \in Handler : AppendAudit(h)
           \/ \E r \in Replica : Reconcile(r)
  <1>1. CASE UNCHANGED vars
    BY <1>1 DEF vars
  <1>2. ASSUME NEW h \in Handler, Handle(h) PROVE UNCHANGED <<audit, since, scan, refused>>
    BY <1>2 DEF Handle, HandleRegister, HandleUpdateProfile, HandleUpdatePassword, Accepted
  <1>3. ASSUME NEW h \in Handler, Finish(h), ~AppendAudit(h)
        PROVE  UNCHANGED <<audit, since, scan, refused>>
    BY <1>3 DEF Finish, Propose, ProposeFails, Return, Fallback, RecordAudit
  <1>4. ASSUME NEW r \in Replica, ApplyNext(r) \/ ApplyFails(r) \/ ChangeLeader(r)
        PROVE  UNCHANGED <<audit, since, scan, refused>>
    BY <1>4 DEF ApplyNext, ApplyFails, ChangeLeader
  <1> QED
    BY <1>1, <1>2, <1>3, <1>4 DEF Next

\* Records stay where they are; a new one comes last, whatever its stamp.
LEMMA AuditGrows ==
    ASSUME TypeInv, [Next]_vars, NEW p \in Replica
    PROVE  /\ Len(audit[p]) \in Nat
           /\ \/ audit'[p] = audit[p]
              \/ /\ Len(audit'[p]) = Len(audit[p]) + 1
                 /\ \A k \in 1..Len(audit[p]) : audit'[p][k] = audit[p][k]
  <1>1. audit[p] \in Seq(Record) /\ Len(audit[p]) \in Nat
    BY DEF TypeInv
  <1>2. ASSUME NEW h \in Handler, AppendAudit(h)
        PROVE  \/ audit'[p] = audit[p]
               \/ /\ Len(audit'[p]) = Len(audit[p]) + 1
                  /\ \A k \in 1..Len(audit[p]) : audit'[p][k] = audit[p][k]
    <2> DEFINE rec == [row |-> op[h].row, ts |-> op[h].ts]
               q == op[h].at
    <2>1. audit' = [audit EXCEPT ![q] = Append(@, rec)]
      BY <1>2 DEF AppendAudit
    <2> HIDE DEF rec, q
    <2>2. audit'[p] = audit[p] \/ audit'[p] = Append(audit[p], rec)
      BY <2>1 DEF TypeInv
    <2> QED
      BY <1>1, <2>2
  <1>3. ASSUME NEW r \in Replica, Reconcile(r) PROVE audit' = audit
    BY <1>3 DEF Reconcile, FetchAudit, SkipRecord, ProposeRepair, RepairReturns, EndScan
  <1> QED
    BY <1>1, <1>2, <1>3, WhoScans

\* What a cursor is anchored at stays.
LEMMA AnchorStays ==
    ASSUME TypeInv, [Next]_vars, NEW p \in Replica, NEW t, Anchored(p, t)
    PROVE  Anchored(p, t)'
  <1>1. CASE audit'[p] = audit[p]
    BY <1>1 DEF Anchored
  <1>2. CASE /\ Len(audit'[p]) = Len(audit[p]) + 1
             /\ \A k \in 1..Len(audit[p]) : audit'[p][k] = audit[p][k]
    <2>1. \A k \in 1..Len(audit[p]) : k \in 1..Len(audit'[p])
      BY <1>2, AuditGrows
    <2> QED
      BY <1>2, <2>1 DEF Anchored
  <1> QED
    BY <1>1, <1>2, AuditGrows

\* A scan that goes on keeps its peer and its newest record.
LEMMA ScanGoesOn ==
    ASSUME TypeInv, NEW r \in Replica, SkipRecord(r) \/ ProposeRepair(r) \/ RepairReturns(r)
    PROVE  /\ since' = since /\ scan[r] # NoScan
           /\ scan'[r].peer = scan[r].peer /\ scan'[r].max = scan[r].max
           /\ \A s \in Replica \ {r} : scan'[s] = scan[s]
  <1>1. since' = since /\ scan[r] # NoScan
    BY DEF SkipRecord, ProposeRepair, RepairReturns
  <1>2. /\ scan'[r].peer = scan[r].peer /\ scan'[r].max = scan[r].max
        /\ \A s \in Replica \ {r} : scan'[s] = scan[s]
    <2>1. CASE SkipRecord(r)
      BY <2>1, <1>1, ScanCases DEF SkipRecord, TypeInv
    <2>2. CASE ProposeRepair(r)
      <3>1. \/ scan' = [scan EXCEPT ![r].idx = committed + 1]
            \/ scan' = [scan EXCEPT ![r].logs = Tail(scan[r].logs)]
        BY <2>2 DEF ProposeRepair
      <3>2. CASE scan' = [scan EXCEPT ![r].idx = committed + 1]
        BY <3>2, <1>1, ScanCases DEF TypeInv
      <3>3. CASE scan' = [scan EXCEPT ![r].logs = Tail(scan[r].logs)]
        BY <3>3, <1>1, ScanCases DEF TypeInv
      <3> QED
        BY <3>1, <3>2, <3>3
    <2>3. CASE RepairReturns(r)
      BY <2>3, <1>1, ScanCases DEF RepairReturns, TypeInv
    <2> QED
      BY <2>1, <2>2, <2>3
  <1> QED
    BY <1>1, <1>2

\* Every cursor stays anchored.
LEMMA AnchorStep ==
    ASSUME TypeInv, AnchorInv, [Next]_vars
    PROVE  AnchorInv'
  <1>1. ASSUME UNCHANGED <<since, scan>> PROVE AnchorInv'
    <2>1. \A r, p \in Replica : Anchored(p, since[r][p])'
      <3> SUFFICES ASSUME NEW r \in Replica, NEW p \in Replica PROVE Anchored(p, since[r][p])'
        OBVIOUS
      <3>1. PICK t : t = since[r][p]
        OBVIOUS
      <3>2. Anchored(p, t)'
        BY <3>1, AnchorStays DEF AnchorInv
      <3> QED
        BY <1>1, <3>1, <3>2 DEF Anchored
    <2>2. ASSUME NEW r \in Replica, scan[r] # NoScan PROVE Anchored(scan[r].peer, scan[r].max)'
      <3>1. PICK p, t : p = scan[r].peer /\ t = scan[r].max /\ p \in Replica
        BY <2>2, ScanCases
      <3>2. Anchored(p, t)'
        BY <2>2, <3>1, AnchorStays DEF AnchorInv
      <3> QED
        BY <1>1, <3>1, <3>2 DEF Anchored
    <2> QED
      BY <1>1, <2>1, <2>2 DEF AnchorInv
  <1>2. ASSUME NEW h \in Handler, AppendAudit(h) PROVE AnchorInv'
    BY <1>1, <1>2 DEF AppendAudit
  <1>3. ASSUME NEW r \in Replica, Reconcile(r) PROVE AnchorInv'
    <2>0. audit' = audit
      BY <1>3 DEF Reconcile, FetchAudit, SkipRecord, ProposeRepair, RepairReturns, EndScan
    <2>1. ASSUME NEW p \in Replica, FetchAudit(r, p) PROVE AnchorInv'
      <3>1. PICK logs \in ListAuditLogs(p, since[r][p]) \ {<<>>} :
              scan' = [scan EXCEPT ![r] = [peer |-> p, logs |-> logs, idx |-> 0, max |-> logs[1].ts]]
        BY <2>1 DEF FetchAudit
      <3>2. since[r][p] \in Nat /\ since' = since
        BY <2>1 DEF FetchAudit, TypeInv
      <3>3. /\ logs \in Seq(Record) /\ logs # <<>>
            /\ \A n \in 1..Len(logs) : \E k \in 1..Len(audit[p]) : logs[n] = audit[p][k]
        BY <3>1, <3>2, ListIs
      <3>4. 1 \in 1..Len(logs) /\ logs[1].ts \in Nat
        BY <3>3, RecordsAre
      <3>5. Anchored(p, logs[1].ts)
        BY <3>3, <3>4 DEF Anchored
      <3>6. /\ scan'[r].peer = p /\ scan'[r].max = logs[1].ts
            /\ \A s \in Replica \ {r} : scan'[s] = scan[s]
        BY <3>1 DEF TypeInv
      <3>7. ASSUME NEW s \in Replica, scan'[s] # NoScan PROVE Anchored(scan[s].peer, scan[s].max)'
        <4>1. CASE s = r
          BY <2>0, <3>5, <3>6, <4>1 DEF Anchored
        <4>2. CASE s # r
          BY <2>0, <3>6, <3>7, <4>2 DEF AnchorInv, Anchored
        <4> QED
          BY <4>1, <4>2
      <3>8. \A s, q \in Replica : Anchored(q, since[s][q])'
        BY <2>0, <3>2 DEF AnchorInv, Anchored
      <3> QED
        BY <3>7, <3>8 DEF AnchorInv
    <2>2. CASE SkipRecord(r) \/ ProposeRepair(r) \/ RepairReturns(r)
      <3>1. /\ since' = since /\ scan[r] # NoScan
            /\ scan'[r].peer = scan[r].peer /\ scan'[r].max = scan[r].max
            /\ \A s \in Replica \ {r} : scan'[s] = scan[s]
        BY <2>2, ScanGoesOn
      <3>2. ASSUME NEW s \in Replica, scan'[s] # NoScan PROVE Anchored(scan[s].peer, scan[s].max)'
        <4>1. /\ scan[s] # NoScan /\ scan'[s].peer = scan[s].peer
              /\ scan'[s].max = scan[s].max
          BY <3>1, <3>2
        <4>2. Anchored(scan[s].peer, scan[s].max)
          BY <4>1 DEF AnchorInv
        <4> QED
          BY <2>0, <4>1, <4>2 DEF Anchored
      <3>3. \A s, p \in Replica : Anchored(p, since[s][p])'
        BY <2>0, <3>1 DEF AnchorInv, Anchored
      <3> QED
        BY <3>2, <3>3 DEF AnchorInv
    <2>3. CASE EndScan(r)
      <3>1. /\ scan[r] # NoScan /\ scan' = [scan EXCEPT ![r] = NoScan]
            /\ since' = [since EXCEPT ![r][scan[r].peer] = scan[r].max]
        BY <2>3 DEF EndScan
      <3>2. \A s, p \in Replica :
                since'[s][p] = IF s = r /\ p = scan[r].peer THEN scan[r].max ELSE since[s][p]
        BY <3>1, ScanCases DEF TypeInv
      <3>3. \A s \in Replica : scan'[s] # NoScan => s # r /\ scan'[s] = scan[s]
        BY <3>1 DEF TypeInv
      <3> QED
        BY <2>0, <3>1, <3>2, <3>3 DEF AnchorInv, Anchored
    <2> QED
      BY <1>3, <2>1, <2>2, <2>3 DEF Reconcile
  <1> QED
    BY <1>1, <1>2, <1>3, WhoScans

\* A repair under way is where the scan left it until it is applied, and then
\* the replica has the account.
LEMMA RepairInvStep ==
    ASSUME TypeInv, KnownInv, RepairInv, [Next]_vars
    PROVE  RepairInv'
  <1> SUFFICES ASSUME NEW r \in Replica
               PROVE  /\ Len(queue'[r]) <= committed'
                      /\ (scan'[r] # NoScan /\ scan'[r].idx > 0) =>
                           /\ scan'[r].idx <= committed'
                           /\ IF committed' - Len(queue'[r]) >= scan'[r].idx
                              THEN Head(scan'[r].logs).row \in known'[r]
                              ELSE queue'[r][scan'[r].idx - (committed' - Len(queue'[r]))] =
                                     [op |-> "ensure", row |-> Head(scan'[r].logs).row]
    BY DEF RepairInv, Applied
  <1> DEFINE q == queue[r]
             n == scan[r].idx
             row == Head(scan[r].logs).row
  <1>q. q \in Seq(Command) /\ Len(q) \in Nat /\ committed \in Nat /\ Len(q) <= committed
    <2>1. q \in Seq(Command) /\ committed \in Nat
      BY DEF TypeInv
    <2>2. Len(q) <= committed
      BY DEF RepairInv
    <2> QED
      BY <2>1, <2>2
  <1>p. PICK N \in Nat, L \in Nat : N = committed /\ L = Len(q) /\ L <= N
    BY <1>q
  <1>m. PICK m \in Nat : m = N - L
    BY <1>p
  <1>a. N \in Nat /\ L \in Nat /\ m \in Nat /\ m = N - L
    BY <1>p, <1>m
  <1>1. /\ N \in Nat /\ L \in Nat /\ m \in Nat /\ m = N - L
        /\ N = committed /\ L = Len(q) /\ q \in Seq(Command)
    BY <1>q, <1>p, <1>m
  <1>2. scan[r] # NoScan => n \in Nat
    BY ScanCases
  <1>3. (scan[r] # NoScan /\ n > 0) =>
          /\ n <= N
          /\ IF m >= n THEN row \in known[r] ELSE q[n - m] = [op |-> "ensure", row |-> row]
    BY <1>1 DEF RepairInv, Applied
  <1>4. known[r] \subseteq known'[r] /\ KnownInv'
    BY KnownStep
  <1> HIDE DEF row
  <1>5. CASE UNCHANGED <<queue, committed>> /\ scan'[r] = scan[r]
    <2>1. Head(scan'[r].logs).row = row
      BY <1>5 DEF row
    <2> QED
      BY <1>1, <1>2, <1>3, <1>4, <1>5, <2>1
  <1>6. CASE UNCHANGED <<queue, committed>> /\ (scan'[r] = NoScan \/ scan'[r].idx = 0)
    BY <1>1, <1>6
  <1>7. ASSUME NEW c, Commit(c) PROVE /\ Len(queue'[r]) = L + 1 /\ committed' = N + 1
                                      /\ queue'[r][L + 1] = c
                                      /\ \A j \in 1..L : queue'[r][j] = q[j]
    <2>1. queue'[r] = Append(q, c) /\ committed' = N + 1
      BY <1>1, <1>7 DEF Commit
    <2> HIDE DEF q
    <2> QED
      BY <1>1, <2>1
  <1>8. ASSUME NEW c, Commit(c), scan'[r] = scan[r]
        PROVE  /\ Len(queue'[r]) <= committed'
               /\ (scan'[r] # NoScan /\ scan'[r].idx > 0) =>
                    /\ scan'[r].idx <= committed'
                    /\ IF committed' - Len(queue'[r]) >= scan'[r].idx
                       THEN Head(scan'[r].logs).row \in known'[r]
                       ELSE queue'[r][scan'[r].idx - (committed' - Len(queue'[r]))] =
                              [op |-> "ensure", row |-> Head(scan'[r].logs).row]
    <2>1. /\ Len(queue'[r]) = L + 1 /\ committed' = N + 1
          /\ \A j \in 1..L : queue'[r][j] = q[j]
      BY <1>7, <1>8
    <2>2. committed' - Len(queue'[r]) = m /\ Len(queue'[r]) <= committed'
      BY <1>1, <2>1
    <2>3. ASSUME scan[r] # NoScan, n > 0
          PROVE  /\ n <= N + 1
                 /\ IF m >= n THEN row \in known'[r]
                    ELSE queue'[r][n - m] = [op |-> "ensure", row |-> row]
      <3>1. n \in Nat /\ n <= N
        BY <1>2, <1>3, <2>3
      <3>2. CASE m >= n
        BY <1>1, <1>3, <1>4, <2>3, <3>1, <3>2
      <3>3. CASE ~(m >= n)
        <4>1. n - m \in 1..L
          BY <1>1, <3>1, <3>3
        <4>2. queue'[r][n - m] = q[n - m]
          BY <2>1, <4>1
        <4> QED
          BY <1>1, <1>3, <2>3, <3>1, <3>3, <4>2
      <3> QED
        BY <3>2, <3>3
    <2>4. Head(scan'[r].logs).row = row /\ scan'[r].idx = n
      BY <1>8 DEF row
    <2> QED
      BY <1>8, <2>1, <2>2, <2>3, <2>4
  <1>9. ASSUME NEW h \in Handler, Propose(h) PROVE scan' = scan /\ Commit(op[h].cmd)
    BY <1>9 DEF Propose
  <1>10. CASE ProposeRepair(r) /\ Commit([op |-> "ensure", row |-> row])
    <2>1. scan[r] # NoScan /\ scan'[r] = ScanWith(r, scan[r].logs, N + 1)
      <3>1. scan[r] # NoScan /\ scan' = [scan EXCEPT ![r].idx = N + 1]
        BY <1>1, <1>10 DEF ProposeRepair, Commit
      <3>2. scan' = [scan EXCEPT ![r] = ScanWith(r, scan[r].logs, N + 1)]
        BY <3>1, ScanExcept
      <3> QED
        BY <3>1, <3>2 DEF TypeInv
    <2>2. scan'[r].idx = N + 1 /\ Head(scan'[r].logs).row = row
      BY <2>1 DEF ScanWith, row
    <2>3. Commit([op |-> "ensure", row |-> row])
      BY <1>10
    <2>4. /\ Len(queue'[r]) = L + 1 /\ committed' = N + 1
          /\ queue'[r][L + 1] = [op |-> "ensure", row |-> row]
      BY <1>7, <2>3
    <2>5. /\ committed' - Len(queue'[r]) = m /\ ~(m >= N + 1)
          /\ (N + 1) - m = L + 1 /\ Len(queue'[r]) <= committed'
      BY <1>a, <2>4
    <2> HIDE DEF q
    <2>6. queue'[r][(N + 1) - m] = [op |-> "ensure", row |-> row]
      BY <2>4, <2>5
    <2>7. N + 1 <= committed'
      BY <1>1, <2>4
    <2> QED
      BY <2>2, <2>5, <2>6, <2>7
  <1>11. CASE ApplyNext(r)
    <2>1. /\ scan' = scan /\ committed' = N /\ q # <<>>
          /\ queue'[r] = Tail(q) /\ users'[r] = Outcome(r).d /\ Outcome(r).err # "fatal"
      BY <1>1, <1>11 DEF ApplyNext, TypeInv
    <2>2. /\ Len(queue'[r]) = L - 1 /\ Head(q) = q[1] /\ 1 \in 1..L
          /\ \A j \in 1..(L - 1) : queue'[r][j] = q[j + 1]
      BY <1>1, <2>1
    <2>3. committed' - Len(queue'[r]) = m + 1 /\ Len(queue'[r]) <= committed'
      <3>1. committed' = N /\ Len(queue'[r]) = L - 1
        BY <2>1, <2>2
      <3> QED
        BY <1>a, <3>1
    <2>4. ASSUME scan[r] # NoScan, n > 0
          PROVE  /\ n <= N
                 /\ IF m + 1 >= n THEN row \in known'[r]
                    ELSE queue'[r][n - (m + 1)] = [op |-> "ensure", row |-> row]
      <3>1. n \in Nat /\ n <= N
        BY <1>2, <1>3, <2>4
      <3>2. CASE m >= n
        BY <1>a, <1>3, <1>4, <2>4, <3>1, <3>2
      <3>3. CASE m + 1 = n
        <4>1. q[1] = [op |-> "ensure", row |-> row]
          <5>1. ~(m >= n) /\ n - m = 1
            BY <1>a, <3>1, <3>3
          <5> QED
            BY <1>3, <2>4, <5>1
        <4>2. row \in Row
          BY <2>4, ScanHead DEF TypeInv, RepairsHaveRecord, row
        <4>3. Outcome(r) = EnsureUser(users[r], row)
          <5>1. Head(queue[r]).op = "ensure" /\ Head(queue[r]).row = row
            BY <2>2, <4>1
          <5> QED
            BY <5>1 DEF Outcome, Apply
        <4>4. \E i \in Id : users'[r][i] = row
          <5>1. users[r] \in Table
            BY DEF TypeInv
          <5> QED
            BY <2>1, <4>2, <4>3, <5>1, EnsureIs
        <4>5. row \in known'[r]
          BY <1>4, <4>4 DEF KnownInv
        <4> QED
          BY <1>a, <3>1, <3>3, <4>5
      <3>4. CASE m + 1 < n
        <4>1. n - (m + 1) \in 1..(L - 1) /\ (n - (m + 1)) + 1 = n - m /\ ~(m + 1 >= n) /\ ~(m >= n)
          BY <1>a, <3>1, <3>4
        <4>2. queue'[r][n - (m + 1)] = q[n - m]
          BY <2>2, <4>1
        <4> QED
          BY <1>3, <2>4, <3>1, <4>1, <4>2
      <3> QED
        BY <1>a, <3>1, <3>2, <3>3, <3>4
    <2>5. Head(scan'[r].logs).row = row /\ scan'[r] = scan[r]
      BY <2>1 DEF row
    <2> QED
      BY <2>1, <2>3, <2>4, <2>5
  <1>12. ASSUME NEW s \in Replica, s # r, ApplyNext(s)
         PROVE  UNCHANGED <<committed, scan>> /\ queue'[r] = q
    BY <1>12 DEF ApplyNext, TypeInv
  <1>13. CASE queue'[r] = q /\ committed' = committed /\ scan'[r] = scan[r]
    <2>1. Head(scan'[r].logs).row = row
      BY <1>13 DEF row
    <2> QED
      BY <1>1, <1>2, <1>3, <1>4, <1>13, <2>1
  <1>14. ASSUME NEW s \in Replica, s # r, Reconcile(s) PROVE scan'[r] = scan[r]
    BY <1>14 DEF Reconcile, FetchAudit, SkipRecord, ProposeRepair, RepairReturns, EndScan, TypeInv
  <1>15. ASSUME NEW s \in Replica, Reconcile(s), ~ProposeRepair(s)
         PROVE  /\ UNCHANGED <<queue, committed>>
                /\ s = r => scan'[r] = NoScan \/ scan'[r].idx = 0
    <2>1. UNCHANGED <<queue, committed>>
      BY <1>15 DEF Reconcile, FetchAudit, SkipRecord, RepairReturns, EndScan
    <2>2. ASSUME s = r PROVE scan'[r] = NoScan \/ scan'[r].idx = 0
      <3>1. ASSUME NEW p \in Replica, FetchAudit(r, p) PROVE scan'[r].idx = 0
        BY <3>1 DEF FetchAudit, TypeInv
      <3>2. CASE SkipRecord(r)
        BY <3>2, ScanCases DEF SkipRecord, TypeInv
      <3>3. CASE RepairReturns(r)
        BY <3>3, ScanCases DEF RepairReturns, TypeInv
      <3>4. CASE EndScan(r)
        BY <3>4 DEF EndScan, TypeInv
      <3> QED
        BY <1>15, <2>2, <3>1, <3>2, <3>3, <3>4 DEF Reconcile
    <2> QED
      BY <2>1, <2>2
  <1>16. ASSUME NEW s \in Replica, ProposeRepair(s)
         PROVE  \/ /\ UNCHANGED <<queue, committed>>
                   /\ s = r => scan'[r].idx = 0
                \/ Commit([op |-> "ensure", row |-> Head(scan[s].logs).row])
    <2>1. CASE scan' = [scan EXCEPT ![s].logs = Tail(@)] /\ UNCHANGED <<queue, committed>>
      BY <1>16, <2>1, ScanCases DEF ProposeRepair, TypeInv
    <2> QED
      BY <1>16, <2>1 DEF ProposeRepair
  <1> HIDE DEF q, n
  <1>17. ASSUME NEW h \in Handler, Fallback(h)
         PROVE  UNCHANGED <<queue, committed>> /\ scan'[r] = scan[r]
    BY <1>17 DEF Fallback
  <1>18. CASE UNCHANGED <<users, known, queue, committed>>
    <2>1. scan'[r] = scan[r] \/ Reconcile(r)
      <3>1. ASSUME NEW h \in Handler, AppendAudit(h) PROVE scan'[r] = scan[r]
        BY <3>1 DEF AppendAudit
      <3> QED
        BY <1>14, <3>1, WhoScans
    <2>2. CASE Reconcile(r) /\ ~ProposeRepair(r)
      BY <1>6, <1>15, <1>18, <2>2
    <2>3. CASE ProposeRepair(r)
      BY <1>6, <1>10, <1>16, <1>18, <2>3 DEF row
    <2> QED
      BY <1>5, <1>18, <2>1, <2>2, <2>3
  <1>19. ASSUME NEW s \in Replica, ProposeRepair(s), s # r
         PROVE  scan'[r] = scan[r]
    BY <1>14, <1>19 DEF Reconcile
  <1> QED
    BY <1>5, <1>6, <1>8, <1>9, <1>10, <1>11, <1>12, <1>13, <1>16, <1>17, <1>18, <1>19, WhoWrites
      DEF q, row

\* The records of p older than t, inserted in order, are of accounts r has had, or
\* are still in l.
Covered(r, p, t, l) ==
    Len(audit[p]) <= AuditLimit =>
        \A k \in 1..Len(audit[p]) : (audit[p][k].ts < t /\ InOrder(p, k)) =>
            \/ audit[p][k].row \in known[r]
            \/ \E j \in 1..Len(l) : l[j].row = audit[p][k].row

\* The invariant of the cursor.
CursorInv ==
    /\ KnownInv
    /\ AnchorInv
    /\ RepairInv
    /\ ~refused => \A r \in Replica :
        /\ \A p \in Replica : Covered(r, p, since[r][p], <<>>)
        /\ scan[r] # NoScan => Covered(r, scan[r].peer, scan[r].max, scan[r].logs)

\* At the start there is one account, and everybody has it.
LEMMA CursorInit == Init => CursorInv
  <1> SUFFICES ASSUME Init PROVE CursorInv
    OBVIOUS
  <1>1. TypeInv
    BY TypeInit
  <1>2. /\ now = 0 /\ committed = 0
        /\ \A r \in Replica : scan[r] = NoScan /\ Len(queue[r]) = 0
        /\ \A r, p \in Replica : since[r][p] = 0
    BY DEF Init
  <1>3. KnownInv
    BY DEF Init, KnownInv
  <1>4. \A p \in Replica : Len(audit[p]) \in {0, 1} /\ \A k \in 1..Len(audit[p]) : audit[p][k].ts = 0
    <2>1. PICK rec : /\ rec.ts = 0
                     /\ \A p \in Replica : audit[p] = <<rec>> \/ audit[p] = <<>>
      BY DEF Init
    <2>2. ASSUME NEW p \in Replica, audit[p] = <<rec>>
          PROVE  Len(audit[p]) \in {0, 1} /\ \A k \in 1..Len(audit[p]) : audit[p][k].ts = 0
      <3>1. Len(audit[p]) = 1 /\ audit[p][1] = rec
        BY <2>2
      <3> QED
        BY <2>1, <3>1
    <2>3. ASSUME NEW p \in Replica, audit[p] = <<>>
          PROVE  Len(audit[p]) \in {0, 1} /\ \A k \in 1..Len(audit[p]) : audit[p][k].ts = 0
      <3>1. Len(audit[p]) = 0
        BY <2>3
      <3> QED
        BY <3>1
    <2> QED
      BY <2>1, <2>2, <2>3
  <1>5. AnchorInv
    BY <1>2 DEF AnchorInv, Anchored
  <1>6. RepairInv
    BY <1>2 DEF RepairInv
  <1>7. \A r, p \in Replica : Covered(r, p, since[r][p], <<>>)
    BY <1>2, <1>4 DEF Covered
  <1> QED
    BY <1>2, <1>3, <1>5, <1>6, <1>7 DEF CursorInv

\* Coverage survives new accounts and new records: one that is inserted in order is
\* no older than the record the cursor is anchored at.
LEMMA CoveredGrows ==
    ASSUME TypeInv, KnownInv, [Next]_vars, NEW r \in Replica, NEW p \in Replica, NEW t \in Nat,
           NEW l, Anchored(p, t), Covered(r, p, t, l)
    PROVE  Covered(r, p, t, l)'
  <1>1. known[r] \subseteq known'[r]
    BY KnownStep
  <1>2. CASE audit'[p] = audit[p]
    BY <1>1, <1>2 DEF Covered, InOrder
  <1>3. ASSUME Len(audit'[p]) = Len(audit[p]) + 1,
               \A i \in 1..Len(audit[p]) : audit'[p][i] = audit[p][i],
               Len(audit'[p]) <= AuditLimit,
               NEW k \in 1..Len(audit'[p]), audit'[p][k].ts < t, InOrder(p, k)'
        PROVE  \/ audit'[p][k].row \in known'[r]
               \/ \E j \in 1..Len(l) : l[j].row = audit'[p][k].row
    <2>1. Len(audit[p]) \in Nat /\ AuditLimit \in Nat
      BY AccountsAssumption, AuditGrows
    <2>2. /\ \A i \in 1..Len(audit[p]) : audit[p][i].ts \in Nat
          /\ \A i \in 1..Len(audit'[p]) : audit'[p][i].ts \in Nat
      BY TypeStep, RecordsAre DEF TypeInv
    <2>3. ASSUME k = Len(audit[p]) + 1 PROVE FALSE
      <3>1. CASE t = 0
        BY <1>3, <2>2, <3>1
      <3>2. ASSUME NEW j \in 1..Len(audit[p]), audit[p][j].ts >= t PROVE FALSE
        <4>1. j \in 1..k /\ j \in 1..Len(audit'[p]) /\ audit'[p][j] = audit[p][j]
          BY <1>3, <2>1, <2>3
        <4>2. audit'[p][j].ts <= audit'[p][k].ts
          BY <1>3, <4>1 DEF InOrder
        <4> QED
          BY <1>3, <2>2, <3>2, <4>1, <4>2
      <3> QED
        BY <3>1, <3>2 DEF Anchored
    <2>4. k \in 1..Len(audit[p]) /\ Len(audit[p]) <= AuditLimit
      BY <1>3, <2>1, <2>3
    <2>5. InOrder(p, k)
      <3>1. \A j \in 1..k : j \in 1..Len(audit[p])
        BY <2>1, <2>4
      <3> QED
        BY <1>3, <2>4, <3>1 DEF InOrder
    <2> QED
      BY <1>1, <1>3, <2>4, <2>5 DEF Covered
  <1> QED
    BY <1>2, <1>3, AuditGrows DEF Covered

\* Coverage needs no record whose account is known.
LEMMA CoveredDrops ==
    ASSUME NEW r \in Replica, NEW p \in Replica, NEW t, NEW l \in Seq(Record), l # <<>>,
           Head(l).row \in known[r], Covered(r, p, t, l)
    PROVE  Covered(r, p, t, Tail(l))
  <1>1. /\ Len(l) \in Nat /\ Head(l) = l[1] /\ Len(Tail(l)) = Len(l) - 1
        /\ \A k \in 1..(Len(l) - 1) : Tail(l)[k] = l[k + 1]
    BY RecordsAre
  <1> SUFFICES ASSUME Len(audit[p]) <= AuditLimit, NEW k \in 1..Len(audit[p]), audit[p][k].ts < t,
                      InOrder(p, k), audit[p][k].row \notin known[r]
               PROVE  \E j \in 1..Len(Tail(l)) : Tail(l)[j].row = audit[p][k].row
    BY DEF Covered
  <1>2. PICK j \in 1..Len(l) : l[j].row = audit[p][k].row
    BY DEF Covered
  <1>3. j # 1
    BY <1>1, <1>2
  <1>4. j - 1 \in 1..(Len(l) - 1) /\ (j - 1) + 1 = j
    BY <1>1, <1>2, <1>3
  <1>5. Tail(l)[j - 1].row = audit[p][k].row
    BY <1>1, <1>2, <1>4
  <1> QED
    BY <1>1, <1>4, <1>5

\* Every step keeps the invariant of the cursor.
LEMMA CursorStep == TypeInv /\ CursorInv /\ [Next]_vars => CursorInv'
  <1> SUFFICES ASSUME TypeInv, CursorInv, [Next]_vars PROVE CursorInv'
    OBVIOUS
  <1>0. TypeInv' /\ KnownInv' /\ AnchorInv' /\ RepairInv'
    BY TypeStep, KnownStep, AnchorStep, RepairInvStep DEF CursorInv
  <1>1. refused => refused'
    <2>1. ASSUME NEW h \in Handler, AppendAudit(h) PROVE refused' = refused
      BY <2>1 DEF AppendAudit
    <2>2. ASSUME NEW r \in Replica, Reconcile(r) PROVE refused => refused'
      BY <2>2 DEF Reconcile, FetchAudit, SkipRecord, ProposeRepair, RepairReturns, EndScan
    <2> QED
      BY <2>1, <2>2, WhoScans
  <1> SUFFICES ASSUME ~refused', NEW r \in Replica
               PROVE  /\ \A p \in Replica : Covered(r, p, since[r][p], <<>>)'
                      /\ scan'[r] # NoScan => Covered(r, scan[r].peer, scan[r].max, scan[r].logs)'
    BY <1>0 DEF CursorInv
  <1>2. /\ \A p \in Replica : Covered(r, p, since[r][p], <<>>)
        /\ scan[r] # NoScan => Covered(r, scan[r].peer, scan[r].max, scan[r].logs)
    BY <1>1 DEF CursorInv
  <1>3. \A p \in Replica : since[r][p] \in Nat /\ Anchored(p, since[r][p])
    BY DEF TypeInv, CursorInv, AnchorInv
  <1>4. scan[r] # NoScan => /\ scan[r].peer \in Replica /\ scan[r].max \in Nat
                            /\ Anchored(scan[r].peer, scan[r].max)
                            /\ scan[r].logs \in Seq(Record)
    BY ScanCases DEF CursorInv, AnchorInv
  <1>5. ASSUME NEW p \in Replica, since'[r][p] = since[r][p] PROVE Covered(r, p, since[r][p], <<>>)'
    <2>1. PICK t, l : t = since[r][p] /\ l = <<>>
      OBVIOUS
    <2>2. Covered(r, p, t, l)'
      BY <1>2, <1>3, <2>1, CoveredGrows DEF CursorInv
    <2> QED
      BY <1>5, <2>1, <2>2 DEF Covered
  <1>6. ASSUME scan'[r] = scan[r], scan[r] # NoScan
        PROVE  Covered(r, scan[r].peer, scan[r].max, scan[r].logs)'
    <2>1. PICK p, t, l : p = scan[r].peer /\ t = scan[r].max /\ l = scan[r].logs
      OBVIOUS
    <2>2. Covered(r, p, t, l)'
      BY <1>2, <1>4, <1>6, <2>1, CoveredGrows DEF CursorInv
    <2> QED
      BY <1>6, <2>1, <2>2 DEF Covered
  <1>7. ASSUME NEW s \in Replica \ {r}, Reconcile(s)
        PROVE  scan'[r] = scan[r] /\ since'[r] = since[r]
    BY <1>7 DEF Reconcile, FetchAudit, SkipRecord, ProposeRepair, RepairReturns, EndScan, TypeInv
  <1>8. ASSUME NEW h \in Handler, AppendAudit(h) PROVE UNCHANGED <<scan, since>>
    BY <1>8 DEF AppendAudit
  <1>9. ASSUME Reconcile(r), ~EndScan(r) PROVE since' = since
    BY <1>9 DEF Reconcile, FetchAudit, SkipRecord, ProposeRepair, RepairReturns
  <1>10. ASSUME NEW p \in Replica, FetchAudit(r, p)
         PROVE  Covered(r, scan[r].peer, scan[r].max, scan[r].logs)'
    <2> DEFINE t == since[r][p]
               L == Len(audit[p])
    <2>1. PICK l \in ListAuditLogs(p, t) :
            /\ scan'[r] = [peer |-> p, logs |-> l, idx |-> 0, max |-> l[1].ts]
            /\ UNCHANGED <<audit, known>>
      BY <1>10 DEF FetchAudit, TypeInv
    <2>2. t \in Nat
      BY <1>3
    <2>3. L <= AuditLimit => \A k \in 1..L : audit[p][k].ts >= t =>
                                \E n \in 1..Len(l) : l[n] = audit[p][k]
      BY <2>2, ListIs
    <2> SUFFICES ASSUME L <= AuditLimit, NEW k \in 1..L, InOrder(p, k),
                        audit[p][k].row \notin known[r]
                 PROVE  \E j \in 1..Len(l) : l[j].row = audit[p][k].row
      BY <2>1 DEF Covered, InOrder
    <2>4. ~(audit[p][k].ts < t)
      BY <1>2 DEF Covered
    <2>5. audit[p][k].ts \in Nat
      BY RecordsAre DEF TypeInv
    <2> QED
      BY <2>2, <2>3, <2>4, <2>5
  <1>11. ASSUME scan[r] # NoScan, scan[r].logs # <<>>, Head(scan[r].logs).row \in known[r],
                scan'[r] = ScanWith(r, Tail(scan[r].logs), 0)
         PROVE  Covered(r, scan[r].peer, scan[r].max, scan[r].logs)'
    <2> DEFINE l == Tail(scan[r].logs)
    <2>1. Covered(r, scan[r].peer, scan[r].max, l)
      BY <1>2, <1>4, <1>11, CoveredDrops
    <2>2. /\ scan'[r].peer = scan[r].peer /\ scan'[r].max = scan[r].max
          /\ scan'[r].logs = l
      BY <1>11 DEF ScanWith
    <2>3. PICK p, t, x : p = scan[r].peer /\ t = scan[r].max /\ x = l
      OBVIOUS
    <2> HIDE DEF l
    <2>4. Covered(r, p, t, x)'
      BY <1>4, <1>11, <2>1, <2>3, CoveredGrows DEF CursorInv
    <2> QED
      BY <2>2, <2>3, <2>4 DEF Covered
  <1>12. CASE SkipRecord(r)
    <2>1. scan[r] # NoScan /\ scan[r].logs # <<>> /\ scan[r].idx = 0
      BY <1>12 DEF SkipRecord
    <2>2. scan' = [scan EXCEPT ![r].logs = Tail(scan[r].logs)]
      BY <1>12 DEF SkipRecord
    <2>3. scan' = [scan EXCEPT ![r] = ScanWith(r, Tail(scan[r].logs), 0)]
      BY <2>1, <2>2, ScanExcept
    <2>4. scan'[r] = ScanWith(r, Tail(scan[r].logs), 0)
      BY <2>3 DEF TypeInv
    <2>5. Head(scan[r].logs).row \in known[r]
      BY <1>12 DEF SkipRecord, CursorInv, KnownInv
    <2>6. since' = since
      BY <1>12 DEF SkipRecord
    <2> QED
      BY <1>5, <1>11, <2>1, <2>4, <2>5, <2>6
  <1>13. CASE ProposeRepair(r)
    <2>1. scan' = [scan EXCEPT ![r].idx = committed + 1] /\ scan[r] # NoScan /\ since' = since
      BY <1>13 DEF ProposeRepair
    <2>2. scan'[r].peer = scan[r].peer /\ scan'[r].max = scan[r].max /\ scan'[r].logs = scan[r].logs
      BY <2>1, ScanCases DEF TypeInv
    <2>3. Covered(r, scan[r].peer, scan[r].max, scan[r].logs)'
      <3>1. PICK p, t, l : p = scan[r].peer /\ t = scan[r].max /\ l = scan[r].logs
        OBVIOUS
      <3>2. Covered(r, p, t, l)'
        BY <1>2, <1>4, <2>1, <3>1, CoveredGrows DEF CursorInv
      <3> QED
        BY <2>2, <3>1, <3>2 DEF Covered
    <2> QED
      BY <1>5, <2>1, <2>3
  <1>14. CASE RepairReturns(r)
    <2>1. scan[r] # NoScan /\ scan[r].logs # <<>> /\ scan[r].idx > 0 /\ since' = since
      BY <1>14 DEF RepairReturns, TypeInv, RepairsHaveRecord
    <2>2. scan' = [scan EXCEPT ![r].idx = 0, ![r].logs = Tail(scan[r].logs)]
      BY <1>14, <2>1 DEF RepairReturns, TypeInv
    <2>3. scan' = [scan EXCEPT ![r] = ScanWith(r, Tail(scan[r].logs), 0)]
      BY <2>1, <2>2, ScanExcept
    <2>4. scan'[r] = ScanWith(r, Tail(scan[r].logs), 0)
      BY <2>3 DEF TypeInv
    <2>5. Applied(r) >= scan[r].idx
      BY <1>14 DEF RepairReturns
    <2>6. Head(scan[r].logs).row \in known[r]
      BY <2>1, <2>5 DEF CursorInv, RepairInv
    <2> QED
      BY <1>5, <1>11, <2>1, <2>4, <2>6
  <1>15. CASE EndScan(r)
    <2>1. /\ scan[r] # NoScan /\ scan[r].logs = <<>> /\ scan'[r] = NoScan
          /\ since' = [since EXCEPT ![r][scan[r].peer] = scan[r].max]
      BY <1>15 DEF EndScan, TypeInv
    <2>2. ASSUME NEW p \in Replica PROVE Covered(r, p, since[r][p], <<>>)'
      <3>1. CASE p # scan[r].peer
        BY <1>5, <2>1, <3>1 DEF TypeInv
      <3>2. CASE p = scan[r].peer
        <4>1. since'[r][p] = scan[r].max
          BY <2>1, <3>2, <1>4 DEF TypeInv
        <4>2. Covered(r, p, scan[r].max, <<>>)
          BY <1>2, <2>1, <3>2
        <4>3. PICK t, l : t = scan[r].max /\ l = <<>>
          OBVIOUS
        <4>4. Covered(r, p, t, l)'
          BY <1>4, <2>1, <3>2, <4>2, <4>3, CoveredGrows DEF CursorInv
        <4> QED
          BY <4>1, <4>3, <4>4 DEF Covered
      <3> QED
        BY <3>1, <3>2
    <2> QED
      BY <2>1, <2>2
  <1>16. CASE UNCHANGED <<scan, since>>
    BY <1>5, <1>6, <1>16
  <1> QED
    BY <1>5, <1>6, <1>7, <1>8, <1>9, <1>10, <1>12, <1>13, <1>14, <1>15, <1>16, WhoScans
      DEF Reconcile

\* While no proposal of a reconciler has failed or got lost and the records of a
\* replica fit into one answer, the cursor passes no record of an account that the
\* reconciler's replica never had, unless it was inserted after a record with a
\* later stamp (StartUserReconciler, ListAuditLogs, recordAudit).
THEOREM CursorSkipsNobody == Spec => []CursorPassesKnownUsers
  <1>1. CursorInv => CursorPassesKnownUsers
    <2> SUFFICES ASSUME CursorInv, ~refused, NEW r \in Replica, NEW p \in Replica,
                        Len(audit[p]) <= AuditLimit,
                        NEW k \in 1..Len(audit[p]), audit[p][k].ts < since[r][p],
                        InOrder(p, k)
                 PROVE  audit[p][k].row \in known[r]
      BY DEF CursorPassesKnownUsers
    <2>1. Covered(r, p, since[r][p], <<>>)
      BY DEF CursorInv
    <2> QED
      BY <2>1 DEF Covered
  <1> QED
    BY <1>1, TypeInit, TypeStep, CursorInit, CursorStep, PTL DEF Spec

=============================================================================

------------------------------- MODULE Apply -------------------------------
(***************************************************************************)
(* Applying committed entries on one replica (consensus.go applyCommitted, *)
(* storage.go HasAppliedEvent and RecordAppliedEvent).                     *)
(*                                                                         *)
(* applyCommitted has no lock around it: the loop goroutine runs it on     *)
(* every tick, and so does every request handler inside Propose, each with *)
(* its own copy of lastApplied, while HandleAppendEntries may take         *)
(* lastApplied and commitIndex back.  Within one leadership the row at an  *)
(* index is the same on every replica (Replication!FollowerPrefix), so an  *)
(* event is identified with its index here.                                *)
(***************************************************************************)
EXTENDS Naturals, Sequences, FiniteSets

CONSTANTS
    Thread,     \* the goroutines that run applyCommitted
    MaxLog,     \* bound on the rows of raft_log
    MaxErrors,  \* bound on database errors
    MaxRewinds  \* bound on rejected AppendEntries that take lastApplied back

ASSUME BoundAssumption == MaxLog \in Nat /\ MaxErrors \in Nat /\ MaxRewinds \in Nat

VARIABLES
    leading,        \* role = leader
    rows,           \* raft_log has the rows 1..rows
    commitIndex,    \* RaftState.CommitIndex
    lastApplied,    \* RaftState.LastApplied
    raftApplied,    \* the events listed in raft_applied
    applyErr,       \* applyErrIndex while applyErr is set, else 0
    run,            \* the local variables of a thread inside applyCommitted
    effects,        \* history: the events whose commands were executed, in order
    ignored,        \* history: the events whose error was ignorable
    errors,
    rewinds

vars == <<leading, rows, commitIndex, lastApplied, raftApplied, applyErr, run, effects, ignored,
          errors, rewinds>>

Index == 1..MaxLog

\* at is the row the thread works on, upto the last row its query returned.
Run == [pc : {"idle", "check", "apply", "record", "advance"}, at : 0..MaxLog, upto : 0..MaxLog]
Idle == [pc |-> "idle", at |-> 0, upto |-> 0]

\* Every variable has its type; no goroutine works on a row that is not there.
TypeOK ==
    /\ leading \in BOOLEAN
    /\ rows \in 0..MaxLog
    /\ commitIndex \in 0..MaxLog
    /\ lastApplied \in 0..MaxLog
    /\ raftApplied \subseteq Index
    /\ applyErr \in 0..MaxLog
    /\ run \in [Thread -> Run]
    /\ effects \in Seq(Index)
    /\ ignored \subseteq Index
    /\ errors \in 0..MaxErrors /\ rewinds \in 0..MaxRewinds

\* A replica that has just been elected on an empty log.
Init ==
    /\ leading = TRUE
    /\ rows = 0 /\ commitIndex = 0 /\ lastApplied = 0
    /\ raftApplied = {} /\ applyErr = 0
    /\ run = [t \in Thread |-> Idle]
    /\ effects = <<>> /\ ignored = {}
    /\ errors = 0 /\ rewinds = 0

Smaller(a, b) == IF a < b THEN a ELSE b

-----------------------------------------------------------------------------
(* applyCommitted.                                                         *)

\* Copy lastApplied and commitIndex, query the rows between them.
Begin(t) ==
    /\ run[t].pc = "idle"
    /\ lastApplied < Smaller(commitIndex, rows)
    /\ run' = [run EXCEPT ![t] = [pc |-> "check", at |-> lastApplied + 1,
                                  upto |-> Smaller(commitIndex, rows)]]
    /\ UNCHANGED <<leading, rows, commitIndex, lastApplied, raftApplied, applyErr, effects, ignored,
                   errors, rewinds>>

\* HasAppliedEvent.
CheckApplied(t) ==
    /\ run[t].pc = "check"
    /\ run' = [run EXCEPT ![t].pc = IF run[t].at \in raftApplied THEN "advance" ELSE "apply"]
    /\ UNCHANGED <<leading, rows, commitIndex, lastApplied, raftApplied, applyErr, effects, ignored,
                   errors, rewinds>>

\* The applier succeeds, fails with an error isIgnorableApplyError accepts,
\* or fails with another error, which ends the run.
ApplierSucceeds(t) ==
    /\ run[t].pc = "apply"
    /\ effects' = Append(effects, run[t].at)
    /\ run' = [run EXCEPT ![t].pc = "record"]
    /\ UNCHANGED <<leading, rows, commitIndex, lastApplied, raftApplied, applyErr, ignored, errors,
                   rewinds>>

ApplierIgnored(t) ==
    /\ run[t].pc = "apply"
    /\ ignored' = ignored \cup {run[t].at}
    /\ run' = [run EXCEPT ![t].pc = "record"]
    /\ UNCHANGED <<leading, rows, commitIndex, lastApplied, raftApplied, applyErr, effects, errors,
                   rewinds>>

\* Mutant of ApplierFails: the run goes on with the next row.
ApplierFailsOnward(t) ==
    /\ run[t].pc = "apply"
    /\ errors < MaxErrors
    /\ errors' = errors + 1
    /\ applyErr' = run[t].at
    /\ run' = [run EXCEPT ![t].pc = "advance"]
    /\ UNCHANGED <<leading, rows, commitIndex, lastApplied, raftApplied, effects, ignored, rewinds>>

ApplierFails(t) ==
    /\ run[t].pc = "apply"
    /\ errors < MaxErrors
    /\ errors' = errors + 1
    /\ applyErr' = run[t].at
    /\ run' = [run EXCEPT ![t] = Idle]
    /\ UNCHANGED <<leading, rows, commitIndex, lastApplied, raftApplied, effects, ignored, rewinds>>

\* RecordAppliedEvent: INSERT OR IGNORE.
Record(t) ==
    /\ run[t].pc = "record"
    /\ raftApplied' = raftApplied \cup {run[t].at}
    /\ run' = [run EXCEPT ![t].pc = "advance"]
    /\ UNCHANGED <<leading, rows, commitIndex, lastApplied, applyErr, effects, ignored, errors,
                   rewinds>>

\* HasAppliedEvent or RecordAppliedEvent fails: the run ends, applyErr is not set.
StorageFails(t) ==
    /\ run[t].pc \in {"check", "record"}
    /\ errors < MaxErrors
    /\ errors' = errors + 1
    /\ run' = [run EXCEPT ![t] = Idle]
    /\ UNCHANGED <<leading, rows, commitIndex, lastApplied, raftApplied, applyErr, effects, ignored,
                   rewinds>>

\* Mutant of Advance: an apply error is not cleared.
AdvanceKeepError(t) ==
    /\ run[t].pc = "advance"
    /\ lastApplied' = run[t].at
    /\ run' = [run EXCEPT ![t] = IF run[t].at < run[t].upto
                                 THEN [pc |-> "check", at |-> run[t].at + 1, upto |-> run[t].upto]
                                 ELSE Idle]
    /\ UNCHANGED <<leading, rows, commitIndex, raftApplied, applyErr, effects, ignored, errors,
                   rewinds>>

\* Mutant of Advance: one row too many.
AdvanceTooFar(t) ==
    /\ run[t].pc = "advance"
    /\ lastApplied' = run[t].at
    /\ applyErr' = IF applyErr <= run[t].at THEN 0 ELSE applyErr
    /\ run' = [run EXCEPT ![t] = IF run[t].at <= run[t].upto
                                 THEN [pc |-> "check", at |-> run[t].at + 1, upto |-> run[t].upto]
                                 ELSE Idle]
    /\ UNCHANGED <<leading, rows, commitIndex, raftApplied, effects, ignored, errors, rewinds>>

\* lastApplied takes the thread's position, whatever it was meanwhile; an
\* apply error at or below it is over.
Advance(t) ==
    /\ run[t].pc = "advance"
    /\ lastApplied' = run[t].at
    /\ applyErr' = IF applyErr <= run[t].at THEN 0 ELSE applyErr
    /\ run' = [run EXCEPT ![t] = IF run[t].at < run[t].upto
                                 THEN [pc |-> "check", at |-> run[t].at + 1, upto |-> run[t].upto]
                                 ELSE Idle]
    /\ UNCHANGED <<leading, rows, commitIndex, raftApplied, effects, ignored, errors, rewinds>>

-----------------------------------------------------------------------------
(* The rest of the replica.                                                *)

\* Propose appends a row on a leader without apply error; HandleAppendEntries
\* appends one on a follower.
AppendRow ==
    /\ rows < MaxLog
    /\ leading => applyErr = 0
    /\ rows' = rows + 1
    /\ UNCHANGED <<leading, commitIndex, lastApplied, raftApplied, applyErr, run, effects, ignored,
                   errors, rewinds>>

\* recalculateCommitIndex never passes the last row; the leaderCommit of an
\* AppendEntries request may.
CommitTo(i) ==
    /\ commitIndex < i
    /\ leading => i <= rows
    /\ commitIndex' = i
    /\ UNCHANGED <<leading, rows, lastApplied, raftApplied, applyErr, run, effects, ignored, errors,
                   rewinds>>

\* HandleAppendEntries finds no matching row at prev and goes back behind it.
Rewind(prev) ==
    /\ ~leading
    /\ rewinds < MaxRewinds
    /\ rewinds' = rewinds + 1
    /\ rows' = Smaller(rows, prev - 1)
    /\ lastApplied' = Smaller(lastApplied, prev - 1)
    /\ commitIndex' = Smaller(commitIndex, prev - 1)
    /\ UNCHANGED <<leading, raftApplied, applyErr, run, effects, ignored, errors>>

\* The replica wins or loses the leadership.
ChangeRole ==
    /\ leading' = ~leading
    /\ UNCHANGED <<rows, commitIndex, lastApplied, raftApplied, applyErr, run, effects, ignored,
                   errors, rewinds>>

-----------------------------------------------------------------------------
ApplierStep(t) == ApplierSucceeds(t) \/ ApplierIgnored(t) \/ ApplierFails(t)

Next ==
    \/ \E t \in Thread :
        \/ Begin(t)
        \/ CheckApplied(t)
        \/ ApplierStep(t)
        \/ Record(t)
        \/ StorageFails(t)
        \/ Advance(t)
    \/ AppendRow
    \/ \E i \in Index : CommitTo(i) \/ Rewind(i)
    \/ ChangeRole

Spec == Init /\ [][Next]_vars

\* Every thread keeps running; MaxErrors makes database errors transient.
Fairness ==
    \A t \in Thread : WF_vars(Begin(t) \/ CheckApplied(t) \/ ApplierStep(t) \/ Record(t) \/ Advance(t))
FairSpec == Spec /\ Fairness

-----------------------------------------------------------------------------
\* However many threads apply at once, and however lastApplied is taken back
\* and forth, every event up to lastApplied is recorded, and was executed or
\* ignored: what waitForApplied returns for has happened.
NothingSkipped ==
    /\ 1..lastApplied \subseteq raftApplied
    /\ \A i \in raftApplied : i \in ignored \/ \E k \in 1..Len(effects) : effects[k] = i

\* However the threads overtake each other, the first execution of a command
\* comes after every earlier command was executed or ignored: repetitions
\* aside, the database sees the commands in log order.
AppliedInOrder ==
    \A k \in 1..Len(effects) : \A i \in Index :
        i < effects[k] => i \in ignored \/ \E j \in 1..(k - 1) : effects[j] = i

\* An apply error at a row that is still to be applied is overcome once its
\* cause is over, and Propose accepts writes again: applyCommitted repairs
\* errors "to prevent the state machine from getting permanently stuck".  Stated
\* for a replica that never had to cut its log back (Rewind may remove the row
\* that failed, and then no run of applyCommitted reaches it), and not for an
\* error published after another goroutine has passed the row, which stays.
WritesResume ==
    (leading /\ applyErr > lastApplied) ~> (~leading \/ applyErr = 0 \/ rewinds > 0)
=============================================================================

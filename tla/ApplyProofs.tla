---------------------------- MODULE ApplyProofs ----------------------------
(* Theorems about Apply, for every number of goroutines and every bound.   *)
EXTENDS Apply, TLAPS

\* The event at index i was executed or ignored.
Processed(i) == i \in ignored \/ \E k \in 1..Len(effects) : effects[k] = i

\* What makes TypeOK and NothingSkipped inductive: a thread inside
\* applyCommitted stands on a row its query returned, everything before that
\* row is recorded, and it moves past the row only once the row is recorded.
ThreadInv ==
    \A t \in Thread : run[t].pc # "idle" =>
        /\ run[t].at \in Index /\ run[t].at <= run[t].upto
        /\ 1..(run[t].at - 1) \subseteq raftApplied
        /\ run[t].pc = "record" => Processed(run[t].at)
        /\ run[t].pc = "advance" => run[t].at \in raftApplied
RecordInv ==
    /\ 1..lastApplied \subseteq raftApplied
    /\ \A i \in raftApplied : Processed(i)
Inv == TypeOK /\ ThreadInv /\ RecordInv

\* Executing one more event keeps what was processed.
LEMMA AppendKeeps ==
    ASSUME NEW s \in Seq(Index), NEW e \in Index
    PROVE  /\ Append(s, e) \in Seq(Index)
           /\ \E k \in 1..Len(Append(s, e)) : Append(s, e)[k] = e
           /\ \A i : (\E k \in 1..Len(s) : s[k] = i)
                       => \E k \in 1..Len(Append(s, e)) : Append(s, e)[k] = i
<1>1. /\ Append(s, e) \in Seq(Index) /\ Len(Append(s, e)) = Len(s) + 1 /\ Len(s) \in Nat
      /\ Append(s, e)[Len(s) + 1] = e
      /\ \A k \in 1..Len(s) : Append(s, e)[k] = s[k]
  OBVIOUS
<1> QED
  BY <1>1

\* A step that only moves thread t, to a position that satisfies its part of
\* the invariant, preserves the invariant.
LEMMA ThreadMoves ==
    ASSUME Inv, NEW t \in Thread, NEW r \in Run, run' = [run EXCEPT ![t] = r],
           raftApplied \subseteq raftApplied', \A i \in Index : Processed(i) => Processed(i)',
           r.pc # "idle" => /\ r.at \in Index /\ r.at <= r.upto
                            /\ 1..(r.at - 1) \subseteq raftApplied'
                            /\ r.pc = "record" => Processed(r.at)'
                            /\ r.pc = "advance" => r.at \in raftApplied'
    PROVE  ThreadInv'
<1>1. run \in [Thread -> Run]
  BY DEF Inv, TypeOK
<1> QED
  BY <1>1 DEF Inv, ThreadInv

\* Every step preserves the invariant.
LEMMA InvStep == Inv /\ [Next]_vars => Inv'
<1> SUFFICES ASSUME Inv, [Next]_vars
             PROVE  Inv'
  OBVIOUS
<1>a. TypeOK /\ ThreadInv /\ RecordInv
  BY DEF Inv
<1>b. \A t \in Thread : run[t] \in Run
  BY <1>a DEF TypeOK
<1>c. Idle \in Run /\ Idle.pc = "idle"
  BY BoundAssumption DEF Idle, Run
<1>d. MaxLog \in Nat /\ MaxErrors \in Nat /\ MaxRewinds \in Nat
  BY BoundAssumption
<1>1. ASSUME NEW t \in Thread, Begin(t)
      PROVE  Inv'
  <2> DEFINE r == [pc |-> "check", at |-> lastApplied + 1, upto |-> Smaller(commitIndex, rows)]
  <2>1. r \in Run /\ r.at \in Index /\ r.at <= r.upto
    BY <1>1, <1>a, <1>d DEF Begin, TypeOK, Smaller, Run, Index
  <2>2. r.pc = "check" /\ 1..(r.at - 1) \subseteq raftApplied
    BY <1>a DEF RecordInv, TypeOK
  <2>3. /\ run' = [run EXCEPT ![t] = r]
        /\ UNCHANGED <<leading, rows, commitIndex, lastApplied, raftApplied, applyErr, effects,
                       ignored, errors, rewinds>>
    BY <1>1 DEF Begin
  <2> HIDE DEF r
  <2>4. ThreadInv'
    BY <2>1, <2>2, <2>3, ThreadMoves DEF Processed
  <2> QED
    BY <1>a, <2>1, <2>3, <2>4 DEF Inv, TypeOK, RecordInv, Processed
<1>2. ASSUME NEW t \in Thread, CheckApplied(t)
      PROVE  Inv'
  <2> DEFINE pc == IF run[t].at \in raftApplied THEN "advance" ELSE "apply"
             r == [run[t] EXCEPT !.pc = pc]
  <2>1. r \in Run /\ r.pc = pc /\ r.at = run[t].at /\ r.upto = run[t].upto
    BY <1>b DEF Run
  <2>2. /\ run' = [run EXCEPT ![t] = r] /\ run[t].pc # "idle"
        /\ UNCHANGED <<leading, rows, commitIndex, lastApplied, raftApplied, applyErr, effects,
                       ignored, errors, rewinds>>
    BY <1>2, <1>a DEF CheckApplied, TypeOK
  <2> HIDE DEF r
  <2>3. ThreadInv'
    BY <1>a, <2>1, <2>2, ThreadMoves DEF ThreadInv, Processed
  <2> QED
    BY <1>a, <2>1, <2>2, <2>3 DEF Inv, TypeOK, RecordInv, Processed
<1>3. ASSUME NEW t \in Thread, ApplierSucceeds(t)
      PROVE  Inv'
  <2>0. LET e == [run[t] EXCEPT !.pc = "record"]
        IN  e \in Run /\ e.pc = "record" /\ e.at = run[t].at /\ e.upto = run[t].upto
    BY <1>b DEF Run
  <2>1. PICK r \in Run : /\ r = [run[t] EXCEPT !.pc = "record"]
                         /\ r.pc = "record" /\ r.at = run[t].at /\ r.upto = run[t].upto
    BY <2>0, Zenon
  <2>2. /\ run' = [run EXCEPT ![t] = r] /\ run[t].pc = "apply"
        /\ effects' = Append(effects, r.at)
        /\ UNCHANGED <<leading, rows, commitIndex, lastApplied, raftApplied, applyErr, ignored,
                       errors, rewinds>>
    BY <1>3, <1>a, <2>1 DEF ApplierSucceeds, TypeOK
  <2>3. r.at \in Index /\ r.at <= r.upto /\ 1..(r.at - 1) \subseteq raftApplied
    BY <1>a, <2>1, <2>2 DEF ThreadInv
  <2>4. effects' \in Seq(Index) /\ Processed(r.at)'
    BY <1>a, <2>2, <2>3, AppendKeeps DEF TypeOK, Processed
  <2>5. \A i : Processed(i) => Processed(i)'
    BY <1>a, <2>2, <2>3, AppendKeeps DEF TypeOK, Processed
  <2>6. ThreadInv'
    BY <2>1, <2>2, <2>3, <2>4, <2>5, ThreadMoves
  <2> QED
    BY <1>a, <2>1, <2>2, <2>4, <2>5, <2>6 DEF Inv, TypeOK, RecordInv
<1>4. ASSUME NEW t \in Thread, ApplierIgnored(t)
      PROVE  Inv'
  <2>0. LET e == [run[t] EXCEPT !.pc = "record"]
        IN  e \in Run /\ e.pc = "record" /\ e.at = run[t].at /\ e.upto = run[t].upto
    BY <1>b DEF Run
  <2>1. PICK r \in Run : /\ r = [run[t] EXCEPT !.pc = "record"]
                         /\ r.pc = "record" /\ r.at = run[t].at /\ r.upto = run[t].upto
    BY <2>0, Zenon
  <2>2. /\ run' = [run EXCEPT ![t] = r] /\ run[t].pc = "apply"
        /\ ignored' = ignored \cup {r.at}
        /\ UNCHANGED <<leading, rows, commitIndex, lastApplied, raftApplied, applyErr, effects,
                       errors, rewinds>>
    BY <1>4, <1>a, <2>1 DEF ApplierIgnored, TypeOK
  <2>3. r.at \in Index /\ r.at <= r.upto /\ 1..(r.at - 1) \subseteq raftApplied
    BY <1>a, <2>1, <2>2 DEF ThreadInv
  <2>4. Processed(r.at)' /\ \A i : Processed(i) => Processed(i)'
    BY <2>2 DEF Processed
  <2>5. ThreadInv'
    BY <2>1, <2>2, <2>3, <2>4, ThreadMoves
  <2> QED
    BY <1>a, <2>1, <2>2, <2>3, <2>4, <2>5 DEF Inv, TypeOK, RecordInv
<1>5. ASSUME NEW t \in Thread, ApplierFails(t) \/ StorageFails(t)
      PROVE  Inv'
  <2>1. /\ run' = [run EXCEPT ![t] = Idle] /\ errors' \in 0..MaxErrors
        /\ applyErr' \in 0..MaxLog
        /\ UNCHANGED <<leading, rows, commitIndex, lastApplied, raftApplied, effects, ignored,
                       rewinds>>
    BY <1>5, <1>a, <1>b, <1>d DEF ApplierFails, StorageFails, TypeOK, Run
  <2>2. ThreadInv'
    BY <1>c, <2>1, ThreadMoves DEF Processed
  <2> QED
    BY <1>a, <1>c, <2>1, <2>2 DEF Inv, TypeOK, RecordInv, Processed
<1>6. ASSUME NEW t \in Thread, Record(t)
      PROVE  Inv'
  <2> DEFINE r == [run[t] EXCEPT !.pc = "advance"]
  <2>1. r \in Run /\ r.pc = "advance" /\ r.at = run[t].at /\ r.upto = run[t].upto
    BY <1>b DEF Run
  <2>2. /\ run' = [run EXCEPT ![t] = r] /\ run[t].pc = "record"
        /\ raftApplied' = raftApplied \cup {run[t].at}
        /\ UNCHANGED <<leading, rows, commitIndex, lastApplied, applyErr, effects, ignored, errors,
                       rewinds>>
    BY <1>6, <1>a DEF Record, TypeOK
  <2>3. /\ run[t].at \in Index /\ run[t].at <= run[t].upto
        /\ 1..(run[t].at - 1) \subseteq raftApplied /\ Processed(run[t].at)
    BY <1>a, <2>2 DEF ThreadInv
  <2>4. \A i : Processed(i)' <=> Processed(i)
    BY <2>2 DEF Processed
  <2> HIDE DEF r
  <2>5. ThreadInv'
    BY <2>1, <2>2, <2>3, <2>4, ThreadMoves
  <2> QED
    BY <1>a, <2>1, <2>2, <2>3, <2>4, <2>5 DEF Inv, TypeOK, RecordInv
<1>7. ASSUME NEW t \in Thread, Advance(t)
      PROVE  Inv'
  <2>1. /\ run[t].pc = "advance" /\ lastApplied' = run[t].at
        /\ applyErr' \in {0, applyErr}
        /\ UNCHANGED <<leading, rows, commitIndex, raftApplied, effects, ignored, errors, rewinds>>
    BY <1>7 DEF Advance
  <2>2. /\ run[t].at \in Index /\ run[t].at <= run[t].upto /\ run[t].at \in raftApplied
        /\ 1..(run[t].at - 1) \subseteq raftApplied
    BY <1>a, <2>1 DEF ThreadInv
  <2>3. 1..run[t].at \subseteq raftApplied
    BY <1>d, <2>2 DEF Index
  <2>4. PICK r \in Run : /\ run' = [run EXCEPT ![t] = r]
                         /\ \/ r = Idle
                            \/ /\ r.pc = "check" /\ r.at = run[t].at + 1 /\ r.upto = run[t].upto
                               /\ run[t].at < run[t].upto
    <3>1. CASE run[t].at < run[t].upto
      <4> DEFINE s == [pc |-> "check", at |-> run[t].at + 1, upto |-> run[t].upto]
      <4>1. s \in Run /\ s.pc = "check" /\ s.at = run[t].at + 1 /\ s.upto = run[t].upto
        BY <1>b, <1>d, <2>2, <3>1 DEF Run, Index
      <4>2. run' = [run EXCEPT ![t] = s]
        BY <1>7, <3>1 DEF Advance
      <4> HIDE DEF s
      <4> QED
        BY <3>1, <4>1, <4>2
    <3>2. CASE ~(run[t].at < run[t].upto)
      BY <1>7, <1>a, <1>c, <3>2 DEF Advance, TypeOK
    <3> QED
      BY <3>1, <3>2
  <2>5. r.pc # "idle" => /\ r.pc = "check" /\ r.at \in Index /\ r.at <= r.upto
                         /\ 1..(r.at - 1) \subseteq raftApplied
    BY <1>b, <1>c, <1>d, <2>2, <2>3, <2>4 DEF Run, Index
  <2>6. ThreadInv'
    BY <2>1, <2>4, <2>5, ThreadMoves DEF Processed
  <2>7. TypeOK'
    BY <1>a, <1>d, <2>1, <2>2, <2>4 DEF TypeOK, Index
  <2>8. RecordInv'
    BY <1>a, <2>1, <2>3 DEF RecordInv, Processed
  <2> QED
    BY <2>6, <2>7, <2>8 DEF Inv
<1>8. CASE AppendRow
  BY <1>8, <1>a, <1>d DEF AppendRow, Inv, TypeOK, ThreadInv, RecordInv, Processed
<1>9. ASSUME NEW i \in Index, CommitTo(i)
      PROVE  Inv'
  BY <1>9, <1>a, <1>d DEF CommitTo, Inv, TypeOK, ThreadInv, RecordInv, Processed, Index
<1>10. ASSUME NEW i \in Index, Rewind(i)
       PROVE  Inv'
  <2>1. /\ i - 1 \in 0..MaxLog
        /\ rows' \in 0..MaxLog /\ commitIndex' \in 0..MaxLog
        /\ lastApplied' \in 0..MaxLog /\ lastApplied' <= lastApplied
        /\ rewinds' \in 0..MaxRewinds
        /\ UNCHANGED <<leading, raftApplied, applyErr, run, effects, ignored, errors>>
    BY <1>10, <1>a, <1>d DEF Rewind, Smaller, TypeOK, Index
  <2>2. 1..lastApplied' \subseteq raftApplied
    BY <1>a, <2>1 DEF RecordInv, TypeOK
  <2> QED
    BY <1>a, <2>1, <2>2 DEF Inv, TypeOK, ThreadInv, RecordInv, Processed
<1>11. CASE ChangeRole
  BY <1>11, <1>a DEF ChangeRole, Inv, TypeOK, ThreadInv, RecordInv, Processed
<1>12. CASE UNCHANGED vars
  BY <1>12, <1>a DEF vars, Inv, TypeOK, ThreadInv, RecordInv, Processed
<1> QED
  BY <1>1, <1>2, <1>3, <1>4, <1>5, <1>6, <1>7, <1>8, <1>9, <1>10, <1>11, <1>12
  DEF Next, ApplierStep

\* The inductive invariant holds in every reachable state.
LEMMA InvHolds == Spec => []Inv
<1>1. Init => Inv
  <2> SUFFICES ASSUME Init
               PROVE  Inv
    OBVIOUS
  <2>1. Idle \in Run /\ Idle.pc = "idle"
    BY BoundAssumption DEF Idle, Run
  <2>2. TypeOK
    BY <2>1, BoundAssumption DEF Init, TypeOK
  <2> QED
    BY <2>1, <2>2 DEF Init, Inv, ThreadInv, RecordInv
<1> QED
  BY <1>1, InvStep, PTL DEF Spec

\* Every variable of Apply keeps its type; in particular no thread works on
\* a row that its query did not return.
THEOREM TypeCorrect == Spec => []TypeOK
<1>1. Inv => TypeOK
  BY DEF Inv
<1> QED
  BY <1>1, InvHolds, PTL

\* However many goroutines run applyCommitted at once, every event up to
\* lastApplied is recorded in raft_applied and was executed or ignored
\* (NothingSkipped), so waitForApplied never returns early.
THEOREM NothingIsSkipped == Spec => []NothingSkipped
<1>1. Inv => NothingSkipped
  BY DEF Inv, RecordInv, NothingSkipped, Processed
<1> QED
  BY <1>1, InvHolds, PTL

\* Commands are executed in log order.  A thread executes the command of the
\* row it stands on, and ThreadInv says that the rows before it are recorded,
\* so each of them was processed before.
LEMMA OrderStep == Inv /\ AppliedInOrder /\ [Next]_vars => AppliedInOrder'
<1> SUFFICES ASSUME Inv, AppliedInOrder, [Next]_vars
             PROVE  AppliedInOrder'
  OBVIOUS
<1>a. effects \in Seq(Index) /\ \A i \in raftApplied : Processed(i)
  BY DEF Inv, TypeOK, RecordInv
<1>1. ASSUME NEW t \in Thread, ApplierSucceeds(t)
      PROVE  AppliedInOrder'
  <2>1. /\ run[t].at \in Index
        /\ \A i \in Index : i < run[t].at => i \in raftApplied
    <3>1. run[t].pc = "apply"
      BY <1>1 DEF ApplierSucceeds
    <3>2. run[t].at \in Index /\ 1..(run[t].at - 1) \subseteq raftApplied
      BY <3>1 DEF Inv, ThreadInv
    <3> QED
      BY <3>2, BoundAssumption DEF Index
  <2>2. /\ effects' = Append(effects, run[t].at) /\ ignored' = ignored
        /\ Len(effects) \in Nat /\ Len(effects') = Len(effects) + 1
        /\ effects'[Len(effects) + 1] = run[t].at
        /\ \A k \in 1..Len(effects) : effects'[k] = effects[k]
    BY <1>1, <1>a, <2>1 DEF ApplierSucceeds
  <2> SUFFICES ASSUME NEW k \in 1..Len(effects'), NEW i \in Index, i < effects'[k]
               PROVE  i \in ignored \/ \E j \in 1..(k - 1) : effects'[j] = i
    BY <2>2 DEF AppliedInOrder
  <2>3. CASE k = Len(effects) + 1
    <3>1. Processed(i)
      BY <1>a, <2>1, <2>2, <2>3
    <3> QED
      BY <2>2, <2>3, <3>1 DEF Processed
  <2>4. CASE k \in 1..Len(effects)
    <3>1. i \in ignored \/ \E j \in 1..(k - 1) : effects[j] = i
      BY <2>2, <2>4 DEF AppliedInOrder
    <3> QED
      BY <2>2, <2>4, <3>1
  <2> QED
    BY <2>2, <2>3, <2>4
<1>2. ASSUME NEW t \in Thread, ApplierIgnored(t)
      PROVE  AppliedInOrder'
  BY <1>2 DEF ApplierIgnored, AppliedInOrder
<1>3. CASE UNCHANGED <<effects, ignored>>
  BY <1>3 DEF AppliedInOrder
<1> QED
  BY <1>1, <1>2, <1>3
  DEF Next, ApplierStep, Begin, CheckApplied, ApplierFails, Record, StorageFails, Advance,
      AppendRow, CommitTo, Rewind, ChangeRole, vars

\* However the goroutines overtake each other and however lastApplied is taken
\* back, the first execution of a command comes after all earlier commands
\* were executed or ignored (AppliedInOrder).
THEOREM ExecutedInOrder == Spec => []AppliedInOrder
<1>1. Init => AppliedInOrder
  BY DEF Init, AppliedInOrder
<1> QED
  BY <1>1, OrderStep, InvHolds, PTL DEF Spec
=============================================================================

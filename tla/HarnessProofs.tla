---------------------------- MODULE HarnessProofs ----------------------------
(***************************************************************************)
(* No trigger of an earlier run starts the harness, and none of this run   *)
(* is slept over, for any number of writes of the operator.                *)
(***************************************************************************)
EXTENDS Harness, TLAPS

\* Once the trigger is cleared only the operator makes it "done"; until then,
\* and on the error paths, rc is not positive.
Triggers ==
  /\ pc \in {"clear", "format"} => rc = "zero"
  /\ pc \in {"format", "watch", "read", "wait"} /\ trigger = "done" => asked
  /\ pc \in Fuzzing \cup {"out"} /\ rc = "positive" => asked

\* A guest does not wait for the next change with an unread "done" behind it:
\* its watch was set before it read, and the event is still there.
NotSleptOver ==
  /\ pc \in {"read", "wait"} => watch = "set"
  /\ pc = "wait" /\ trigger = "done" => event

IInv == TypeOK /\ Triggers /\ NotSleptOver

\* Whatever was left in the store, nothing is asked for and rc is zero.
LEMMA InitInv == Init => IInv
<1> SUFFICES ASSUME Init PROVE IInv
  OBVIOUS
<1>1. writes \in Nat
  BY DEF Init
<1>2. asked \in BOOLEAN /\ event \in BOOLEAN
  BY DEF Init
<1>3. TypeOK
  BY <1>1, <1>2 DEF Init, TypeOK, PCs, Waiting
<1>4. Triggers /\ NotSleptOver
  BY DEF Init, Triggers, NotSleptOver, Fuzzing
<1> QED
  BY <1>3, <1>4 DEF IInv

\* The steps of the guest.
LEMMA GuestInv ==
  ASSUME IInv, Guest
  PROVE  IInv'
<1> USE DEF IInv, TypeOK, Triggers, NotSleptOver, PCs, Waiting, Fuzzing, Values, Goto, store,
            locals
<1>1. CASE ClearTrigger
  BY <1>1 DEF ClearTrigger
<1>2. CASE ClearFails
  BY <1>2 DEF ClearFails
<1>3. CASE FormatPath
  BY <1>3 DEF FormatPath
<1>4. CASE FormatFails
  BY <1>4 DEF FormatFails
<1>5. CASE WatchPath
  BY <1>5 DEF WatchPath
<1>6. CASE WatchFails
  BY <1>6 DEF WatchFails
<1>7. CASE Read \/ ReadFails
  BY <1>7 DEF Read, ReadFails
<1>8. CASE WaitEvent
  BY <1>8 DEF WaitEvent
<1>9. CASE Out
  BY <1>9 DEF Out
<1>10. CASE HarnessStart \/ Test \/ HarnessStop
  BY <1>10 DEF HarnessStart, Test, HarnessStop
<1> QED
  BY <1>1, <1>2, <1>3, <1>4, <1>5, <1>6, <1>7, <1>8, <1>9, <1>10 DEF Guest

\* What the operator writes is what it asks for.
LEMMA OperatorInv ==
  ASSUME IInv, NEW v \in Values, OperatorWrites(v)
  PROVE  IInv'
<1> USE DEF IInv, TypeOK, Triggers, NotSleptOver, OperatorWrites, locals
<1>1. writes' \in Nat
  OBVIOUS
<1>2. event' \in BOOLEAN /\ asked' \in BOOLEAN
  OBVIOUS
<1> QED
  BY <1>1, <1>2

\* Every step keeps the invariant.
LEMMA NextInv == IInv /\ [Next]_vars => IInv'
<1> SUFFICES ASSUME IInv, [Next]_vars PROVE IInv'
  OBVIOUS
<1>1. CASE UNCHANGED vars
  BY <1>1 DEF vars, store, locals, IInv, TypeOK, Triggers, NotSleptOver
<1>2. CASE Guest
  BY <1>2, GuestInv
<1>3. ASSUME NEW v \in Values, OperatorWrites(v) PROVE IInv'
  BY <1>3, OperatorInv
<1> QED
  BY <1>1, <1>2, <1>3 DEF Next

\* Every variable of the harness keeps its type.
THEOREM HarnessTypes == Spec => []TypeOK
<1>1. IInv => TypeOK
  BY DEF IInv
<1> QED
  BY <1>1, InitInv, NextInv, PTL DEF Spec

\* The harness starts, after a success of wait_harness_trigger(), only when the
\* operator asked for it after the guest cleared the trigger.
THEOREM StartsTriggered == Spec => []TriggeredByOperator
<1>1. IInv => TriggeredByOperator
  BY DEF IInv, Triggers, TriggeredByOperator
<1> QED
  BY <1>1, InitInv, NextInv, PTL DEF Spec

\* No wake-up is lost: whenever the operator writes "done", before the watch is
\* set, between a read and the wait, or later, a guest that waits has an event
\* waiting for it.  This is what TriggerIsHeard of Guest rests on.
THEOREM WakeUpsAreKept == Spec => []NotSleptOver
<1>1. IInv => NotSleptOver
  BY DEF IInv
<1> QED
  BY <1>1, InitInv, NextInv, PTL DEF Spec

=============================================================================

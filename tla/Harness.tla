------------------------------- MODULE Harness -------------------------------
(***************************************************************************)
(* fuzz.c: a Unikraft guest that waits for a trigger in the store and then *)
(* runs the code under test between two harness calls.                     *)
(*                                                                         *)
(* The operator writes the trigger whenever it likes: before the guest     *)
(* clears it, before the guest watches it, between a read of it and the    *)
(* wait for its next change.  An earlier run may have left one behind.     *)
(***************************************************************************)
EXTENDS Naturals

CONSTANTS
  MaxWrites,  \* bound: how often the operator writes
  MayFail     \* calls of the store, and asprintf(), may fail

VARIABLES
  pc,        \* where the guest is
  trigger,   \* what the store has at data/trigger-harness
  event,     \* an event waits for the guest in its watch
  path,      \* the local variables path and watch of wait_harness_trigger()
  watch,
  rc,        \* its result: negative, zero or positive
  inputs,    \* what test1 is when the guest tests it: "same" as test2 or not
  writes,    \* the writes of the operator so far
  asked      \* the operator wrote "done" after the guest cleared the trigger

store  == << trigger, event, writes, asked >>
locals == << path, watch, rc >>

vars == << pc, store, locals, inputs >>

Values == {"", "done", "other"}

Waiting == {"clear", "format", "watch", "read", "wait", "out"}
Fuzzing == {"start", "test", "stop", "exited"}
PCs     == Waiting \cup Fuzzing \cup {"crashed"}

Init ==
  /\ pc = "clear"
  /\ trigger \in Values /\ event = FALSE /\ writes = 0 /\ asked = FALSE
  /\ path = "garbage" /\ watch = "NULL" /\ rc = "zero"
  /\ inputs = "different"

-----------------------------------------------------------------------------
(* wait_harness_trigger().                                                 *)

Goto(l) == pc' = l

\* Mutant: the trigger is not cleared.
KeepTrigger ==
  /\ pc = "clear"
  /\ Goto("format")
  /\ UNCHANGED << store, locals, inputs >>

\* xs_write() of the empty trigger: what is there, and what the operator wrote
\* before, is gone.
ClearTrigger ==
  /\ pc = "clear"
  /\ trigger' = "" /\ asked' = FALSE
  /\ Goto("format")
  /\ UNCHANGED << event, writes, locals, inputs >>

ClearFails ==
  /\ pc = "clear"
  /\ MayFail
  /\ rc' = "negative"
  /\ Goto("out")
  /\ UNCHANGED << store, path, watch, inputs >>

\* asprintf() returns the length of the path, and nothing sets rc again.
FormatPath ==
  /\ pc = "format"
  /\ path' = "allocated" /\ rc' = "positive"
  /\ Goto("watch")
  /\ UNCHANGED << store, watch, inputs >>

\* What a failing asprintf() leaves in path is not defined.
FormatFails ==
  /\ pc = "format"
  /\ MayFail
  /\ rc' = "negative"
  /\ Goto("out")
  /\ UNCHANGED << store, path, watch, inputs >>

\* Mutant: the first read comes after the first event.
WatchThenWait ==
  /\ pc = "watch"
  /\ watch' = "set" /\ event' \in BOOLEAN
  /\ Goto("wait")
  /\ UNCHANGED << trigger, writes, asked, path, rc, inputs >>

\* xs_watch_path(): the store may send an event for the registration.
WatchPath ==
  /\ pc = "watch"
  /\ watch' = "set" /\ event' \in BOOLEAN
  /\ Goto("read")
  /\ UNCHANGED << trigger, writes, asked, path, rc, inputs >>

WatchFails ==
  /\ pc = "watch"
  /\ MayFail
  /\ watch' = "error" /\ rc' = "negative"
  /\ Goto("out")
  /\ UNCHANGED << store, path, inputs >>

Read ==
  /\ pc = "read"
  /\ Goto(IF trigger = "done" THEN "out" ELSE "wait")
  /\ UNCHANGED << store, locals, inputs >>

\* A failing xs_read() returns an error pointer, which strcmp() follows.
ReadFails ==
  /\ pc = "read"
  /\ MayFail
  /\ Goto("crashed")
  /\ UNCHANGED << store, locals, inputs >>

WaitEvent ==
  /\ pc = "wait"
  /\ event
  /\ event' = FALSE
  /\ Goto("read")
  /\ UNCHANGED << trigger, writes, asked, locals, inputs >>

\* free(path), xs_unwatch(watch), and back in my_init_module(), which does not
\* look at the result.  A path that is garbage may be NULL; freeing it, or
\* following the error pointer in watch, may be the guest's end.
Out ==
  /\ pc = "out"
  /\ \/ Goto("start")
     \/ (path = "garbage" \/ watch = "error") /\ Goto("crashed")
  /\ path' = "freed" /\ watch' = "NULL"
  /\ event' = FALSE
  /\ UNCHANGED << trigger, writes, asked, rc, inputs >>

-----------------------------------------------------------------------------
(* my_init_module().                                                       *)

\* The first harness() returns in a copy of the guest whose test1 is what the
\* fuzzer wants it to be.
HarnessStart ==
  /\ pc = "start"
  /\ inputs' \in {"same", "different"}
  /\ Goto("test")
  /\ UNCHANGED << store, locals >>

\* test() stores through NULL when test1 is test2.
Test ==
  /\ pc = "test"
  /\ Goto(IF inputs = "same" THEN "crashed" ELSE "stop")
  /\ UNCHANGED << store, locals, inputs >>

HarnessStop ==
  /\ pc = "stop"
  /\ Goto("exited")
  /\ UNCHANGED << store, locals, inputs >>

-----------------------------------------------------------------------------
(* The operator.                                                           *)

OperatorWrites(v) ==
  /\ writes < MaxWrites
  /\ writes' = writes + 1
  /\ trigger' = v
  /\ event' = (event \/ watch = "set")
  /\ asked' = (asked \/ v = "done")
  /\ UNCHANGED << pc, locals, inputs >>

-----------------------------------------------------------------------------
Guest ==
  \/ ClearTrigger \/ ClearFails \/ FormatPath \/ FormatFails
  \/ WatchPath \/ WatchFails \/ Read \/ ReadFails \/ WaitEvent \/ Out
  \/ HarnessStart \/ Test \/ HarnessStop

Next == Guest \/ \E v \in Values : OperatorWrites(v)

Spec == Init /\ [][Next]_vars

-----------------------------------------------------------------------------
TypeOK ==
  /\ pc \in PCs
  /\ trigger \in Values /\ event \in BOOLEAN
  /\ path \in {"garbage", "allocated", "freed"}
  /\ watch \in {"NULL", "set", "error"}
  /\ rc \in {"negative", "zero", "positive"}
  /\ inputs \in {"same", "different"}
  /\ writes \in Nat /\ asked \in BOOLEAN

\* When wait_harness_trigger() succeeds the operator asked for it, in this run
\* and not in an earlier one: a trigger left behind starts nothing.  The caller
\* does not look at the result, so the condition on rc is needed.
TriggeredByOperator == pc \in Fuzzing /\ rc = "positive" => asked

=============================================================================

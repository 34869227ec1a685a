-------------------------------- MODULE Guest --------------------------------
(***************************************************************************)
(* A program from its command line on: Boot, and the harness of fuzz.c as  *)
(* the application of a Unikraft guest that was started with -a fuzz.      *)
(***************************************************************************)
EXTENDS Boot

CONSTANT MaxWrites   \* bound: how often the operator writes the trigger

ASSUME GuestAssumption == MaxWrites \in Nat

VARIABLES
  hpc, trigger, event, path, watch, hrc, inputs, writes, asked

hvars == << hpc, trigger, event, path, watch, hrc, inputs, writes, asked >>

vars == << bvars, hvars >>

H == INSTANCE Harness WITH pc <- hpc, rc <- hrc

GuestInit == Init /\ H!Init

\* thread_func_fuzz() runs.
Fuzzing == pc = "running" /\ settings.app = "fuzz"

BootSteps == BootStep /\ UNCHANGED hvars

FuzzSteps == Fuzzing /\ H!Guest /\ UNCHANGED bvars

\* What was written before the harness started is the trigger of H!Init.
OperatorSteps ==
  /\ Fuzzing
  /\ \E v \in H!Values : H!OperatorWrites(v)
  /\ UNCHANGED bvars

Next == BootSteps \/ FuzzSteps \/ OperatorSteps

Spec == GuestInit /\ [][Next]_vars

\* The guest runs on; nothing is assumed of the operator.
FairSpec == Spec /\ WF_vars(BootSteps) /\ WF_vars(FuzzSteps)

-----------------------------------------------------------------------------
GuestTypeOK == TypeOK /\ H!TypeOK

\* Every line gets the program somewhere: to an application, to the usage text,
\* to an error or to a crash, but never to a parser that does not end.
BootEnds == <>(pc \in Outcomes)

\* The code under test runs only in a guest that was asked for it twice: by -a
\* fuzz on its command line and, if wait_harness_trigger() succeeded, by the
\* operator, after the guest had cleared what an earlier run may have left.
TriggeredByOperator ==
  hpc \in H!Fuzzing =>
    /\ hrc = "positive" => asked
    /\ \E k \in DOMAIN cmd.words : cmd.words[k].arg = "fuzz"

\* A trigger that stays is heard by a guest that fuzzes, whenever the operator
\* wrote it.
TriggerIsHeard ==
  <>[](Fuzzing /\ trigger = "done") => <>(hpc \in H!Fuzzing \cup {"crashed"})

=============================================================================

----------------------------- MODULE CloneFamily -----------------------------
(***************************************************************************)
(* What server_prologue() promises its caller about the family, without    *)
(* sockets, ports or platforms: Root alone has children, never more than   *)
(* wanted; every member leaves the prologue once, served or failed; a      *)
(* served child is told that it is one; and Root is served only when all   *)
(* the children it wanted exist.                                           *)
(***************************************************************************)
EXTENDS Naturals, FiniteSets

CONSTANTS Procs, Root

VARIABLES
  status,   \* of each member: absent, working in the prologue, ready, failed
  told,     \* the members told that they are children
  wanted    \* the number of children asked for

vars == << status, told, wanted >>

Absent   == {p \in Procs : status[p] = "absent"}
Children == (Procs \ Absent) \ {Root}

Init ==
  /\ status = [p \in Procs |-> IF p = Root THEN "working" ELSE "absent"]
  /\ told = {}
  /\ wanted \in Nat

\* A fork() or a clone of several guests at once.
Grow ==
  /\ status[Root] = "working"
  /\ \E C \in SUBSET Absent :
       /\ C # {}
       /\ Cardinality(Children) + Cardinality(C) =< wanted
       /\ status' = [p \in Procs |-> IF p \in C THEN "working" ELSE status[p]]
  /\ UNCHANGED << told, wanted >>

Serve(p) ==
  /\ status[p] = "working"
  /\ p = Root => Cardinality(Children) = wanted
  /\ status' = [status EXCEPT ![p] = "ready"]
  /\ told' = IF p = Root THEN told ELSE told \cup {p}
  /\ UNCHANGED wanted

GiveUp(p) ==
  /\ status[p] = "working"
  /\ status' = [status EXCEPT ![p] = "failed"]
  /\ UNCHANGED << told, wanted >>

Next == Grow \/ \E p \in Procs : Serve(p) \/ GiveUp(p)

\* Nothing keeps a member in the prologue for ever.
Spec ==
  /\ Init
  /\ [][Next]_vars
  /\ \A p \in Procs : WF_vars(Serve(p) \/ GiveUp(p))

=============================================================================

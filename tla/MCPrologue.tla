----------------------------- MODULE MCPrologue -----------------------------
(* Small instances of Prologue.                                            *)
EXTENDS Prologue, TLC

CONSTANTS r, c1, c2, c3

Trio    == {r, c1, c2}
Quartet == {r, c1, c2, c3}

\* Members other than Root are interchangeable.
MembersSymmetry == Permutations(Procs \ {Root})

\* The lines of Linux with what may go wrong there, one -t -f family that only
\* loses datagrams and one around which nothing but empty answers happen.
TimedFork    == [time |-> TRUE, fork |-> TRUE, clone |-> FALSE]
Troubled(f)  == {[line |-> TimedFork, faults |-> f]}
LinuxLines   == {o \in Lines : ~ o.clone}
OnLinux      == [line : LinuxLines, faults : {{"loss", "dup", "delay", "call"}}]
                  \cup Troubled({"loss", "empty"}) \cup Troubled({"empty"})

\* The lines of Mini-OS.  Calls fail where no fork() is among them.
GuestLines   == {o \in Lines : ~ o.fork}
OnMiniOS     == [line : Lines, faults : {{"delay"}}]
                  \cup [line : GuestLines, faults : {{"loss", "delay", "call"}}]

\* One thing that goes wrong, or nothing at all.
Untroubled   == Troubled({})
LateAnswers  == Troubled({"loss", "delay"})
FailingCalls == Troubled({"call"})

\* Ids for three guests with a gap, and children below or above their parent.
FewIds  == 1 .. 4
AnId    == {1}

=============================================================================

--------------------------- MODULE PrologueProofs ---------------------------
(***************************************************************************)
(* Prologue keeps its types, and the answers go home: theorems for every   *)
(* number of children, set of processes, set of domain ids and combination *)
(* of faults.                                                              *)
(***************************************************************************)
EXTENDS Prologue, TLAPS

Forking == opts[Root].fork

\* The port a member reports from.  It never changes once the member exists.
ReportPort(p) ==
  IF p = Root THEN PORT_PARENT
  ELSE IF Forking THEN PORT_PARENT - 1 - iter[p]
  ELSE PORT_PARENT - (domid[p] - domid[Root])

\* Root is past the fork() of its current iteration.
PastFork ==
  \/ pc[Root] = "forked"
  \/ pc[Root] \in {"send", "wait"} /\ label[Root].role # "boot"

\* Who can be where: Root alone boots, forks and clones, its children alone
\* open sockets of their own.
Places ==
  /\ forkedBy[Root] = NONE /\ pc[Root] \notin {"absent", "rebind"}
  /\ pc[Root] = "start" => label[Root].role = "boot"
  /\ Forking => ret[Root] # 0
  /\ ~ Forking => ret[Root] # 1 /\ myport[Root] = PORT_PARENT
  /\ \A p \in Procs :
       /\ opts[p].fork = Forking
       /\ pc[p] \in {"fork", "forked"} => Forking
       /\ pc[p] \in {"clone", "cloned"} => ~ Forking
       /\ pc[p] \in {"send", "wait", "rebind"} => opts[p].time
  /\ \A c \in Members \ {Root} :
       /\ pc[c] \notin {"start", "branch", "fork", "clone"}
       /\ pc[c] \in {"send", "wait"} => label[c].role # "boot"
       /\ forkedBy[c] = Root
       /\ ret[c] = IF Forking THEN 0 ELSE 1

\* The numbers that keep the children apart.
Numbers ==
  /\ Forking /\ pc[Root] \notin Settled =>
       /\ iter[Root] < ChildrenNum
       /\ myport[Root] = PORT_PARENT - iter[Root] - (IF PastFork THEN 1 ELSE 0)
       /\ \A c \in Members \ {Root} :
            iter[c] =< iter[Root] /\ (~ PastFork => iter[c] # iter[Root])
  /\ Forking =>
       \A c \in Members \ {Root} :
         /\ iter[c] < ChildrenNum
         /\ myport[c] = PORT_PARENT - 1 - iter[c]
         /\ \A d \in Members \ {Root} : iter[c] = iter[d] => c = d
  /\ ~ Forking =>
       \A p \in Members :
         /\ domid[p] \in DomIds
         /\ pc[p] = "cloned" => myport[p] = PORT_PARENT
         /\ p # Root /\ pc[p] = "rebind" => myport[p] = ReportPort(p)
         /\ \A q \in Members : domid[p] = domid[q] => p = q

\* A member that reports has its own socket on its own port; Root keeps the
\* one it booted with.
OwnSockets ==
  /\ opts[Root].time /\ pc[Root] \notin {"start"} \cup Settled =>
       su[Root] = Root /\ port[Root] = PORT_PARENT
  /\ \A p \in Reporting : su[p] = p /\ port[p] = ReportPort(p)

\* Every datagram comes from, or goes to, the port of the member it is about.
InFlight ==
  /\ \A m \in outbound \cup inbound :
       m.rep.from \in Members /\ m.port = ReportPort(m.rep.from)
  /\ \A d \in Procs : \A a \in queue[d] :
       a.rep.from \in Members /\ port[d] = ReportPort(a.rep.from)

IInv == Places /\ Numbers /\ OwnSockets /\ InFlight

-----------------------------------------------------------------------------
(* Arithmetic of ports, and what the assumptions say of the constants.     *)

\* A port is a number of an unsigned short.
LEMMA PortBounds ==
  ASSUME NEW prt \in Ports
  PROVE  prt \in Int /\ 0 =< prt /\ prt < 65536
<1>1. PORT_SPACE \in Int /\ 65536 =< PORT_SPACE /\ PORT_SPACE =< 65536
  BY DEF PORT_SPACE
<1> QED
  BY <1>1 DEF Ports

\* And every such number is a port.
LEMMA IsPort ==
  ASSUME NEW prt \in Int
  PROVE  0 =< prt /\ prt < 65536 <=> prt \in Ports
<1>1. PORT_SPACE \in Int /\ 65536 =< PORT_SPACE /\ PORT_SPACE =< 65536
  BY DEF PORT_SPACE
<1> QED
  BY <1>1 DEF Ports

\* Counting a port down stays an unsigned short.
LEMMA BelowType ==
  ASSUME NEW prt \in Ports, NEW n \in Int
  PROVE  Below(prt, n) \in Ports
<1>1. prt - n \in Int
  BY PortBounds
<1>2. /\ (prt - n) % 65536 \in Int
      /\ 0 =< (prt - n) % 65536 /\ (prt - n) % 65536 < 65536
  BY <1>1
<1> QED
  BY <1>2, IsPort DEF Below, PORT_SPACE

\* Without wrap-around the subtraction is the one of the integers.
LEMMA BelowExact ==
  ASSUME NEW prt \in Ports, NEW n \in Int, 0 =< prt - n, prt - n < 65536
  PROVE  Below(prt, n) = prt - n
<1>1. prt - n \in Int
  BY PortBounds
<1> QED
  BY <1>1 DEF Below, PORT_SPACE

\* What os_parse_args() accepts for -c, in the form the provers use.
LEMMA ChildrenNumBounds ==
  /\ ChildrenNum \in Nat /\ 1 =< ChildrenNum /\ ChildrenNum < 32767
  /\ 0 .. ChildrenNum \subseteq Int
<1>1. PORT_PARENT \in Int /\ 32767 =< PORT_PARENT /\ PORT_PARENT =< 32767
  BY DEF PORT_PARENT
<1> QED
  BY <1>1, ChildrenNumAssumption

\* What Xen hands out as domain ids, in the form the provers use.
LEMMA DomIdBounds ==
  ASSUME NEW d \in DomIds
  PROVE  d \in Int /\ 1 =< d /\ d =< 32751
BY DomIdsAssumption

\* The port Root reports from.
LEMMA ParentPort == PORT_PARENT \in Ports /\ PORT_PARENT = 32767
BY IsPort DEF PORT_PARENT

-----------------------------------------------------------------------------
(* Types.                                                                  *)

\* Root starts with every variable in its type.
LEMMA InitTypes == Init => StateTypes
<1> SUFFICES ASSUME Init PROVE StateTypes
  OBVIOUS
<1> USE ConstantsAssumption, ChildrenNumBounds DEF Init
<1>1. pc \in [Procs -> PCs]
  BY DEF PCs, Settled
<1>2. opts \in [Procs -> Lines]
  OBVIOUS
<1>3. label \in [Procs -> Labels]
  BY DEF Labels, Roles
<1>4. /\ myport \in [Procs -> Ports] /\ port \in [Procs -> Ports]
      /\ iter \in [Procs -> 0 .. ChildrenNum]
  BY ParentPort, IsPort
<1>5. domid \in [Procs -> DomIds \cup {0}]
  OBVIOUS
<1> QED
  BY <1>1, <1>2, <1>3, <1>4, <1>5 DEF StateTypes

\* Where fork_prologue() advances i, i is still below children_num.
LEMMA IterBound ==
  ASSUME StateTypes, IInv, NEW p \in Procs, ret[p] # 0, opts[p].fork,
         \/ pc[p] = "forked"
         \/ pc[p] \in {"send", "wait"} /\ label[p].role # "boot"
  PROVE  p = Root /\ iter[p] < ChildrenNum /\ PastFork
<1>1. p \in Members /\ pc[p] \notin Settled
  BY DEF Members, Settled
<1>2. Forking /\ p = Root
  BY <1>1 DEF IInv, Places, Forking
<1> QED
  BY <1>1, <1>2 DEF IInv, Numbers, PastFork

\* The end of an iteration of fork_prologue() keeps the types.
LEMMA NextIterationTypes ==
  ASSUME StateTypes, NEW p \in Procs, ret[p] # 0 => iter[p] < ChildrenNum,
         NextIteration(p)
  PROVE  /\ pc' \in [Procs -> PCs] /\ iter' \in [Procs -> 0 .. ChildrenNum]
         /\ isChild' \in [Procs -> BOOLEAN]
         /\ su' \in [Procs -> Procs \cup {NONE}] /\ port' \in [Procs -> Ports]
<1> USE ChildrenNumBounds DEF StateTypes, Goto, Return, sockets, PCs, Settled
<1>1. CASE ret[p] = 0 /\ Return(p, TRUE) /\ UNCHANGED iter
  BY <1>1
<1>2. CASE /\ ret[p] # 0
           /\ iter' = [iter EXCEPT ![p] = @ + 1]
           /\ IF iter[p] + 1 < ChildrenNum
                THEN Goto(p, "fork") /\ UNCHANGED << isChild, sockets >>
                ELSE Return(p, FALSE)
  <2>1. iter[p] + 1 \in 0 .. ChildrenNum
    BY <1>2
  <2>2. iter' \in [Procs -> 0 .. ChildrenNum]
    BY <2>1, <1>2
  <2>3. CASE Goto(p, "fork") /\ UNCHANGED << isChild, sockets >>
    BY <2>2, <2>3
  <2>4. CASE Return(p, FALSE)
    BY <2>2, <2>4
  <2> QED
    BY <1>2, <2>3, <2>4
<1> QED
  BY <1>1, <1>2 DEF NextIteration

\* So does what a caller does with the result of send_time().
LEMMA SendTimeReturnsTypes ==
  ASSUME StateTypes, IInv, NEW p \in Procs, NEW ok \in BOOLEAN,
         pc[p] \in {"send", "wait"}, SendTimeReturns(p, ok),
         UNCHANGED network, consumed' \subseteq Procs \X Reports,
         queue' \in [Procs -> SUBSET Answers]
  PROVE  StateTypes'
<1>1. Report(p) \in Reports
  BY DEF StateTypes, Report, Reports, Labels
<1>2. acked' \subseteq Reports /\ gaveUp' \subseteq Reports
  BY <1>1 DEF StateTypes, SendTimeReturns
<1>3. /\ pc' \in [Procs -> PCs] /\ iter' \in [Procs -> 0 .. ChildrenNum]
      /\ isChild' \in [Procs -> BOOLEAN]
      /\ su' \in [Procs -> Procs \cup {NONE}] /\ port' \in [Procs -> Ports]
  <2>1. CASE Goto(p, "branch") /\ UNCHANGED << sockets, isChild, iter >>
    BY <2>1 DEF StateTypes, Goto, sockets, PCs
  <2>2. CASE Exit(p) /\ UNCHANGED iter
    BY <2>2 DEF StateTypes, Exit, Goto, SocketFini, PCs, Settled
  <2>3. CASE label[p].role # "boot" /\ opts[p].fork /\ NextIteration(p)
    BY <2>3, IterBound, NextIterationTypes
  <2>4. CASE CloneReturns(p)
    <3>1. (ret[p] = 1) \in BOOLEAN
      OBVIOUS
    <3> QED
      BY <2>4, <3>1 DEF StateTypes, CloneReturns, Return, Goto, sockets, PCs, Settled
  <2> QED
    BY <2>1, <2>2, <2>3, <2>4 DEF SendTimeReturns
<1> QED
  BY <1>2, <1>3 DEF StateTypes, SendTimeReturns, family, network

\* And what fork() and clone() copy of the sockets.
LEMMA InheritTypes ==
  ASSUME StateTypes, NEW p \in Procs, NEW C \in SUBSET Procs, Inherit(p, C)
  PROVE  /\ su' \in [Procs -> Procs \cup {NONE}] /\ port' \in [Procs -> Ports]
         /\ queue' \in [Procs -> SUBSET Answers]
<1>1. CASE SharedKernel \/ su[p] = NONE
  BY <1>1 DEF StateTypes, Inherit
<1>2. CASE ~ (SharedKernel \/ su[p] = NONE)
  <2>1. su[p] \in Procs
    BY <1>2 DEF StateTypes
  <2>2. su' \in [Procs -> Procs \cup {NONE}]
    BY <1>2 DEF StateTypes, Inherit
  <2>3. port' \in [Procs -> Ports]
    BY <1>2, <2>1 DEF StateTypes, Inherit
  <2>4. queue' \in [Procs -> SUBSET Answers]
    BY <1>2, <2>1 DEF StateTypes, Inherit
  <2> QED
    BY <2>2, <2>3, <2>4
<1> QED
  BY <1>1, <1>2

\* server_prologue() opens `su` and calls send_time().
LEMMA StartTypes ==
  ASSUME StateTypes, NEW p \in Procs, Start(p) PROVE StateTypes'
<1> USE ConstantsAssumption, ParentPort
    DEF StateTypes, Start, Goto, sockets, locals, family, network, history, PCs,
        Settled
<1>1. CASE ~ opts[p].time
  BY <1>1
<1>2. CASE /\ opts[p].time /\ SocketInit(p, PORT_PARENT)
           /\ Goto(p, "send") /\ UNCHANGED isChild
  BY <1>2 DEF SocketInit
<1>3. CASE opts[p].time /\ Exit(p) /\ UNCHANGED queue
  BY <1>3 DEF Exit, SocketFini
<1> QED
  BY <1>1, <1>2, <1>3

\* The steps that only move a member, or end it.
LEMMA PlainStepTypes ==
  ASSUME StateTypes, NEW p \in Procs,
         Branch(p) \/ FinishAlone(p) \/ ClockFails(p) \/ CloneFails(p)
  PROVE  StateTypes'
<1> USE ConstantsAssumption
    DEF StateTypes, Goto, Exit, SocketFini, sockets, locals, family, network,
        history, PCs, Settled
<1>1. CASE Branch(p)
  BY <1>1 DEF Branch
<1>2. CASE FinishAlone(p)
  BY <1>2 DEF FinishAlone
<1>3. CASE ClockFails(p)
  BY <1>3 DEF ClockFails
<1>4. CASE CloneFails(p)
  BY <1>4 DEF CloneFails
<1> QED
  BY <1>1, <1>2, <1>3, <1>4

\* The steps of send_time().
LEMMA SendTimeTypes ==
  ASSUME StateTypes, IInv, NEW p \in Procs,
         SendReport(p) \/ SendFails(p) \/ ReceiveAnswer(p) \/ Timeout(p)
  PROVE  StateTypes'
<1>1. CASE SendReport(p)
  <2>1. Datagram(p) \in Outbound
    <3>1. su[p] = p
      BY <1>1 DEF SendReport, IInv, OwnSockets, Reporting
    <3> QED
      BY <3>1 DEF StateTypes, Datagram, Outbound, Report, Reports, Labels
  <2> QED
    BY <1>1, <2>1 DEF SendReport, StateTypes, Goto, sockets, locals, family, history,
       PCs
<1>2. CASE SendFails(p) \/ Timeout(p)
  <2>1. /\ pc[p] \in {"send", "wait"} /\ SendTimeReturns(p, FALSE)
        /\ UNCHANGED << queue, network, consumed >>
    BY <1>2 DEF SendFails, Timeout
  <2> QED
    BY <2>1, SendTimeReturnsTypes DEF StateTypes
<1>3. CASE ReceiveAnswer(p)
  <2>1. su[p] = p
    BY <1>3 DEF ReceiveAnswer, IInv, OwnSockets, Reporting
  <2>2. PICK a \in queue[p] :
          /\ queue' = [queue EXCEPT ![p] = @ \ {a}]
          /\ consumed' = consumed \cup {<< p, a.rep >>}
          /\ \/ SendTimeReturns(p, TRUE)
             \/ /\ Goto(p, "send")
                /\ UNCHANGED << sockets, locals, isChild, family, acked, gaveUp,
                                strayFd >>
    BY <1>3, <2>1 DEF ReceiveAnswer
  <2>3. /\ queue' \in [Procs -> SUBSET Answers]
        /\ consumed' \subseteq Procs \X Reports
    BY <2>2 DEF StateTypes, Answers
  <2>4. pc[p] = "wait" /\ UNCHANGED network
    BY <1>3 DEF ReceiveAnswer
  <2>5. CASE SendTimeReturns(p, TRUE)
    BY <2>3, <2>4, <2>5, SendTimeReturnsTypes
  <2>6. CASE /\ Goto(p, "send")
             /\ UNCHANGED << sockets, locals, isChild, family, acked, gaveUp,
                             strayFd >>
    BY <2>3, <2>4, <2>6 DEF StateTypes, Goto, sockets, locals, family, network, PCs
  <2> QED
    BY <2>2, <2>5, <2>6
<1> QED
  BY <1>1, <1>2, <1>3

\* The collector and the network.
LEMMA EnvironmentTypes ==
  ASSUME StateTypes, Environment
  PROVE  StateTypes'
<1> USE DEF StateTypes, members, sockets, locals, family, history
<1>1. ASSUME NEW m \in outbound, Collect(m)
      PROVE  StateTypes'
  <2>1. PICK len \in {0, 1} :
          inbound' = inbound \cup {[rep |-> m.rep, port |-> m.port, len |-> len]}
    BY <1>1 DEF Collect
  <2>2. inbound' \subseteq Inbound /\ received' \subseteq Reports
    BY <1>1, <2>1 DEF Collect, Outbound, Inbound
  <2> QED
    BY <1>1, <2>2 DEF Collect
<1>2. ASSUME NEW m \in inbound, AnswerArrives(m)
      PROVE  StateTypes'
  <2>1. [rep |-> m.rep, len |-> m.len] \in Answers
    BY <1>2 DEF Inbound, Answers
  <2>2. queue' \in [Procs -> SUBSET Answers]
    BY <1>2, <2>1 DEF AnswerArrives
  <2> QED
    BY <1>2, <2>2 DEF AnswerArrives
<1>3. CASE Lose
  BY <1>3 DEF Lose
<1> QED
  BY <1>1, <1>2, <1>3 DEF Environment

\* fork(), also when it fails.
LEMMA ForkTypes ==
  ASSUME StateTypes, IInv, NEW p \in Procs,
         Fork(p) \/ ForkFails(p) \/ Forked(p)
  PROVE  StateTypes'
<1>1. NextPort(p) \in Ports
  BY BelowType DEF NextPort, StateTypes
<1>2. CASE Fork(p)
  <2>1. PICK c \in Procs \ Members :
          /\ pc'  = [pc EXCEPT ![p] = "forked", ![c] = "forked"]
          /\ ret' = [ret EXCEPT ![p] = 1, ![c] = 0]
          /\ myport' = [myport EXCEPT ![p] = NextPort(p), ![c] = NextPort(p)]
          /\ iter'  = [iter EXCEPT ![c] = iter[p]]
          /\ label' = [label EXCEPT ![c] = label[p]]
          /\ opts'  = [opts EXCEPT ![c] = opts[p]]
          /\ forkedBy' = [forkedBy EXCEPT ![c] = p]
          /\ Inherit(p, {c})
    BY <1>2 DEF Fork
  <2>2. /\ pc' \in [Procs -> PCs] /\ ret' \in [Procs -> {-1, 0, 1}]
        /\ myport' \in [Procs -> Ports] /\ iter' \in [Procs -> 0 .. ChildrenNum]
        /\ label' \in [Procs -> Labels]
        /\ opts' \in [Procs -> Lines]
        /\ forkedBy' \in [Procs -> Procs \cup {NONE}]
    BY <1>1, <2>1 DEF StateTypes, PCs
  <2>3. /\ su' \in [Procs -> Procs \cup {NONE}] /\ port' \in [Procs -> Ports]
        /\ queue' \in [Procs -> SUBSET Answers]
    BY <2>1, InheritTypes
  <2> QED
    BY <1>2, <2>2, <2>3 DEF Fork, StateTypes, network, history
<1>3. CASE ForkFails(p)
  BY <1>1, <1>3 DEF ForkFails, Goto, StateTypes, sockets, family, network, history,
     PCs, Settled
<1>4. CASE Forked(p)
  <2> USE <1>4
  <2>1. /\ UNCHANGED << queue, myport, ret, family, network, history, strayFd >>
        /\ pc[p] = "forked"
    BY DEF Forked
  <2>2. CASE NextIteration(p) /\ UNCHANGED label
    <3>1. opts[p].fork
      BY <2>1 DEF IInv, Places
    <3>2. ret[p] # 0 => iter[p] < ChildrenNum
      BY <2>1, <3>1, IterBound
    <3> QED
      BY <2>1, <2>2, <3>2, NextIterationTypes DEF StateTypes, family, network, history
  <2>3. CASE ReportAs(p, "parent", iter[p]) /\ UNCHANGED << sockets, iter >>
    <3>1. [role |-> "parent", index |-> iter[p]] \in Labels
      BY ChildrenNumBounds DEF Labels, Roles, StateTypes
    <3> QED
      BY <2>1, <2>3, <3>1 DEF ReportAs, Goto, StateTypes, sockets, family, network,
         history, PCs
  <2>4. CASE ChildRebinds(p)
    BY <2>1, <2>4 DEF ChildRebinds, SocketFini, Goto, StateTypes, family, network,
       history, PCs
  <2> QED
    BY <2>2, <2>3, <2>4 DEF Forked
<1> QED
  BY <1>2, <1>3, <1>4

\* One clone for all the children, also when it fails.
LEMMA CloneTypes ==
  ASSUME StateTypes, IInv, NEW p \in Procs,
         Clone(p) \/ Cloned(p) \/ Rebind(p)
  PROVE  StateTypes'
<1>1. domid[p] \in Int /\ myparentid(p) \in Int /\ ChildIndex(p) \in Int
  <2>1. \A q \in Procs : domid[q] \in Int
    BY DomIdBounds DEF StateTypes
  <2>2. myparentid(p) \in Int
    BY <2>1 DEF StateTypes, myparentid
  <2>3. iter[p] \in Int
    BY ChildrenNumBounds DEF StateTypes
  <2> QED
    BY <2>1, <2>2, <2>3 DEF ChildIndex
<1>2. CASE Clone(p)
  <2>1. PICK C \in SUBSET (Procs \ Members) :
          /\ \E id \in [C -> DomIds \ UsedDomIds] :
               domid' = [q \in Procs |-> IF q \in C THEN id[q] ELSE domid[q]]
          /\ pc'  = [q \in Procs |-> IF q \in C \cup {p} THEN "cloned" ELSE pc[q]]
          /\ ret' = [q \in Procs |-> IF q \in C THEN os_clone(1)
                                     ELSE IF q = p THEN os_clone(0) ELSE ret[q]]
          /\ myport' = [q \in Procs |-> IF q \in C THEN myport[p] ELSE myport[q]]
          /\ label' = [q \in Procs |-> IF q \in C THEN label[p] ELSE label[q]]
          /\ opts' = [q \in Procs |-> IF q \in C THEN ChildOptions(p) ELSE opts[q]]
          /\ forkedBy' = [q \in Procs |-> IF q \in C THEN p ELSE forkedBy[q]]
          /\ Inherit(p, C)
    BY <1>2 DEF Clone
  <2>2. domid' \in [Procs -> DomIds \cup {0}]
    BY <2>1 DEF StateTypes
  <2>3. /\ pc' \in [Procs -> PCs] /\ ret' \in [Procs -> {-1, 0, 1}]
        /\ myport' \in [Procs -> Ports] /\ label' \in [Procs -> Labels]
        /\ forkedBy' \in [Procs -> Procs \cup {NONE}]
    BY <2>1 DEF StateTypes, PCs, os_clone
  <2>4. ChildOptions(p) \in Lines
    BY DEF StateTypes, ChildOptions, Lines
  <2>5. opts' \in [Procs -> Lines]
    BY <2>1, <2>4 DEF StateTypes
  <2>6. /\ su' \in [Procs -> Procs \cup {NONE}] /\ port' \in [Procs -> Ports]
        /\ queue' \in [Procs -> SUBSET Answers]
    BY <2>1, InheritTypes
  <2> QED
    BY <1>2, <2>2, <2>3, <2>5, <2>6 DEF Clone, StateTypes, network, history
<1>3. CASE Cloned(p)
  <2> USE <1>3
  <2>1. UNCHANGED << queue, ret, family, network, history, strayFd >>
    BY DEF Cloned
  <2>2. CASE CloneReturns(p) /\ UNCHANGED << label, myport >>
    <3>1. (ret[p] = 1) \in BOOLEAN
      OBVIOUS
    <3> QED
      BY <2>1, <2>2, <3>1 DEF CloneReturns, Return, Goto, StateTypes, sockets, family,
         network, history, PCs, Settled
  <2>3. CASE /\ ReportAs(p, "parent", myparentid(p))
             /\ UNCHANGED << sockets, iter, myport >>
    <3>1. [role |-> "parent", index |-> myparentid(p)] \in Labels
      BY <1>1 DEF Labels, Roles
    <3> QED
      BY <2>1, <2>3, <3>1 DEF ReportAs, Goto, StateTypes, sockets, family, network,
         history, PCs
  <2>4. CASE /\ myport' = [myport EXCEPT ![p] = Below(@, domid[p] - myparentid(p))]
             /\ ChildRebinds(p)
    <3>1. Below(myport[p], domid[p] - myparentid(p)) \in Ports
      BY <1>1, BelowType DEF StateTypes
    <3> QED
      BY <2>1, <2>4, <3>1 DEF ChildRebinds, SocketFini, Goto, StateTypes, family,
         network, history, PCs
  <2> QED
    BY <2>2, <2>3, <2>4 DEF Cloned
<1>4. CASE Rebind(p)
  <2> USE <1>4
  <2>1. UNCHANGED << myport, iter, ret, family, network, history, strayFd >>
    BY DEF Rebind
  <2>2. CASE SocketInit(p, myport[p]) /\ ReportAs(p, "child", ChildIndex(p))
    <3>1. [role |-> "child", index |-> ChildIndex(p)] \in Labels
      BY <1>1 DEF Labels, Roles
    <3> QED
      BY <2>1, <2>2, <3>1 DEF SocketInit, ReportAs, Goto, StateTypes, family, network,
         history, PCs
  <2>3. CASE Exit(p) /\ UNCHANGED << queue, label >>
    BY <2>1, <2>3, ConstantsAssumption DEF Exit, SocketFini, Goto, StateTypes, family,
       network, history, PCs, Settled
  <2> QED
    BY <2>2, <2>3 DEF Rebind
<1> QED
  BY <1>2, <1>3, <1>4

\* Every step keeps the types.
LEMMA NextTypes ==
  ASSUME StateTypes, IInv, [Next]_vars
  PROVE  StateTypes'
<1>1. ASSUME NEW p \in Procs, Step(p)
      PROVE  StateTypes'
  BY <1>1, StartTypes, PlainStepTypes, SendTimeTypes, ForkTypes, CloneTypes DEF Step, Act
<1>2. CASE Environment
  BY <1>2, EnvironmentTypes
<1>3. CASE UNCHANGED vars
  BY <1>3 DEF vars, sockets, locals, family, network, history, StateTypes
<1> QED
  BY <1>1, <1>2, <1>3 DEF Next

-----------------------------------------------------------------------------
(* A step of one member that neither creates members nor renumbers them    *)
(* keeps the invariant when it leaves the member itself in order.          *)

Move(p) ==
  /\ p \in Members /\ pc'[p] # "absent"
  /\ UNCHANGED << family, ret >>
  /\ \A q \in Procs \ {p} :
       /\ pc'[q] = pc[q] /\ su'[q] = su[q] /\ port'[q] = port[q]
       /\ queue'[q] = queue[q] /\ myport'[q] = myport[q]
       /\ iter'[q] = iter[q] /\ label'[q] = label[q]

PlaceKept(p) ==
  /\ pc'[p] \in {"fork", "forked"} => Forking
  /\ pc'[p] \in {"clone", "cloned"} => ~ Forking
  /\ pc'[p] \in {"send", "wait", "rebind"} => opts[p].time
  /\ p = Root => /\ pc'[p] \notin {"start", "rebind"}
                 /\ ~ Forking => myport'[p] = PORT_PARENT
  /\ p # Root => /\ pc'[p] \notin {"start", "branch", "fork", "clone"}
                 /\ pc'[p] \in {"send", "wait"} => label'[p].role # "boot"

NumbersKept(p) ==
  /\ Forking /\ p = Root =>
       \/ pc'[p] \in Settled
       \/ /\ pc[p] \notin Settled /\ iter'[p] = iter[p] /\ myport'[p] = myport[p]
          /\ PastFork' <=> PastFork
       \/ /\ pc[p] \notin Settled /\ PastFork /\ ~ PastFork'
          /\ iter'[p] = iter[p] + 1 /\ iter'[p] < ChildrenNum
          /\ myport'[p] = myport[p]
  /\ Forking /\ p # Root => iter'[p] = iter[p] /\ myport'[p] = myport[p]
  /\ ~ Forking /\ p # Root /\ pc'[p] = "rebind" => myport'[p] = ReportPort(p)
  /\ ~ Forking => pc'[p] # "cloned"

SocketKept(p) ==
  /\ p = Root /\ opts[p].time /\ pc'[p] \notin Settled =>
       su'[p] = p /\ port'[p] = PORT_PARENT
  /\ pc'[p] \in {"send", "wait"} => su'[p] = p /\ port'[p] = ReportPort(p)

DatagramsKept(p) ==
  /\ queue'[p] = {} \/ (queue'[p] \subseteq queue[p] /\ port'[p] = port[p])
  /\ \A m \in outbound' :
       m \in outbound \/ (m.rep.from = p /\ m.port = ReportPort(p))
  /\ inbound' \subseteq inbound

\* A step of one member keeps the invariant when what it does to the member's
\* place, numbers, socket and datagrams is what the other parts allow.
LEMMA MoveInv ==
  ASSUME StateTypes, IInv, NEW p \in Procs, Move(p), PlaceKept(p), NumbersKept(p),
         SocketKept(p), DatagramsKept(p)
  PROVE  IInv'
<1>1. /\ Root \in Procs /\ Members' = Members /\ Forking' = Forking
      /\ opts' = opts /\ domid' = domid /\ forkedBy' = forkedBy /\ ret' = ret
  BY ConstantsAssumption DEF Move, Members, Forking, family
<1>2. \A q \in Members : ReportPort(q)' = ReportPort(q)
  BY <1>1 DEF Move, NumbersKept, ReportPort, Members
<1>3. Places'
  BY <1>1 DEF Move, PlaceKept, IInv, Places, Members
<1>4. Numbers'
  <2>1. ASSUME Forking, pc'[Root] \notin Settled
        PROVE  /\ iter'[Root] < ChildrenNum
               /\ myport'[Root] = PORT_PARENT - iter'[Root]
                                    - (IF PastFork' THEN 1 ELSE 0)
               /\ \A c \in Members \ {Root} :
                    /\ iter'[c] =< iter'[Root]
                    /\ ~ PastFork' => iter'[c] # iter'[Root]
    <3>1. \A c \in Members \ {Root} : iter'[c] = iter[c] /\ c \in Procs
      BY <1>1, <2>1 DEF Move, NumbersKept, Members
    <3>2. \A q \in Procs : iter[q] \in Nat
      BY ChildrenNumBounds DEF StateTypes
    <3>3. CASE p = Root
      BY <1>1, <2>1, <3>1, <3>2, <3>3, ChildrenNumBounds, ParentPort
         DEF NumbersKept, IInv, Numbers
    <3>4. CASE p # Root
      <4>1. /\ pc'[Root] = pc[Root] /\ iter'[Root] = iter[Root]
            /\ myport'[Root] = myport[Root] /\ PastFork' = PastFork
        BY <1>1, <3>4 DEF Move, PastFork
      <4> QED
        BY <2>1, <3>1, <4>1 DEF IInv, Numbers
    <3> QED
      BY <3>3, <3>4
  <2>2. ASSUME Forking
        PROVE  \A c \in Members \ {Root} :
                 /\ iter'[c] < ChildrenNum
                 /\ myport'[c] = PORT_PARENT - 1 - iter'[c]
                 /\ \A d \in Members \ {Root} : iter'[c] = iter'[d] => c = d
    BY <1>1, <2>2 DEF Move, NumbersKept, IInv, Numbers, Members
  <2>3. ASSUME ~ Forking
        PROVE  \A q \in Members :
                 /\ domid[q] \in DomIds
                 /\ pc'[q] = "cloned" => myport'[q] = PORT_PARENT
                 /\ q # Root /\ pc'[q] = "rebind" => myport'[q] = ReportPort(q)
                 /\ \A r \in Members : domid[q] = domid[r] => q = r
    BY <1>1, <2>3 DEF Move, NumbersKept, IInv, Numbers, Members
  <2> QED
    BY <1>1, <1>2, <2>1, <2>2, <2>3 DEF Numbers
<1>5. OwnSockets'
  <2>1. Reporting' = {q \in Procs : pc'[q] \in {"send", "wait"}}
    BY DEF Reporting
  <2>2. Reporting' \subseteq Members
    BY <1>1, <2>1 DEF Members
  <2> QED
    BY <1>1, <1>2, <2>1, <2>2
       DEF Move, SocketKept, IInv, OwnSockets, Reporting, Places, Settled
<1>6. InFlight'
  <2>1. \A m \in outbound' \cup inbound' :
          m.rep.from \in Members /\ m.port = ReportPort(m.rep.from)
    BY DEF Move, DatagramsKept, IInv, InFlight
  <2>2. ASSUME NEW d \in Procs, NEW a \in queue'[d]
        PROVE  a.rep.from \in Members /\ port'[d] = ReportPort(a.rep.from)
    BY DEF Move, DatagramsKept, IInv, InFlight
  <2> QED
    BY <1>1, <1>2, <2>1, <2>2 DEF InFlight
<1> QED
  BY <1>3, <1>4, <1>5, <1>6 DEF IInv

-----------------------------------------------------------------------------
(* The initial states and the steps.                                       *)

\* Root alone, before its first socket.
LEMMA InitInv == Init => IInv
<1> SUFFICES ASSUME Init PROVE IInv
  OBVIOUS
<1> USE ConstantsAssumption DEF Init
<1>1. /\ Members = {Root} /\ Root \in Procs /\ pc[Root] = "start"
      /\ label[Root].role = "boot" /\ iter[Root] = 0 /\ ret[Root] = -1
      /\ myport[Root] = PORT_PARENT
  BY DEF Members
<1>2. Places
  BY <1>1 DEF Places, Forking
<1>3. Numbers
  <2>1. domid[Root] \in DomIds
    OBVIOUS
  <2> QED
    BY <1>1, <2>1, ChildrenNumBounds, ParentPort DEF Numbers, PastFork
<1>4. OwnSockets
  BY DEF OwnSockets, Reporting
<1>5. InFlight
  BY DEF InFlight
<1> QED
  BY <1>2, <1>3, <1>4, <1>5 DEF IInv

\* The end of an iteration of fork_prologue()'s loop.
LEMMA NextIterationInv ==
  ASSUME StateTypes, IInv, NEW p \in Procs, NextIteration(p), opts[p].fork,
         \/ pc[p] = "forked"
         \/ pc[p] \in {"send", "wait"} /\ label[p].role # "boot",
         UNCHANGED << myport, ret, label, family, network >>,
         queue'[p] \subseteq queue[p],
         \A q \in Procs \ {p} : queue'[q] = queue[q]
  PROVE  IInv'
<1> USE DEF StateTypes, Goto, Return, Settled
<1>1. p \in Members /\ Forking /\ pc[p] \notin Settled
  BY DEF Members, IInv, Places
<1>2. CASE Return(p, TRUE) /\ UNCHANGED iter
  <2>1. Move(p)
    BY <1>1, <1>2 DEF Move, sockets
  <2>2. PlaceKept(p) /\ NumbersKept(p)
    BY <1>1, <1>2 DEF PlaceKept, NumbersKept
  <2>3. SocketKept(p) /\ DatagramsKept(p)
    BY <1>1, <1>2 DEF SocketKept, DatagramsKept, sockets, network
  <2> QED
    BY <2>1, <2>2, <2>3, MoveInv
<1>3. CASE /\ ret[p] # 0
           /\ iter' = [iter EXCEPT ![p] = @ + 1]
           /\ IF iter[p] + 1 < ChildrenNum
                THEN Goto(p, "fork") /\ UNCHANGED << isChild, sockets >>
                ELSE Return(p, FALSE)
  <2>1. p = Root /\ PastFork
    BY <1>3, IterBound
  <2>2. iter'[p] = iter[p] + 1
    BY <1>3
  <2>3. UNCHANGED sockets /\ (pc' = [pc EXCEPT ![p] = "ready"] \/
          (pc' = [pc EXCEPT ![p] = "fork"] /\ iter[p] + 1 < ChildrenNum))
    BY <1>3
  <2>4. Move(p)
    BY <1>1, <1>3, <2>3 DEF Move, sockets
  <2>5. PlaceKept(p)
    BY <1>1, <2>1, <2>3 DEF PlaceKept
  <2>6. NumbersKept(p)
    BY <1>1, <2>1, <2>2, <2>3 DEF NumbersKept, PastFork
  <2>7. SocketKept(p) /\ DatagramsKept(p)
    BY <1>1, <2>1, <2>3 DEF SocketKept, DatagramsKept, sockets, network, IInv,
       OwnSockets, Places, Forking, PastFork
  <2> QED
    BY <2>4, <2>5, <2>6, <2>7, MoveInv
<1> QED
  BY <1>2, <1>3 DEF NextIteration

\* The end of a send_time(), whatever comes after it.
LEMMA SendTimeReturnsInv ==
  ASSUME StateTypes, IInv, NEW p \in Procs, NEW ok \in BOOLEAN,
         pc[p] \in {"send", "wait"}, SendTimeReturns(p, ok), UNCHANGED network,
         queue'[p] \subseteq queue[p],
         \A q \in Procs \ {p} : queue'[q] = queue[q]
  PROVE  IInv'
<1>1. /\ p \in Members /\ opts[p].fork = Forking /\ opts[p].time
      /\ pc[p] \notin Settled
      /\ p = Root => su[p] = p /\ port[p] = PORT_PARENT
      /\ p # Root => label[p].role # "boot"
  BY DEF Members, Settled, IInv, Places, OwnSockets
<1>2. UNCHANGED << myport, ret, label, family >> /\ UNCHANGED network
  BY DEF SendTimeReturns
<1> USE DEF StateTypes, Goto, Settled
<1>3. CASE /\ label[p].role = "boot" /\ Goto(p, "branch")
           /\ UNCHANGED << sockets, isChild, iter >>
  <2>1. p = Root
    BY <1>1, <1>3
  <2>2. Move(p)
    BY <1>1, <1>2, <1>3 DEF Move, sockets
  <2>3. PlaceKept(p) /\ NumbersKept(p)
    BY <1>1, <1>2, <1>3, <2>1 DEF PlaceKept, NumbersKept, PastFork, IInv, Places
  <2>4. SocketKept(p) /\ DatagramsKept(p)
    BY <1>1, <1>2, <1>3, <2>1 DEF SocketKept, DatagramsKept, sockets, network
  <2> QED
    BY <2>2, <2>3, <2>4, MoveInv
<1>4. CASE Exit(p) /\ UNCHANGED iter
  <2>1. Move(p)
    BY <1>1, <1>2, <1>4 DEF Move, Exit, SocketFini
  <2>2. PlaceKept(p) /\ NumbersKept(p)
    BY <1>1, <1>2, <1>4 DEF Exit, PlaceKept, NumbersKept, IInv, Places
  <2>3. SocketKept(p) /\ DatagramsKept(p)
    BY <1>1, <1>2, <1>4 DEF Exit, SocketFini, SocketKept, DatagramsKept, network
  <2> QED
    BY <2>1, <2>2, <2>3, MoveInv
<1>5. CASE label[p].role # "boot" /\ opts[p].fork /\ NextIteration(p)
  <2> QED
    BY <1>1, <1>2, <1>5, NextIterationInv
<1>6. CASE CloneReturns(p)
  <2> USE DEF CloneReturns, Return
  <2>1. Move(p)
    BY <1>1, <1>2, <1>6 DEF Move, sockets
  <2>2. PlaceKept(p) /\ NumbersKept(p)
    BY <1>1, <1>2, <1>6 DEF PlaceKept, NumbersKept, IInv, Places
  <2>3. SocketKept(p) /\ DatagramsKept(p)
    BY <1>1, <1>2, <1>6 DEF SocketKept, DatagramsKept, sockets, network
  <2> QED
    BY <2>1, <2>2, <2>3, MoveInv
<1> QED
  BY <1>3, <1>4, <1>5, <1>6 DEF SendTimeReturns

\* Root binds to PORT_PARENT before it reports for the first time.
LEMMA StartInv ==
  ASSUME StateTypes, IInv, NEW p \in Procs, Start(p) PROVE IInv'
<1>1. p = Root /\ p \in Members /\ label[p].role = "boot" /\ opts[p].fork = Forking
  BY DEF Start, IInv, Places, Members
<1>2. UNCHANGED << locals, family, network >>
  BY DEF Start
<1> USE <1>1, <1>2, ConstantsAssumption
    DEF StateTypes, Goto, Settled, locals, family, network, sockets
<1>3. CASE ~ opts[p].time /\ Goto(p, "branch") /\ UNCHANGED << sockets, queue >>
  <2>1. Move(p) /\ PlaceKept(p)
    BY <1>3 DEF Move, PlaceKept, IInv, Places
  <2>2. NumbersKept(p) /\ SocketKept(p) /\ DatagramsKept(p)
    BY <1>3 DEF NumbersKept, PastFork, SocketKept, DatagramsKept, Start
  <2> QED
    BY <2>1, <2>2, MoveInv
<1>4. CASE opts[p].time /\ SocketInit(p, PORT_PARENT) /\ Goto(p, "send")
  <2>1. Move(p) /\ PlaceKept(p)
    BY <1>4 DEF Move, PlaceKept, SocketInit, IInv, Places
  <2>2. NumbersKept(p)
    BY <1>4 DEF NumbersKept, PastFork, Start
  <2>3. SocketKept(p) /\ DatagramsKept(p)
    BY <1>4 DEF SocketKept, DatagramsKept, SocketInit, ReportPort
  <2> QED
    BY <2>1, <2>2, <2>3, MoveInv
<1>5. CASE Exit(p) /\ UNCHANGED queue
  <2>1. Move(p) /\ PlaceKept(p)
    BY <1>5 DEF Move, PlaceKept, Exit, SocketFini, IInv, Places
  <2>2. NumbersKept(p) /\ SocketKept(p) /\ DatagramsKept(p)
    BY <1>5 DEF NumbersKept, SocketKept, DatagramsKept, Exit, SocketFini
  <2> QED
    BY <2>1, <2>2, MoveInv
<1> QED
  BY <1>3, <1>4, <1>5 DEF Start

\* The steps that decide where to go next and change little else.
LEMMA PlainStepInv ==
  ASSUME StateTypes, IInv, NEW p \in Procs,
         Branch(p) \/ FinishAlone(p) \/ ClockFails(p) \/ CloneFails(p)
  PROVE  IInv'
<1>1. /\ p \in Members /\ pc[p] \notin Settled /\ opts[p].fork = Forking
      /\ UNCHANGED << queue, locals, family, network >>
  BY DEF Members, Settled, IInv, Places, Branch, FinishAlone, ClockFails,
     CloneFails
<1> USE <1>1 DEF StateTypes, Goto, Settled, locals, family, network, sockets
<1>2. CASE Branch(p)
  <2>1. p = Root
    BY <1>2 DEF Branch, IInv, Places
  <2>2. Move(p)
    BY <1>2 DEF Branch, Move
  <2>3. PlaceKept(p)
    BY <1>2, <2>1 DEF Branch, PlaceKept, IInv, Places
  <2>4. NumbersKept(p) /\ DatagramsKept(p)
    BY <1>2, <2>1 DEF Branch, NumbersKept, PastFork, DatagramsKept
  <2>5. SocketKept(p)
    BY <1>2, <2>1 DEF Branch, SocketKept, IInv, OwnSockets
  <2> QED
    BY <2>2, <2>3, <2>4, <2>5, MoveInv
<1>3. CASE FinishAlone(p) \/ Exit(p)
  <2>1. /\ SocketFini(p) /\ pc'[p] \in Settled
        /\ \A q \in Procs \ {p} : pc'[q] = pc[q]
    BY <1>3 DEF FinishAlone, Exit
  <2>2. Move(p) /\ PlaceKept(p)
    BY <2>1 DEF Move, SocketFini, PlaceKept, IInv, Places
  <2>3. NumbersKept(p) /\ SocketKept(p) /\ DatagramsKept(p)
    BY <2>1 DEF SocketFini, NumbersKept, SocketKept, DatagramsKept
  <2> QED
    BY <2>2, <2>3, MoveInv
<1> QED
  BY <1>2, <1>3 DEF ClockFails, CloneFails

\* A report takes the port of the socket it leaves from, an answer the one of
\* the socket it is read from.
LEMMA SendTimeInv ==
  ASSUME StateTypes, IInv, NEW p \in Procs,
         SendReport(p) \/ SendFails(p) \/ ReceiveAnswer(p) \/ Timeout(p)
  PROVE  IInv'
<1>1. /\ p \in Reporting /\ p \in Members /\ opts[p].fork = Forking
      /\ opts[p].time /\ pc[p] \in {"send", "wait"}
      /\ su[p] = p /\ port[p] = ReportPort(p)
  BY DEF Reporting, Members, IInv, Places, OwnSockets, SendReport, SendFails,
     ReceiveAnswer, Timeout
<1>2. ASSUME pc' = [pc EXCEPT ![p] = "send"] \/ pc' = [pc EXCEPT ![p] = "wait"],
             UNCHANGED << sockets, locals, family >>,
             queue'[p] \subseteq queue[p],
             \A q \in Procs \ {p} : queue'[q] = queue[q],
             outbound' \subseteq outbound \cup {Datagram(p)}, inbound' = inbound
      PROVE  IInv'
  <2> USE <1>1, <1>2 DEF StateTypes, Settled, locals, family, sockets
  <2>1. Move(p) /\ PlaceKept(p)
    BY DEF Move, PlaceKept, IInv, Places
  <2>2. NumbersKept(p)
    BY DEF NumbersKept, PastFork
  <2>3. SocketKept(p)
    BY DEF SocketKept, IInv, OwnSockets
  <2>4. DatagramsKept(p)
    BY DEF DatagramsKept, Datagram, Report
  <2> QED
    BY <2>1, <2>2, <2>3, <2>4, MoveInv
<1>3. CASE SendReport(p)
  BY <1>1, <1>2, <1>3 DEF SendReport, Goto
<1>4. CASE SendFails(p) \/ Timeout(p)
  <2>1. SendTimeReturns(p, FALSE) /\ UNCHANGED << queue, network >>
    BY <1>4 DEF SendFails, Timeout
  <2> QED
    BY <1>1, <2>1, SendTimeReturnsInv
<1>5. CASE ReceiveAnswer(p)
  <2>1. PICK a \in queue[p] :
          /\ queue' = [queue EXCEPT ![p] = @ \ {a}]
          /\ \/ SendTimeReturns(p, TRUE)
             \/ Goto(p, "send") /\ UNCHANGED << sockets, locals, family >>
    BY <1>1, <1>5 DEF ReceiveAnswer
  <2>2. /\ queue'[p] \subseteq queue[p] /\ UNCHANGED network
        /\ \A q \in Procs \ {p} : queue'[q] = queue[q]
    BY <1>5, <2>1 DEF StateTypes, ReceiveAnswer
  <2>3. CASE SendTimeReturns(p, TRUE)
    BY <1>1, <2>2, <2>3, SendTimeReturnsInv
  <2>4. CASE Goto(p, "send") /\ UNCHANGED << sockets, locals, family >>
    BY <1>2, <2>2, <2>4 DEF Goto, network
  <2> QED
    BY <2>1, <2>3, <2>4
<1> QED
  BY <1>3, <1>4, <1>5

\* After fork() the parent reports on, the child closes the socket they share.
LEMMA ForkedInv ==
  ASSUME StateTypes, IInv, NEW p \in Procs, ForkFails(p) \/ Forked(p)
  PROVE  IInv'
<1>1. /\ p \in Members /\ pc[p] \in {"fork", "forked"} /\ pc[p] \notin Settled
      /\ opts[p].fork /\ Forking
      /\ UNCHANGED << queue, ret, family, network >>
  BY DEF Members, Settled, IInv, Places, ForkFails, Forked
<1> USE <1>1 DEF StateTypes, Goto, Settled, family, network, sockets
<1>2. CASE ForkFails(p)
  <2>1. Move(p) /\ PlaceKept(p)
    BY <1>2 DEF ForkFails, Move, PlaceKept, IInv, Places
  <2>2. NumbersKept(p) /\ SocketKept(p) /\ DatagramsKept(p)
    BY <1>2 DEF ForkFails, NumbersKept, SocketKept, DatagramsKept, IInv, Places
  <2> QED
    BY <2>1, <2>2, MoveInv
<1>3. CASE NextIteration(p) /\ Forked(p) /\ UNCHANGED label
  <2>1. UNCHANGED myport /\ pc[p] = "forked"
    BY <1>3 DEF Forked
  <2> QED
    BY <1>3, <2>1, NextIterationInv
<1>4. CASE /\ Forked(p) /\ opts[p].time /\ ret[p] # 0
           /\ ReportAs(p, "parent", iter[p]) /\ UNCHANGED << sockets, iter >>
  <2>1. p = Root /\ UNCHANGED myport /\ pc[p] = "forked"
    BY <1>4 DEF Forked, IInv, Places
  <2>2. Move(p) /\ PlaceKept(p)
    BY <1>4, <2>1 DEF Move, PlaceKept, ReportAs, IInv, Places
  <2>3. NumbersKept(p)
    BY <1>4, <2>1 DEF NumbersKept, PastFork, ReportAs
  <2>4. SocketKept(p) /\ DatagramsKept(p)
    BY <1>4, <2>1 DEF SocketKept, DatagramsKept, ReportAs, ReportPort, IInv,
       OwnSockets
  <2> QED
    BY <2>2, <2>3, <2>4, MoveInv
<1>5. CASE Forked(p) /\ opts[p].time /\ ret[p] = 0 /\ ChildRebinds(p)
  <2>1. p # Root /\ UNCHANGED << myport, iter, label >>
    BY <1>5 DEF Forked, ChildRebinds, IInv, Places
  <2>2. Move(p) /\ PlaceKept(p)
    BY <1>5, <2>1 DEF Move, PlaceKept, ChildRebinds, SocketFini
  <2>3. NumbersKept(p) /\ SocketKept(p) /\ DatagramsKept(p)
    BY <1>5, <2>1 DEF NumbersKept, SocketKept, DatagramsKept, ChildRebinds,
       SocketFini
  <2> QED
    BY <2>2, <2>3, MoveInv
<1> QED
  BY <1>2, <1>3, <1>4, <1>5 DEF Forked

\* A clone's port: the distance of its id from its parent's below PORT_PARENT.
LEMMA ClonePort ==
  ASSUME StateTypes, IInv, NEW p \in Members \ {Root}, pc[p] = "cloned"
  PROVE  Below(myport[p], domid[p] - myparentid(p)) = ReportPort(p)
<1>1. p \in Procs /\ p \in Members /\ Root \in Members /\ ~ Forking
  BY ConstantsAssumption DEF Members, IInv, Places
<1>2. myparentid(p) = domid[Root]
  BY <1>1, ConstantsAssumption DEF myparentid, IInv, Places
<1>3. domid[p] \in DomIds /\ domid[Root] \in DomIds /\ myport[p] = PORT_PARENT
  BY <1>1 DEF IInv, Numbers
<1>4. /\ domid[p] \in Int /\ domid[Root] \in Int
      /\ 0 =< PORT_PARENT - (domid[p] - domid[Root])
      /\ PORT_PARENT - (domid[p] - domid[Root]) < 65536
  BY <1>3, DomIdBounds, ParentPort
<1>5. Below(PORT_PARENT, domid[p] - domid[Root])
        = PORT_PARENT - (domid[p] - domid[Root])
  BY <1>4, BelowExact, ParentPort
<1> QED
  BY <1>1, <1>2, <1>3, <1>5 DEF ReportPort

\* After the clone a child counts its port down by the distance of the ids.
LEMMA ClonedInv ==
  ASSUME StateTypes, IInv, NEW p \in Procs, Cloned(p)
  PROVE  IInv'
<1>1. /\ p \in Members /\ pc[p] = "cloned" /\ pc[p] \notin Settled
      /\ ~ opts[p].fork /\ ~ Forking
      /\ UNCHANGED << queue, ret, family, network >>
  BY DEF Members, Settled, IInv, Places, Cloned
<1> USE <1>1 DEF StateTypes, Goto, Settled, family, network, sockets
<1>2. CASE CloneReturns(p) /\ UNCHANGED << label, myport >>
  <2>1. Move(p) /\ PlaceKept(p)
    BY <1>2 DEF Move, PlaceKept, CloneReturns, Return, IInv, Places
  <2>2. NumbersKept(p) /\ SocketKept(p) /\ DatagramsKept(p)
    BY <1>2 DEF NumbersKept, SocketKept, DatagramsKept, CloneReturns, Return
  <2> QED
    BY <2>1, <2>2, MoveInv
<1>3. CASE /\ opts[p].time /\ ret[p] = 0
           /\ ReportAs(p, "parent", myparentid(p))
           /\ UNCHANGED << sockets, iter, myport >>
  <2>1. p = Root
    BY <1>3 DEF IInv, Places
  <2>2. Move(p) /\ PlaceKept(p)
    BY <1>3, <2>1 DEF Move, PlaceKept, ReportAs, IInv, Places
  <2>3. NumbersKept(p)
    BY <1>3, <2>1 DEF NumbersKept, ReportAs
  <2>4. SocketKept(p) /\ DatagramsKept(p)
    BY <1>3, <2>1 DEF SocketKept, DatagramsKept, ReportAs, ReportPort, IInv,
       OwnSockets
  <2> QED
    BY <2>2, <2>3, <2>4, MoveInv
<1>4. CASE /\ opts[p].time /\ ret[p] = 1
           /\ myport' = [myport EXCEPT ![p] = Below(@, domid[p] - myparentid(p))]
           /\ ChildRebinds(p)
  <2>1. p # Root
    BY <1>4 DEF IInv, Places
  <2>2. myport'[p] = ReportPort(p)
    BY <1>4, <2>1, ClonePort
  <2>3. Move(p) /\ PlaceKept(p)
    BY <1>4, <2>1 DEF Move, PlaceKept, ChildRebinds, SocketFini
  <2>4. NumbersKept(p) /\ SocketKept(p) /\ DatagramsKept(p)
    BY <1>4, <2>1, <2>2 DEF NumbersKept, SocketKept, DatagramsKept, ChildRebinds,
       SocketFini
  <2> QED
    BY <2>3, <2>4, MoveInv
<1> QED
  BY <1>2, <1>3, <1>4 DEF Cloned

\* A child's own socket is bound to a port nobody else reports from.
LEMMA RebindInv ==
  ASSUME StateTypes, IInv, NEW p \in Procs, Rebind(p)
  PROVE  IInv'
<1>1. /\ p \in Members /\ pc[p] = "rebind" /\ p # Root /\ opts[p].time
      /\ opts[p].fork = Forking
      /\ UNCHANGED << myport, iter, ret, family, network >>
  BY DEF Members, IInv, Places, Rebind
<1>2. myport[p] = ReportPort(p)
  BY <1>1 DEF IInv, Numbers, ReportPort
<1> USE <1>1 DEF StateTypes, Goto, Settled, family, network, sockets
<1>3. CASE SocketInit(p, myport[p]) /\ ReportAs(p, "child", ChildIndex(p))
  <2>1. Move(p) /\ PlaceKept(p)
    BY <1>3 DEF Move, PlaceKept, SocketInit, ReportAs
  <2>2. NumbersKept(p) /\ SocketKept(p) /\ DatagramsKept(p)
    BY <1>2, <1>3 DEF NumbersKept, SocketKept, DatagramsKept, SocketInit, ReportAs
  <2> QED
    BY <2>1, <2>2, MoveInv
<1>4. CASE Exit(p) /\ UNCHANGED << queue, label >>
  <2>1. Move(p) /\ PlaceKept(p)
    BY <1>4 DEF Move, PlaceKept, Exit, SocketFini
  <2>2. NumbersKept(p) /\ SocketKept(p) /\ DatagramsKept(p)
    BY <1>4 DEF NumbersKept, SocketKept, DatagramsKept, Exit, SocketFini
  <2> QED
    BY <2>1, <2>2, MoveInv
<1> QED
  BY <1>3, <1>4 DEF Rebind

-----------------------------------------------------------------------------
(* The steps that create members.                                          *)

\* A new member brings a socket, a port and a queue that exist already.
LEMMA InheritCopies ==
  ASSUME StateTypes, NEW p \in Procs, NEW C \in SUBSET Procs, Inherit(p, C)
  PROVE  /\ \A q \in Procs \ C : su'[q] = su[q] /\ port'[q] = port[q]
         /\ \A d \in Procs : \E e \in Procs :
              queue'[d] = queue[e] /\ port'[d] = port[e]
<1>1. CASE SharedKernel \/ su[p] = NONE
  BY <1>1 DEF StateTypes, Inherit
<1>2. CASE ~ (SharedKernel \/ su[p] = NONE)
  <2>1. su[p] \in Procs
    BY <1>2 DEF StateTypes
  <2>2. ASSUME NEW d \in Procs
        PROVE  \E e \in Procs : queue'[d] = queue[e] /\ port'[d] = port[e]
    <3>1. CASE d \in C
      BY <1>2, <2>1, <3>1 DEF Inherit, StateTypes
    <3>2. CASE d \notin C
      BY <1>2, <3>2 DEF Inherit, StateTypes
    <3> QED
      BY <3>1, <3>2
  <2> QED
    BY <1>2, <2>2 DEF Inherit, StateTypes
<1> QED
  BY <1>1, <1>2

\* The datagrams in flight do not depend on the new members.
LEMMA GrowInFlight ==
  ASSUME StateTypes, IInv, NEW p \in Procs, NEW C \in SUBSET (Procs \ Members),
         Inherit(p, C), UNCHANGED network, Members \subseteq Members',
         \A q \in Members : ReportPort(q)' = ReportPort(q)
  PROVE  InFlight'
<1>1. ASSUME NEW d \in Procs, NEW a \in queue'[d]
      PROVE  a.rep.from \in Members /\ port'[d] = ReportPort(a.rep.from)
  <2>1. PICK e \in Procs : queue'[d] = queue[e] /\ port'[d] = port[e]
    BY InheritCopies
  <2> QED
    BY <2>1 DEF IInv, InFlight
<1> QED
  BY <1>1 DEF IInv, InFlight, network

\* A new child has the port that its parent has just counted down to.
LEMMA ForkInv ==
  ASSUME StateTypes, IInv, NEW p \in Procs, Fork(p)
  PROVE  IInv'
<1>1. PICK c \in Procs \ Members :
        /\ pc'  = [pc EXCEPT ![p] = "forked", ![c] = "forked"]
        /\ ret' = [ret EXCEPT ![p] = 1, ![c] = 0]
        /\ myport' = [myport EXCEPT ![p] = NextPort(p), ![c] = NextPort(p)]
        /\ iter'  = [iter EXCEPT ![c] = iter[p]]
        /\ label' = [label EXCEPT ![c] = label[p]]
        /\ opts'  = [opts EXCEPT ![c] = opts[p]]
        /\ forkedBy' = [forkedBy EXCEPT ![c] = p]
        /\ Inherit(p, {c})
  BY DEF Fork
<1>2. /\ p = Root /\ Forking /\ c # Root /\ p \in Members
      /\ pc[p] = "fork" /\ pc[p] \notin Settled
  BY <1>1, ConstantsAssumption DEF Fork, IInv, Places, Members, Settled
<1>f. /\ \A q \in Procs : q # c => opts'[q] = opts[q] /\ forkedBy'[q] = forkedBy[q]
                                  /\ label'[q] = label[q]
      /\ \A q \in Procs : q # c /\ q # Root => pc'[q] = pc[q] /\ ret'[q] = ret[q]
      /\ pc'[c] = "forked" /\ ret'[c] = 0 /\ opts'[c] = opts[Root] /\ forkedBy'[c] = Root
      /\ pc'[Root] = "forked" /\ ret'[Root] = 1
  BY <1>1, <1>2 DEF StateTypes
<1>3. /\ UNCHANGED << domid, network >> /\ Members' = Members \cup {c}
      /\ Forking' = Forking /\ Members \subseteq Procs
  <2>1. UNCHANGED << domid, network >> /\ Members \subseteq Procs
    BY DEF Fork, Members
  <2>2. Forking' = Forking
    BY <1>2, <1>f DEF Forking, Members
  <2>3. ASSUME NEW q \in Procs
        PROVE  pc'[q] # "absent" <=> q \in Members \cup {c}
    BY <1>2, <1>f DEF Members
  <2>4. Members' = {q \in Procs : pc'[q] # "absent"}
    BY DEF Members
  <2> QED
    BY <2>1, <2>2, <2>3, <2>4
<1>4. \A q \in Members : ReportPort(q)' = ReportPort(q)
  BY <1>1, <1>2, <1>3 DEF ReportPort, StateTypes
<1>5. Places'
  <2>1. /\ forkedBy'[Root] = NONE /\ pc'[Root] = "forked" /\ ret'[Root] # 0
        /\ Forking
    BY <1>2, <1>f DEF IInv, Places, Members
  <2>2. ASSUME NEW q \in Procs
        PROVE  /\ opts'[q].fork = Forking
               /\ pc'[q] \in {"fork", "forked"} => Forking
               /\ pc'[q] \in {"clone", "cloned"} => ~ Forking
               /\ pc'[q] \in {"send", "wait", "rebind"} => opts'[q].time
    <3>1. CASE q = c \/ q = Root
      BY <1>2, <1>f, <3>1 DEF IInv, Places, Members, Forking
    <3>2. CASE q # c /\ q # Root
      BY <1>f, <3>2 DEF IInv, Places
    <3> QED
      BY <3>1, <3>2
  <2>3. ASSUME NEW q \in Members' \ {Root}
        PROVE  /\ pc'[q] \notin {"start", "branch", "fork", "clone"}
               /\ pc'[q] \in {"send", "wait"} => label'[q].role # "boot"
               /\ forkedBy'[q] = Root
               /\ ret'[q] = 0
    <3>1. CASE q = c
      BY <1>f, <3>1
    <3>2. CASE q # c
      BY <1>2, <1>3, <1>f, <3>2 DEF IInv, Places
    <3> QED
      BY <3>1, <3>2
  <2> QED
    BY <1>3, <2>1, <2>2, <2>3 DEF Places
<1>6. Numbers'
  <2>1. /\ ~ PastFork /\ PastFork' /\ iter[Root] < ChildrenNum
        /\ myport[Root] = PORT_PARENT - iter[Root]
        /\ iter[Root] \in Nat /\ \A q \in Procs : iter[q] \in Nat
    BY <1>1, <1>2, ChildrenNumBounds, ParentPort DEF StateTypes, PastFork, IInv, Numbers,
       Settled
  <2>2. NextPort(Root) = PORT_PARENT - 1 - iter[Root]
    <3>1. 0 =< myport[Root] - 1 /\ myport[Root] - 1 < 65536
      BY <2>1, ChildrenNumBounds, ParentPort
    <3> QED
      BY <1>2, <2>1, <3>1, BelowExact, ParentPort DEF NextPort, StateTypes
  <2>3. /\ iter'[Root] = iter[Root] /\ iter'[c] = iter[Root]
        /\ myport'[Root] = NextPort(Root) /\ myport'[c] = NextPort(Root)
        /\ \A d \in Members \ {Root} :
             iter'[d] = iter[d] /\ myport'[d] = myport[d] /\ d \in Procs
    BY <1>1, <1>2, <1>3 DEF StateTypes
  <2>4. \A d \in Members \ {Root} :
          /\ iter[d] =< iter[Root] /\ iter[d] # iter[Root]
          /\ iter[d] < ChildrenNum /\ myport[d] = PORT_PARENT - 1 - iter[d]
          /\ \A e \in Members \ {Root} : iter[d] = iter[e] => d = e
    BY <1>2, <2>1 DEF IInv, Numbers
  <2>5. /\ iter'[Root] < ChildrenNum
        /\ myport'[Root] = PORT_PARENT - iter'[Root] - 1
    BY <2>1, <2>2, <2>3, ParentPort
  <2>6. ASSUME NEW d \in Members' \ {Root}
        PROVE  /\ iter'[d] =< iter'[Root] /\ iter'[d] < ChildrenNum
               /\ myport'[d] = PORT_PARENT - 1 - iter'[d]
               /\ \A e \in Members' \ {Root} : iter'[d] = iter'[e] => d = e
    BY <1>3, <2>1, <2>2, <2>3, <2>4
  <2> QED
    BY <1>2, <1>3, <2>1, <2>5, <2>6 DEF Numbers
<1>7. OwnSockets'
  <2>1. Reporting' = Reporting /\ Reporting \subseteq Members
    BY <1>1, <1>2 DEF Reporting, Members, StateTypes
  <2>2. \A q \in Members : su'[q] = su[q] /\ port'[q] = port[q] /\ opts'[q] = opts[q]
    <3>1. {c} \in SUBSET Procs /\ Inherit(p, {c}) /\ Members \subseteq Procs \ {c}
      BY <1>1, <1>3
    <3>2. \A q \in Procs \ {c} : su'[q] = su[q] /\ port'[q] = port[q]
      BY <3>1, InheritCopies
    <3>3. \A q \in Members : opts'[q] = opts[q]
      BY <1>f, <3>1
    <3> QED
      BY <3>1, <3>2, <3>3
  <2>3. pc[Root] \notin {"start"} \cup Settled
    BY <1>2
  <2> QED
    BY <1>2, <1>4, <2>1, <2>2, <2>3 DEF IInv, OwnSockets
<1>8. InFlight'
  BY <1>1, <1>3, <1>4, GrowInFlight
<1> QED
  BY <1>5, <1>6, <1>7, <1>8 DEF IInv

\* The children of a clone differ in their ids, so in their ports.
LEMMA CloneInv ==
  ASSUME StateTypes, IInv, NEW p \in Procs, Clone(p)
  PROVE  IInv'
<1>1. PICK C \in SUBSET (Procs \ Members) :
        /\ \E id \in [C -> DomIds \ UsedDomIds] :
             /\ \A c, d \in C : id[c] = id[d] => c = d
             /\ domid' = [q \in Procs |-> IF q \in C THEN id[q] ELSE domid[q]]
        /\ pc'  = [q \in Procs |-> IF q \in C \cup {p} THEN "cloned" ELSE pc[q]]
        /\ ret' = [q \in Procs |-> IF q \in C THEN os_clone(1)
                                   ELSE IF q = p THEN os_clone(0) ELSE ret[q]]
        /\ myport' = [q \in Procs |-> IF q \in C THEN myport[p] ELSE myport[q]]
        /\ opts' = [q \in Procs |-> IF q \in C THEN ChildOptions(p) ELSE opts[q]]
        /\ forkedBy' = [q \in Procs |-> IF q \in C THEN p ELSE forkedBy[q]]
        /\ Inherit(p, C)
  BY DEF Clone
<1>2. PICK id \in [C -> DomIds \ UsedDomIds] :
        /\ \A c, d \in C : id[c] = id[d] => c = d
        /\ domid' = [q \in Procs |-> IF q \in C THEN id[q] ELSE domid[q]]
  BY <1>1
<1>3. /\ p = Root /\ ~ Forking /\ Root \notin C /\ p \in Members
      /\ pc[p] = "clone" /\ pc[p] \notin Settled /\ myport[Root] = PORT_PARENT
  BY ConstantsAssumption DEF Clone, IInv, Places, Members, Settled
<1>4. /\ UNCHANGED << iter, network >> /\ Members' = Members \cup C
      /\ Forking' = Forking /\ Members \subseteq Procs
  BY <1>1, <1>3 DEF Clone, Members, Forking
<1>5. \A q \in Members : domid'[q] = domid[q]
  BY <1>2, <1>4
<1>6. \A q \in Members : ReportPort(q)' = ReportPort(q)
  BY <1>3, <1>4, <1>5 DEF ReportPort
<1>7. Places'
  <2>1. /\ \A q \in C : opts'[q].fork = FALSE /\ forkedBy'[q] = Root
                         /\ pc'[q] = "cloned" /\ ret'[q] = 1
        /\ pc'[Root] = "cloned" /\ ret'[Root] = 0 /\ myport'[Root] = PORT_PARENT
        /\ \A q \in Procs \ C : opts'[q] = opts[q] /\ forkedBy'[q] = forkedBy[q]
                         /\ (q # Root => pc'[q] = pc[q] /\ ret'[q] = ret[q])
    BY <1>1, <1>3 DEF ChildOptions, os_clone
  <2>2. \A q \in Members : label'[q] = label[q]
    BY <1>1, <1>4 DEF Clone
  <2>3. ASSUME NEW q \in Procs
        PROVE  /\ opts'[q].fork = Forking
               /\ pc'[q] \in {"fork", "forked"} => Forking
               /\ pc'[q] \in {"clone", "cloned"} => ~ Forking
               /\ pc'[q] \in {"send", "wait", "rebind"} => opts'[q].time
    <3>1. CASE q \in C
      <4>1. Forking = FALSE
        BY <1>3, <1>4 DEF StateTypes, Forking
      <4> QED
        BY <2>1, <3>1, <4>1
    <3>2. CASE q = Root
      BY <1>3, <2>1, <3>2 DEF IInv, Places
    <3>3. CASE q \notin C /\ q # Root
      BY <1>3, <2>1, <3>3 DEF IInv, Places
    <3> QED
      BY <3>1, <3>2, <3>3
  <2>4. ASSUME NEW q \in Members' \ {Root}
        PROVE  /\ pc'[q] \notin {"start", "branch", "fork", "clone"}
               /\ pc'[q] \in {"send", "wait"} => label'[q].role # "boot"
               /\ forkedBy'[q] = Root
               /\ ret'[q] = 1
    <3>1. CASE q \in C
      BY <2>1, <3>1
    <3>2. CASE q \notin C
      BY <1>3, <1>4, <2>1, <2>2, <3>2 DEF IInv, Places
    <3> QED
      BY <3>1, <3>2
  <2>5. forkedBy'[Root] = NONE
    BY <1>3, <1>4, <2>1 DEF IInv, Places
  <2> QED
    BY <1>3, <1>4, <2>1, <2>3, <2>4, <2>5 DEF Places
<1>8. Numbers'
  <2>1. ASSUME NEW q \in Members' 
        PROVE  /\ domid'[q] \in DomIds
               /\ pc'[q] = "cloned" => myport'[q] = PORT_PARENT
               /\ q # Root /\ pc'[q] = "rebind" => myport'[q] = ReportPort(q)'
    BY <1>1, <1>2, <1>3, <1>4, <1>6 DEF IInv, Numbers
  <2>2. ASSUME NEW q \in Members', NEW s \in Members', domid'[q] = domid'[s]
        PROVE  q = s
    <3>1. \A c \in C : domid'[c] = id[c] /\ id[c] \in DomIds \ UsedDomIds
      BY <1>2
    <3>2. \A m \in Members : domid'[m] \in UsedDomIds
      BY <1>5 DEF UsedDomIds
    <3>3. CASE q \in C /\ s \in C
      BY <1>2, <2>2, <3>1, <3>3
    <3>4. CASE q \in Members /\ s \in Members
      BY <1>3, <1>5, <2>2, <3>4 DEF IInv, Numbers
    <3> QED
      BY <1>4, <2>2, <3>1, <3>2, <3>3, <3>4
  <2> QED
    BY <1>3, <1>4, <2>1, <2>2 DEF Numbers
<1>9. OwnSockets'
  <2>1. Reporting' = Reporting /\ Reporting \subseteq Members
    BY <1>1, <1>3 DEF Reporting, Members
  <2>2. \A q \in Members : su'[q] = su[q] /\ port'[q] = port[q] /\ opts'[q] = opts[q]
    BY <1>1, <1>4, InheritCopies
  <2>3. pc[Root] \notin {"start"} \cup Settled
    BY <1>3
  <2> QED
    BY <1>3, <1>6, <2>1, <2>2, <2>3 DEF IInv, OwnSockets
<1>10. InFlight'
  BY <1>1, <1>4, <1>6, GrowInFlight
<1> QED
  BY <1>7, <1>8, <1>9, <1>10 DEF IInv

\* The network moves datagrams but does not change their ports.
LEMMA EnvironmentInv ==
  ASSUME StateTypes, IInv, Environment
  PROVE  IInv'
<1>1. UNCHANGED members
  BY DEF Environment, Collect, AnswerArrives, Lose
<1> USE <1>1 DEF members, sockets, locals, family
<1>2. /\ Members' = Members /\ Forking' = Forking /\ PastFork' = PastFork
      /\ Reporting' = Reporting /\ \A q \in Procs : ReportPort(q)' = ReportPort(q)
      /\ Members \subseteq Procs
  BY DEF Members, Forking, PastFork, Reporting, ReportPort
<1>3. Places' /\ Numbers' /\ OwnSockets'
  BY <1>2 DEF IInv, Places, Numbers, OwnSockets, Members, Reporting
<1>4. ASSUME NEW m \in outbound, Collect(m)
      PROVE  InFlight'
  BY <1>2, <1>4 DEF Collect, IInv, InFlight
<1>5. ASSUME NEW m \in inbound, AnswerArrives(m)
      PROVE  InFlight'
  <2>1. \/ UNCHANGED queue
        \/ \E d \in Procs : /\ port[d] = m.port
             /\ queue' = [queue EXCEPT ![d] = @ \cup {[rep |-> m.rep, len |-> m.len]}]
    BY <1>5 DEF AnswerArrives
  <2>2. /\ inbound' \subseteq inbound /\ outbound' = outbound
        /\ m.rep.from \in Members /\ m.port = ReportPort(m.rep.from)
    BY <1>5 DEF AnswerArrives, IInv, InFlight
  <2> QED
    BY <1>2, <2>1, <2>2 DEF IInv, InFlight, StateTypes
<1>6. ASSUME Lose
      PROVE  InFlight'
  <2>1. /\ outbound' \subseteq outbound /\ inbound' \subseteq inbound
        /\ queue' = queue
    BY <1>6 DEF Lose
  <2> QED
    BY <1>2, <2>1 DEF IInv, InFlight
<1> QED
  BY <1>3, <1>4, <1>5, <1>6 DEF Environment, IInv

\* Every step keeps the invariant.
LEMMA NextInv ==
  ASSUME StateTypes, IInv, [Next]_vars
  PROVE  IInv'
<1>1. ASSUME NEW p \in Procs, Step(p)
      PROVE  IInv'
  BY <1>1, StartInv, PlainStepInv, SendTimeInv, ForkInv, ForkedInv, CloneInv,
     ClonedInv, RebindInv DEF Step, Act
<1>2. CASE Environment
  BY <1>2, EnvironmentInv
<1>3. CASE UNCHANGED vars
  BY <1>3 DEF vars, sockets, locals, family, network, IInv, Places, Numbers,
     OwnSockets, InFlight, Members, Forking, PastFork, Reporting, ReportPort
<1> QED
  BY <1>1, <1>2, <1>3 DEF Next

-----------------------------------------------------------------------------
(* What the invariant says of the members that report and of the answers.  *)

\* No two members report from one port.
LEMMA ReportPortsDiffer ==
  ASSUME StateTypes, IInv, NEW p \in Members, NEW q \in Members,
         ReportPort(p) = ReportPort(q)
  PROVE  p = q
<1>1. Root \in Members /\ p \in Procs /\ q \in Procs
  BY ConstantsAssumption DEF Members, IInv, Places
<1>2. CASE Forking
  <2>1. iter[p] \in Nat /\ iter[q] \in Nat
    BY <1>1, ChildrenNumBounds DEF StateTypes
  <2>2. p # Root /\ q # Root => iter[p] = iter[q]
    BY <1>2, <2>1, ParentPort DEF ReportPort
  <2>3. p = Root <=> q = Root
    BY <1>2, <2>1, ParentPort DEF ReportPort
  <2> QED
    BY <1>2, <2>2, <2>3 DEF IInv, Numbers
<1>3. CASE ~ Forking
  <2>1. domid[p] \in DomIds /\ domid[q] \in DomIds /\ domid[Root] \in DomIds
    BY <1>1, <1>3 DEF IInv, Numbers
  <2>2. domid[p] \in Int /\ domid[q] \in Int /\ domid[Root] \in Int
    BY <2>1, DomIdBounds
  <2>3. domid[p] = domid[q]
    BY <1>3, <2>2, ParentPort DEF ReportPort
  <2> QED
    BY <1>1, <1>3, <2>3 DEF IInv, Numbers
<1> QED
  BY <1>2, <1>3

\* The invariant gives ReportersHaveDistinctPorts.
LEMMA InvDistinctPorts ==
  ASSUME StateTypes, IInv
  PROVE  ReportersHaveDistinctPorts
<1> SUFFICES ASSUME NEW p \in Reporting, NEW q \in Reporting, p # q
             PROVE  su[p] # su[q] /\ port[su[p]] # port[su[q]]
  BY DEF ReportersHaveDistinctPorts
<1>1. p \in Members /\ q \in Members
  BY DEF Reporting, Members
<1>2. su[p] = p /\ su[q] = q /\ port[p] = ReportPort(p) /\ port[q] = ReportPort(q)
  BY DEF IInv, OwnSockets
<1> QED
  BY <1>1, <1>2, ReportPortsDiffer

\* Only ReceiveAnswer takes answers, and an answer that waits in the socket of a
\* member is to a report of that member.
LEMMA NextAckGoesHome ==
  ASSUME StateTypes, IInv, AckGoesHome, [Next]_vars
  PROVE  AckGoesHome'
<1>1. ASSUME NEW p \in Procs, ReceiveAnswer(p)
      PROVE  AckGoesHome'
  <2>1. PICK a \in queue[su[p]] : consumed' = consumed \cup {<< p, a.rep >>}
    BY <1>1 DEF ReceiveAnswer
  <2>2. p \in Reporting /\ p \in Members
    BY <1>1 DEF ReceiveAnswer, Reporting, Members
  <2>3. su[p] = p /\ port[p] = ReportPort(p)
    BY <2>2 DEF IInv, OwnSockets
  <2>4. a.rep.from \in Members /\ ReportPort(a.rep.from) = ReportPort(p)
    BY <2>1, <2>3 DEF IInv, InFlight
  <2>5. a.rep.from = p
    BY <2>2, <2>4, ReportPortsDiffer
  <2> QED
    BY <2>1, <2>5 DEF AckGoesHome
<1>2. ASSUME NEW p \in Procs, Step(p), ~ ReceiveAnswer(p)
      PROVE  consumed' = consumed
  BY <1>2 DEF Step, Act, Start, Branch, FinishAlone, SendReport, SendFails, Timeout,
     Fork, ForkFails, Forked, Clone, CloneFails, Cloned, Rebind, ClockFails, history
<1>3. Environment => consumed' = consumed
  BY DEF Environment, Collect, AnswerArrives, Lose, members, history
<1>4. UNCHANGED vars => consumed' = consumed
  BY DEF vars, history
<1> QED
  BY <1>1, <1>2, <1>3, <1>4 DEF Next, AckGoesHome

-----------------------------------------------------------------------------
(* The theorems.                                                           *)

\* The invariant: the types, and what keeps the members of a family apart, the
\* loop variable (with -f) or the domain id (with -x) of each being its own.
THEOREM FamilyInvariant == Spec => [](StateTypes /\ IInv)
<1>1. Init => StateTypes /\ IInv
  BY InitTypes, InitInv
<1>2. StateTypes /\ IInv /\ [Next]_vars => StateTypes' /\ IInv'
  BY NextTypes, NextInv
<1> QED
  BY <1>1, <1>2, PTL DEF Spec

\* The prologue keeps its types: no port leaves the range of an unsigned short
\* and the loop variable of fork_prologue() never passes the children number.
THEOREM TypeCorrect == Spec => []TypeOK
<1>1. Init => faults \subseteq FaultKinds
  BY ConstantsAssumption DEF Init
<1>2. faults \subseteq FaultKinds /\ [Next]_vars => (faults \subseteq FaultKinds)'
  BY DEF Next, Step, Environment, vars
<1>3. StateTypes /\ faults \subseteq FaultKinds => TypeOK
  BY DEF TypeOK
<1> QED
  BY <1>1, <1>2, <1>3, FamilyInvariant, PTL DEF Spec

\* Members that report at the same time do it from different sockets on
\* different ports, whatever the order in which they run and whoever fails.
THEOREM DistinctPorts == Spec => []ReportersHaveDistinctPorts
<1>1. StateTypes /\ IInv => ReportersHaveDistinctPorts
  BY InvDistinctPorts
<1> QED
  BY <1>1, FamilyInvariant, PTL

\* No member takes the answer to another member's report, whatever the network
\* loses, repeats, delays or reorders.
THEOREM AcksGoHome == Spec => []AckGoesHome
<1>1. Init => AckGoesHome
  BY DEF Init, AckGoesHome
<1>2. StateTypes /\ IInv /\ AckGoesHome /\ [Next]_vars => AckGoesHome'
  BY NextAckGoesHome
<1> QED
  BY <1>1, <1>2, FamilyInvariant, PTL DEF Spec

=============================================================================

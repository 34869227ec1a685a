------------------------------ MODULE Prologue ------------------------------
(***************************************************************************)
(* The prologue every networked application runs before it serves:         *)
(* server_prologue(), fork_prologue() and clone_prologue() of              *)
(* server-common.c, send_time() of common/time.c, the UDP socket helpers   *)
(* of common/net.c they call, and os_clone() of Mini-OS.                    *)
(*                                                                         *)
(* A family of processes (Linux) or guests (Mini-OS, Unikraft) grows from  *)
(* Root.  Each member reports the time to a collector at the gateway over  *)
(* UDP and waits for an answer; the answers carry nothing that says which  *)
(* report they answer, so the port a member is bound to is the only thing  *)
(* that brings an answer home.  The network and the collector are the      *)
(* environment: datagrams may be lost, repeated, delayed and reordered     *)
(* when `faults` says so.                                                    *)
(***************************************************************************)
EXTENDS Integers, FiniteSets

CONSTANTS
  Platform,     \* "posix" (Linux), "minios" or "unikraft": what runs the program
  Scenarios,    \* the command lines considered, each with what may go wrong
  ChildrenNum,  \* the -c option
  Procs,        \* the slots of the process table or of the hypervisor
  Root,         \* the member the operator starts
  DomIds,       \* the domain ids the hypervisor hands out
  NONE          \* no socket, no creator

FaultKinds ==
  { "loss",     \* a datagram disappears
    "dup",      \* an answer is delivered and stays in flight
    "delay",    \* the receive timeout may expire before the answer arrives
    "empty",    \* the collector may answer with an empty datagram
    "call" }    \* gettimeofday, socket, sendto, fork or clone may fail

\* -t, -f and -x.
Lines == [time : BOOLEAN, fork : BOOLEAN, clone : BOOLEAN]

PORT_PARENT == 32767

\* The port send_time() sends to; on Linux the collector listens on this host.
PORT_COLLECTOR == 32764

PORT_SPACE == 65536     \* unsigned short

ASSUME ConstantsAssumption ==
  /\ Platform \in {"posix", "minios", "unikraft"}
  /\ Scenarios \subseteq [line : Lines, faults : SUBSET FaultKinds]
  /\ Root \in Procs
  /\ NONE \notin Procs

\* Only the os_parse_args() of Mini-OS knows -x: the one of os/posix/, which
\* Unikraft builds too, has no option that leads to its `case 'x'`.
ASSUME OptionsAssumption == Platform = "minios" \/ \A s \in Scenarios : ~ s.line.clone

\* os_parse_args() refuses a children number below one; more members than
\* ports below PORT_PARENT do not fit in a process table of 2^15 entries.
ASSUME ChildrenNumAssumption == ChildrenNum \in 1 .. PORT_PARENT - 1

\* Xen keeps the ids from 0x7FF0 on for itself, and 0 for the host.
ASSUME DomIdsAssumption == \A d \in DomIds : d \in Int /\ 0 < d /\ d < 32752

VARIABLES
  faults,    \* what may go wrong around this family, a subset of FaultKinds
  pc,        \* where each member is
  opts,      \* do_send_time, do_fork and do_clone of each member
  su,        \* the socket `su` of server_prologue(): a description or NONE
  port,      \* the local port of each description
  queue,     \* the answers waiting in each description
  myport,    \* the local variable myport
  iter,      \* the loop variable i of fork_prologue()
  ret,       \* what fork() or os_clone() returned to the member, -1 before
  isChild,   \* the caller's is_child, which it initialises to 0
  label,     \* what the member's current report says: role and index
  domid,     \* the domain id of each member, 0 before it has one
  forkedBy,  \* who created each member (NONE: nobody)
  outbound,  \* reports on their way to the collector
  inbound,   \* answers on their way back
  received,  \* the reports the collector got
  acked,     \* the reports for which send_time() returned 0
  gaveUp,    \* the reports for which send_time() returned an error
  consumed,  \* who took the answer to which report
  strayFd    \* members whose prologue closed a descriptor it did not open

sockets == << su, port >>
locals  == << myport, iter, ret, label >>
family  == << opts, domid, forkedBy >>
network == << outbound, inbound, received >>
history == << acked, gaveUp, consumed >>

vars == << faults, pc, sockets, queue, locals, isChild, family, network, history,
           strayFd >>

Roles     == {"boot", "parent", "child"}
Labels    == [role : Roles, index : Int]
Reports   == [from : Procs, role : Roles, index : Int]
Ports     == 0 .. PORT_SPACE - 1
Outbound  == [rep : Reports, port : Ports]
Inbound   == [rep : Reports, port : Ports, len : {0, 1}]
Answers   == [rep : Reports, len : {0, 1}]       \* len 0: an empty datagram

Settled == {"ready", "failed"}
PCs     == {"absent", "start", "send", "wait", "branch", "fork", "forked",
            "clone", "cloned", "rebind"} \cup Settled

MayFail == "call" \in faults

\* One kernel for the whole family: fork() shares the socket.  A cloned guest
\* has a copy of the network stack, and the copy of the queue with it.
SharedKernel == Platform = "posix"

Members == {p \in Procs : pc[p] # "absent"}

Report(p) == [from |-> p, role |-> label[p].role, index |-> label[p].index]

Open(d) == \E p \in Procs : su[p] = d

-----------------------------------------------------------------------------
(* Sockets: mysocket_init() and mysocket_fini().                           *)

\* SO_REUSEADDR lets the members share a port, but the collector on the same
\* kernel need not set it.
CanBind(prt) == ~ (SharedKernel /\ prt = PORT_COLLECTOR)

SocketInit(p, prt) ==
  /\ CanBind(prt)
  /\ su'    = [su EXCEPT ![p] = p]
  /\ port'  = [port EXCEPT ![p] = prt]
  /\ queue' = [queue EXCEPT ![p] = {}]

SocketInitFails(prt) == MayFail \/ ~ CanBind(prt)

SocketFini(p) ==
  /\ su' = [su EXCEPT ![p] = NONE]
  /\ UNCHANGED port

\* What the children's `su` is after fork() or clone(): the parent's
\* description, or a copy of it in a cloned kernel.
Inherit(p, C) ==
  IF SharedKernel \/ su[p] = NONE
    THEN /\ su' = [q \in Procs |-> IF q \in C THEN su[p] ELSE su[q]]
         /\ UNCHANGED << port, queue >>
    ELSE /\ su'    = [q \in Procs |-> IF q \in C THEN q ELSE su[q]]
         /\ port'  = [q \in Procs |-> IF q \in C THEN port[su[p]] ELSE port[q]]
         /\ queue' = [q \in Procs |-> IF q \in C THEN queue[su[p]] ELSE queue[q]]

-----------------------------------------------------------------------------
(* Steps the functions share.                                              *)

Goto(p, l) == pc' = [pc EXCEPT ![p] = l]

\* rc # 0: the application returns and the process ends, which closes `su`.
Exit(p) ==
  /\ Goto(p, "failed")
  /\ SocketFini(p)
  /\ UNCHANGED isChild

\* rc = 0 with *is_child written; `su` stays open.
Return(p, child) ==
  /\ Goto(p, "ready")
  /\ isChild' = [isChild EXCEPT ![p] = child]
  /\ UNCHANGED sockets

\* A new suffix, then the call of send_time().
ReportAs(p, role, index) ==
  /\ label' = [label EXCEPT ![p] = [role |-> role, index |-> index]]
  /\ Goto(p, "send")
  /\ UNCHANGED isChild

\* myport -= n on an unsigned short.
Below(prt, n) == (prt - n) % PORT_SPACE

\* Mutant: the child stays in the loop (no `break`).
NextIterationNoBreak(p) ==
  /\ iter' = [iter EXCEPT ![p] = @ + 1]
  /\ IF iter[p] + 1 < ChildrenNum
       THEN Goto(p, "fork") /\ UNCHANGED << isChild, sockets >>
       ELSE Return(p, ret[p] = 0)

\* Mutant: i <= children_num.
NextIterationOneMore(p) ==
  \/ /\ ret[p] = 0
     /\ Return(p, TRUE)
     /\ UNCHANGED iter
  \/ /\ ret[p] # 0
     /\ iter' = [iter EXCEPT ![p] = @ + 1]
     /\ IF iter[p] + 1 =< ChildrenNum
          THEN Goto(p, "fork") /\ UNCHANGED << isChild, sockets >>
          ELSE Return(p, FALSE)

\* The end of the body of fork_prologue()'s loop: the child leaves it, the
\* parent forks the next child or has them all.
NextIteration(p) ==
  \/ /\ ret[p] = 0
     /\ Return(p, TRUE)
     /\ UNCHANGED iter
  \/ /\ ret[p] # 0
     /\ iter' = [iter EXCEPT ![p] = @ + 1]
     /\ IF iter[p] + 1 < ChildrenNum
          THEN Goto(p, "fork") /\ UNCHANGED << isChild, sockets >>
          ELSE Return(p, FALSE)

\* Mutant: myparentid is read after the clone.
myparentidLate(p) == domid[p]

\* myparentid is read before the clone, so the children have their parent's.
myparentid(p) == IF forkedBy[p] = NONE THEN domid[p] ELSE domid[forkedBy[p]]

\* The index in a child's suffix.
ChildIndex(p) == IF opts[p].fork THEN iter[p] ELSE domid[p] - myparentid(p)

\* Mutant: the child keeps the socket it inherited.
ChildKeepsSocket(p) ==
  /\ ReportAs(p, "child", ChildIndex(p))
  /\ UNCHANGED << sockets, iter >>

\* A child closes its parent's socket before it opens its own.
ChildRebinds(p) ==
  /\ SocketFini(p)
  /\ Goto(p, "rebind")
  /\ UNCHANGED << label, isChild, iter >>

\* Where clone_prologue() returns rc = 0.
CloneReturns(p) == Return(p, ret[p] = 1) /\ UNCHANGED iter

-----------------------------------------------------------------------------
(* os_clone() from what the hypercall returned: 0 to the parent, 1 to a    *)
(* child, something else to a caller that got no child.                    *)

\* Mutant: the child's result becomes 0, as the os_clone() of Unikraft has it.
os_cloneZero(rc) == IF rc \in {0, 1} THEN 0 ELSE -1

os_clone(rc) == IF rc \in {0, 1} THEN rc ELSE -1

-----------------------------------------------------------------------------
Init ==
  /\ \E s \in Scenarios : opts = [p \in Procs |-> s.line] /\ faults = s.faults
  /\ pc    = [p \in Procs |-> IF p = Root THEN "start" ELSE "absent"]
  /\ su    = [p \in Procs |-> NONE]
  /\ port  = [p \in Procs |-> 0]
  /\ queue = [p \in Procs |-> {}]
  /\ myport  = [p \in Procs |-> PORT_PARENT]
  /\ iter    = [p \in Procs |-> 0]
  /\ ret     = [p \in Procs |-> -1]
  /\ isChild = [p \in Procs |-> FALSE]
  /\ label   = [p \in Procs |-> [role |-> "boot", index |-> 0]]
  /\ \E id \in DomIds : domid = [p \in Procs |-> IF p = Root THEN id ELSE 0]
  /\ forkedBy = [p \in Procs |-> NONE]
  /\ outbound = {} /\ inbound = {} /\ received = {}
  /\ acked = {} /\ gaveUp = {} /\ consumed = {} /\ strayFd = {}

-----------------------------------------------------------------------------
(* server_prologue().                                                      *)

Start(p) ==
  /\ pc[p] = "start"
  /\ \/ /\ ~ opts[p].time
        /\ Goto(p, "branch")
        /\ UNCHANGED << sockets, queue, isChild >>
     \/ /\ opts[p].time
        /\ SocketInit(p, PORT_PARENT)
        /\ Goto(p, "send")
        /\ UNCHANGED isChild
     \/ /\ opts[p].time
        /\ SocketInitFails(PORT_PARENT)
        /\ Exit(p)
        /\ UNCHANGED queue
  /\ UNCHANGED << locals, family, network, history, strayFd >>

Branch(p) ==
  /\ pc[p] = "branch"
  /\ opts[p].fork \/ opts[p].clone
  /\ Goto(p, IF opts[p].fork THEN "fork" ELSE "clone")
  /\ UNCHANGED << sockets, queue, locals, isChild, family, network, history,
                  strayFd >>

\* No child wanted: `su` is closed, also when nothing ever initialised it and
\* its descriptor is whatever the stack held.
FinishAlone(p) ==
  /\ pc[p] = "branch"
  /\ ~ opts[p].fork /\ ~ opts[p].clone
  /\ Goto(p, "ready")
  /\ SocketFini(p)
  /\ strayFd' \in IF opts[p].time THEN {strayFd} ELSE {strayFd, strayFd \cup {p}}
  /\ UNCHANGED << queue, locals, isChild, family, network, history >>

-----------------------------------------------------------------------------
(* send_time(): a report, then the wait for its answer.                    *)

\* What the caller of send_time() does with its result.  Only the first report
\* decides anything: fork_prologue() and clone_prologue() ignore it.
SendTimeReturns(p, ok) ==
  /\ acked'  = IF ok THEN acked \cup {Report(p)} ELSE acked
  /\ gaveUp' = IF ok THEN gaveUp ELSE gaveUp \cup {Report(p)}
  /\ \/ /\ label[p].role = "boot" /\ ok
        /\ Goto(p, "branch")
        /\ UNCHANGED << sockets, isChild, iter >>
     \/ /\ label[p].role = "boot" /\ ~ ok
        /\ Exit(p)
        /\ UNCHANGED iter
     \/ /\ label[p].role # "boot" /\ opts[p].fork
        /\ NextIteration(p)
     \/ /\ label[p].role # "boot" /\ ~ opts[p].fork
        /\ CloneReturns(p)
  /\ UNCHANGED << myport, ret, label, family, strayFd >>

\* What udp_client_send() puts on the wire: the message, from the bound port.
Datagram(p) == [rep |-> Report(p), port |-> port[su[p]]]

\* The report goes out.  A set will do: a report is sent again only after an
\* empty answer, and "dup" covers its copies.
SendReport(p) ==
  /\ pc[p] = "send"
  /\ outbound' = outbound \cup {Datagram(p)}
  /\ Goto(p, "wait")
  /\ UNCHANGED << sockets, queue, locals, isChild, family, inbound, received,
                  history, strayFd >>

\* gettimeofday(), the gateway lookup or sendto() failed.
SendFails(p) ==
  /\ pc[p] = "send"
  /\ MayFail
  /\ SendTimeReturns(p, FALSE)
  /\ UNCHANGED << queue, network, consumed >>

\* udp_client_recv() returned an answer: any answer will do, an empty one
\* repeats the report.
ReceiveAnswer(p) ==
  /\ pc[p] = "wait"
  /\ \E a \in queue[su[p]] :
       /\ queue' = [queue EXCEPT ![su[p]] = @ \ {a}]
       /\ consumed' = consumed \cup {<< p, a.rep >>}
       /\ \/ /\ a.len > 0
             /\ SendTimeReturns(p, TRUE)
          \/ /\ a.len = 0
             /\ Goto(p, "send")
             /\ UNCHANGED << sockets, locals, isChild, family, acked, gaveUp,
                             strayFd >>
  /\ UNCHANGED network

\* Nothing in flight can still bring an answer to the current report.
NothingComing(p) ==
  /\ \A m \in outbound : m.rep # Report(p)
  /\ \A m \in inbound  : m.rep # Report(p)

\* Mutant: recv() without a timeout.
TimeoutNever(p) ==
  /\ pc[p] = "wait"
  /\ MayFail
  /\ SendTimeReturns(p, FALSE)
  /\ UNCHANGED << queue, network, consumed >>

\* Mutant: the error of udp_client_recv() is not returned.
TimeoutUnnoticed(p) ==
  /\ pc[p] = "wait"
  /\ \/ queue[su[p]] = {} /\ ("delay" \in faults \/ NothingComing(p))
     \/ MayFail
  /\ SendTimeReturns(p, TRUE)
  /\ UNCHANGED << queue, network, consumed >>

\* udp_client_recv() failed: two seconds passed, or the timeout could not be set.
Timeout(p) ==
  /\ pc[p] = "wait"
  /\ \/ queue[su[p]] = {} /\ ("delay" \in faults \/ NothingComing(p))
     \/ MayFail
  /\ SendTimeReturns(p, FALSE)
  /\ UNCHANGED << queue, network, consumed >>

-----------------------------------------------------------------------------
(* fork_prologue().                                                        *)

\* gettimeofday() around fork() or os_clone() failed: rc # 0.
ClockFails(p) ==
  /\ pc[p] \in {"fork", "forked", "clone", "cloned"}
  /\ MayFail
  /\ Exit(p)
  /\ UNCHANGED << queue, locals, family, network, history, strayFd >>

\* Mutants: myport stays; myport -= i; myport -= i + 1.
NextPortSame(p)  == myport[p]
NextPortLate(p)  == Below(myport[p], iter[p])
NextPortTwice(p) == Below(myport[p], iter[p] + 1)

\* myport -= 1, before fork(): the child binds to it.
NextPort(p) == Below(myport[p], 1)

Fork(p) ==
  /\ pc[p] = "fork"
  /\ \E c \in Procs \ Members :
       /\ pc'  = [pc EXCEPT ![p] = "forked", ![c] = "forked"]
       /\ ret' = [ret EXCEPT ![p] = 1, ![c] = 0]
       /\ myport' = [myport EXCEPT ![p] = NextPort(p), ![c] = NextPort(p)]
       /\ iter'  = [iter EXCEPT ![c] = iter[p]]
       /\ label' = [label EXCEPT ![c] = label[p]]
       /\ opts'  = [opts EXCEPT ![c] = opts[p]]
       /\ forkedBy' = [forkedBy EXCEPT ![c] = p]
       /\ Inherit(p, {c})
  /\ UNCHANGED << isChild, domid, network, history, strayFd >>

\* fork() < 0 leaves through `out` with the rc of the gettimeofday() before it,
\* 0: the caller is told that all went well.
ForkFails(p) ==
  /\ pc[p] = "fork"
  /\ MayFail \/ Members = Procs
  /\ Goto(p, "ready")
  /\ myport' = [myport EXCEPT ![p] = NextPort(p)]
  /\ UNCHANGED << sockets, queue, iter, ret, label, isChild, family, network,
                  history, strayFd >>

Forked(p) ==
  /\ pc[p] = "forked"
  /\ \/ /\ ~ opts[p].time
        /\ NextIteration(p)
        /\ UNCHANGED label
     \/ /\ opts[p].time /\ ret[p] # 0
        /\ ReportAs(p, "parent", iter[p])
        /\ UNCHANGED << sockets, iter >>
     \/ /\ opts[p].time /\ ret[p] = 0
        /\ ChildRebinds(p)
  /\ UNCHANGED << queue, myport, ret, family, network, history, strayFd >>

-----------------------------------------------------------------------------
(* clone_prologue() and os_clone().                                        *)

\* os_clone() in a child: only the parent forks.
ChildOptions(p) == [time |-> opts[p].time, fork |-> FALSE, clone |-> FALSE]

UsedDomIds == {domid[p] : p \in Members}

\* One hypercall creates all the children.  Nothing makes their ids follow
\* their parent's, or one another.
Clone(p) ==
  /\ pc[p] = "clone"
  /\ \E C \in SUBSET (Procs \ Members) :
       /\ Cardinality(C) = ChildrenNum
       /\ \E id \in [C -> DomIds \ UsedDomIds] :
            /\ \A c, d \in C : id[c] = id[d] => c = d
            /\ domid' = [q \in Procs |-> IF q \in C THEN id[q] ELSE domid[q]]
       /\ pc'  = [q \in Procs |-> IF q \in C \cup {p} THEN "cloned" ELSE pc[q]]
       /\ ret' = [q \in Procs |-> IF q \in C THEN os_clone(1)
                                  ELSE IF q = p THEN os_clone(0) ELSE ret[q]]
       /\ myport' = [q \in Procs |-> IF q \in C THEN myport[p] ELSE myport[q]]
       /\ label' = [q \in Procs |-> IF q \in C THEN label[p] ELSE label[q]]
       /\ opts' = [q \in Procs |-> IF q \in C THEN ChildOptions(p) ELSE opts[q]]
       /\ forkedBy' = [q \in Procs |-> IF q \in C THEN p ELSE forkedBy[q]]
       /\ Inherit(p, C)
  /\ UNCHANGED << iter, isChild, network, history, strayFd >>

\* os_clone() < 0: no memory for the ids, the hypercall failed, or more guests
\* were asked for than the hypervisor holds.
CloneFails(p) ==
  /\ pc[p] = "clone"
  /\ \/ MayFail
     \/ Cardinality(Procs \ Members) < ChildrenNum
     \/ Cardinality(DomIds \ UsedDomIds) < ChildrenNum
  /\ Exit(p)
  /\ UNCHANGED << queue, locals, family, network, history, strayFd >>

Cloned(p) ==
  /\ pc[p] = "cloned"
  /\ \/ /\ ~ opts[p].time
        /\ CloneReturns(p)
        /\ UNCHANGED << label, myport >>
     \/ /\ opts[p].time /\ ret[p] = 0
        /\ ReportAs(p, "parent", myparentid(p))
        /\ UNCHANGED << sockets, iter, myport >>
     \/ /\ opts[p].time /\ ret[p] = 1
        /\ myport' = [myport EXCEPT ![p] = Below(@, domid[p] - myparentid(p))]
        /\ ChildRebinds(p)
  /\ UNCHANGED << queue, ret, family, network, history, strayFd >>

\* A child's own socket, in both prologues.
Rebind(p) ==
  /\ pc[p] = "rebind"
  /\ \/ /\ SocketInit(p, myport[p])
        /\ ReportAs(p, "child", ChildIndex(p))
     \/ /\ SocketInitFails(myport[p])
        /\ Exit(p)
        /\ UNCHANGED << queue, label >>
  /\ UNCHANGED << myport, iter, ret, family, network, history, strayFd >>

-----------------------------------------------------------------------------
(* The collector and the network.                                          *)

members == << pc, sockets, locals, isChild, family, history, strayFd >>

Collect(m) ==
  /\ m \in outbound
  /\ outbound' = outbound \ {m}
  /\ received' = received \cup {m.rep}
  /\ \E len \in IF "empty" \in faults THEN {0, 1} ELSE {1} :
       inbound' = inbound \cup {[rep |-> m.rep, port |-> m.port, len |-> len]}
  /\ UNCHANGED << members, queue >>

\* To a socket bound to the port, if there is one.  A repeated answer is still
\* in flight; a repeated report would only be answered again, which is the same.
AnswerArrives(m) ==
  /\ m \in inbound
  /\ \/ inbound' = inbound \ {m}
     \/ "dup" \in faults /\ UNCHANGED inbound
  /\ LET there == {d \in Procs : Open(d) /\ port[d] = m.port}
     IN  \/ \E d \in there :
              queue' = [queue EXCEPT ![d] = @ \cup {[rep |-> m.rep, len |-> m.len]}]
         \/ there = {} /\ UNCHANGED queue
  /\ UNCHANGED << members, outbound, received >>

Lose ==
  /\ "loss" \in faults
  /\ \/ \E m \in outbound : outbound' = outbound \ {m} /\ UNCHANGED inbound
     \/ \E m \in inbound  : inbound'  = inbound \ {m}  /\ UNCHANGED outbound
  /\ UNCHANGED << members, queue, received >>

-----------------------------------------------------------------------------
Act(p) ==
  \/ Start(p) \/ Branch(p) \/ FinishAlone(p)
  \/ SendReport(p) \/ SendFails(p) \/ ReceiveAnswer(p) \/ Timeout(p)
  \/ Fork(p) \/ ForkFails(p) \/ Forked(p)
  \/ Clone(p) \/ CloneFails(p) \/ Cloned(p)
  \/ Rebind(p) \/ ClockFails(p)

Step(p) == Act(p) /\ UNCHANGED faults

Environment ==
  /\ \/ \E m \in outbound : Collect(m)
     \/ \E m \in inbound : AnswerArrives(m)
     \/ Lose
  /\ UNCHANGED faults

Next == (\E p \in Procs : Step(p)) \/ Environment

Spec == Init /\ [][Next]_vars

\* The scheduler runs every member; the receive timeout of send_time() keeps a
\* waiting member runnable whatever the network does.
Fairness == \A p \in Procs : WF_vars(Step(p))

FairSpec == Spec /\ Fairness

-----------------------------------------------------------------------------
(* What the prologue guarantees.                                           *)

StateTypes ==
  /\ pc \in [Procs -> PCs]
  /\ opts \in [Procs -> Lines]
  /\ su \in [Procs -> Procs \cup {NONE}]
  /\ port \in [Procs -> Ports]
  /\ queue \in [Procs -> SUBSET Answers]
  /\ myport \in [Procs -> Ports]
  /\ iter \in [Procs -> 0 .. ChildrenNum]
  /\ ret \in [Procs -> {-1, 0, 1}]
  /\ isChild \in [Procs -> BOOLEAN]
  /\ label \in [Procs -> Labels]
  /\ domid \in [Procs -> DomIds \cup {0}]
  /\ forkedBy \in [Procs -> Procs \cup {NONE}]
  /\ outbound \subseteq Outbound
  /\ inbound \subseteq Inbound
  /\ received \subseteq Reports
  /\ acked \subseteq Reports
  /\ gaveUp \subseteq Reports
  /\ consumed \subseteq Procs \X Reports
  /\ strayFd \subseteq Procs

TypeOK == StateTypes /\ faults \subseteq FaultKinds

Reporting == {p \in Procs : pc[p] \in {"send", "wait"}}

\* Two members that report at the same time own different sockets on different
\* ports: fork_prologue() and clone_prologue() count myport down for that, and
\* mysocket_init() would let two members share a port (SO_REUSEADDR).
ReportersHaveDistinctPorts ==
  \A p, q \in Reporting :
    p # q => su[p] # su[q] /\ port[su[p]] # port[su[q]]

\* No member takes the answer to another member's report, whatever the network
\* repeats, delays or reorders: udp_client_recv() takes any answer, so the port
\* and the socket closed after fork() are all there is to keep them apart.
AckGoesHome == \A c \in consumed : c[2].from = c[1]

\* send_time() returns 0 to a child, and to Root's first call, only when the
\* collector has the report, whatever the network does: these are the reports
\* no earlier answer can be waiting for.
FirstAckIsTrue == \A r \in acked : r.role # "parent" => r \in received

\* send_time() returns 0 to a member only when the collector has its report,
\* whatever the network does.
AckedMeansReceived == acked \subseteq received

\* When answers are neither late nor repeated, every 0 of send_time() is true,
\* also when datagrams are lost and when reports are repeated because of empty
\* answers: a timeout leaves nothing behind for the next report to take.
TimelyAcksAreTrue == faults \cap {"delay", "dup", "call"} = {} => AckedMeansReceived

\* The index in a child's report names the port the child reports from.
IndexNamesPort ==
  \A m \in outbound :
    m.rep.role = "child" =>
      m.port = Below(PORT_PARENT, IF opts[m.rep.from].fork THEN m.rep.index + 1
                                  ELSE m.rep.index)

\* server_prologue() tells a child that it is one, and nobody else.
ChildKnowsItself ==
  \A p \in Procs :
    pc[p] = "ready" => isChild[p] = (forkedBy[p] # NONE)

\* server_prologue() returns 0 to the parent only when it has all its children.
SuccessMeansFullFamily ==
  pc[Root] = "ready" /\ (opts[Root].fork \/ opts[Root].clone) =>
    Cardinality({p \in Procs : forkedBy[p] = Root}) = ChildrenNum

\* When nothing goes wrong around the family, nothing goes wrong in it.  Empty
\* answers do no harm.
NobodyFails ==
  faults \subseteq {"empty"} => gaveUp = {} /\ \A p \in Procs : pc[p] # "failed"

\* Every member of the family gets out of the prologue: no wait in it is
\* without a timeout, and no member waits for another.
EveryoneSettles == \A p \in Procs : pc[p] # "absent" ~> pc[p] \in Settled

-----------------------------------------------------------------------------
(* The prologue implements CloneFamily.                                    *)

Status(p) == IF pc[p] \in Settled \cup {"absent"} THEN pc[p] ELSE "working"

Family == INSTANCE CloneFamily WITH
  status <- [p \in Procs |-> Status(p)],
  told   <- {p \in Procs : isChild[p]},
  wanted <- IF opts[Root].fork \/ opts[Root].clone THEN ChildrenNum ELSE 0

\* The family grows from Root alone and to the size asked for, everyone leaves
\* the prologue and learns its part: no child goes on with its parent's loop.
ImplementsFamily == Family!Spec

=============================================================================

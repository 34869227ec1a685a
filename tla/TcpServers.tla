----------------------------- MODULE TcpServers -----------------------------
(***************************************************************************)
(* The TCP applications on Linux, once their prologue is over: the         *)
(* tcp_server_*() functions of common/net.c and the accept loops of        *)
(* counter, server-tcp, measure-fork, memory-overhead, children and files. *)
(*                                                                         *)
(* Each application serves one connection at a time.  With -f the members  *)
(* of a family race for the port; measure-fork and memory-overhead fork    *)
(* while they serve, and the child holds copies of the descriptors of its  *)
(* parent until it exits.  Clients connect, send, close and reset whenever *)
(* they like.                                                              *)
(***************************************************************************)
EXTENDS Sequences

CONSTANTS
  Apps,      \* the applications considered
  Procs,     \* the slots of the process table
  Root,      \* the process the operator starts
  Kin,       \* the members fork_prologue() may have given Root
  Conns,     \* the connections clients have at the same time
  NONE,      \* no connection
  MayFail    \* system calls, allocations and file operations may fail

AllApps == {"counter", "server_tcp", "measure_fork", "memory_overhead",
            "children", "files"}

ASSUME ServersAssumption ==
  /\ Apps \subseteq AllApps
  /\ Root \in Procs
  /\ Kin \subseteq Procs \ {Root}
  /\ NONE \notin Conns
  /\ MayFail \in BOOLEAN

VARIABLES
  app,       \* the application of this run
  doFork,    \* do_fork
  pc,        \* where each process is
  holders,   \* the processes with a descriptor of the listening socket
  backlog,   \* the connections that wait to be accepted, oldest first
  fds,       \* the connections each process has a descriptor of
  conn,      \* msg.connection of each process
  unread,    \* of what each client sent and nobody read, the first message
  client     \* each client's end: "none", "open", "fin" or "rst"

config  == << app, doFork >>
peers   == << unread, client >>
process == << pc, holders, fds, conn >>

vars == << config, process, backlog, peers >>

\* "work" is what the application is for: a counter, "fork", "overhead", a
\* request to clone, "write-...".  "part" is a message cut short by TCP.
Kinds    == {"work", "stop", "other"}
Messages == Kinds \cup {"part"}
Nothing  == "nothing"

PCs == {"absent", "start", "bound", "accept", "recv", "reply", "child", "sleep",
        "ended"}

Serving == {p \in Procs : pc[p] \in {"accept", "recv", "reply"}}
Goto(p, l) == pc' = [pc EXCEPT ![p] = l]

\* A connection that no process has, or will have, a descriptor of.
Waiting(c) == \E i \in DOMAIN backlog : backlog[i] = c
Over(c) == client[c] # "none" /\ ~ Waiting(c) /\ \A p \in Procs : c \notin fds[p]

-----------------------------------------------------------------------------
(* Steps the applications share.                                           *)

\* The process ends, after net_msg_cleanup() and tcp_server_stop() or without
\* them: the kernel closes what it had open.  The last descriptor of the
\* listening socket takes the connections that wait with it.
Exit(p) ==
  /\ Goto(p, "ended")
  /\ holders' = holders \ {p}
  /\ fds' = [fds EXCEPT ![p] = {}]
  /\ conn' = [conn EXCEPT ![p] = NONE]
  /\ backlog' = IF holders \subseteq {p} THEN << >> ELSE backlog

\* Mutant: the loop goes on without net_msg_cleanup().
NextClientLeaky(p) ==
  /\ Goto(p, "accept")
  /\ conn' = [conn EXCEPT ![p] = NONE]
  /\ UNCHANGED << holders, fds, backlog >>

\* net_msg_cleanup(), and back to tcp_server_accept().
NextClient(p) ==
  /\ Goto(p, "accept")
  /\ fds' = [fds EXCEPT ![p] = @ \ {conn[p]}]
  /\ conn' = [conn EXCEPT ![p] = NONE]
  /\ UNCHANGED << holders, backlog >>

-----------------------------------------------------------------------------
Init ==
  /\ app \in Apps /\ doFork \in BOOLEAN
  /\ pc = [p \in Procs |->
             IF app # "memory_overhead" /\ doFork
               THEN IF p = Root /\ app = "files" THEN "sleep"
                    ELSE IF p \in Kin \cup {Root} THEN "start" ELSE "absent"
               ELSE IF p = Root THEN "start" ELSE "absent"]
  /\ holders = {} /\ backlog = << >>
  /\ fds = [p \in Procs |-> {}]
  /\ conn = [p \in Procs |-> NONE]
  /\ unread = [c \in Conns |-> Nothing]
  /\ client = [c \in Conns |-> "none"]

-----------------------------------------------------------------------------
(* tcp_server_start(), and what the applications do before it.             *)

\* SO_REUSEADDR lets several sockets bind to the port as long as none listens.
Bind(p) ==
  /\ pc[p] = "start"
  /\ holders = {}
  /\ Goto(p, "bound")
  /\ UNCHANGED << config, holders, fds, conn, backlog, peers >>

\* mysocket_init() failed.
BindFails(p) ==
  /\ pc[p] = "start"
  /\ holders # {}
  /\ Exit(p)
  /\ UNCHANGED << config, peers >>

Listen(p) ==
  /\ pc[p] = "bound"
  /\ holders = {}
  /\ holders' = {p}
  /\ Goto(p, "accept")
  /\ UNCHANGED << config, fds, conn, backlog, peers >>

ListenFails(p) ==
  /\ pc[p] = "bound"
  /\ holders # {}
  /\ Exit(p)
  /\ UNCHANGED << config, peers >>

-----------------------------------------------------------------------------
(* tcp_server_accept().                                                    *)

Accept(p) ==
  /\ pc[p] = "accept"
  /\ backlog # << >> /\ client[Head(backlog)] # "rst"
  /\ conn' = [conn EXCEPT ![p] = Head(backlog)]
  /\ fds' = [fds EXCEPT ![p] = @ \cup {Head(backlog)}]
  /\ backlog' = Tail(backlog)
  /\ Goto(p, "recv")
  /\ UNCHANGED << config, holders, peers >>

\* getpeername() fails on a connection that its client has reset: every
\* application stops serving.
AcceptFails(p) ==
  /\ pc[p] = "accept"
  /\ backlog # << >> /\ client[Head(backlog)] = "rst"
  /\ Exit(p)
  /\ UNCHANGED << config, peers >>

-----------------------------------------------------------------------------
(* tcp_server_recv_msg() and the body of each loop.                        *)

\* fork() of a process that serves: the child has copies of its descriptors.
Fork(p, q) ==
  /\ pc[q] = "absent"
  /\ pc' = [pc EXCEPT ![p] = "accept", ![q] = "child"]
  /\ holders' = holders \cup {q}
  /\ fds' = [fds EXCEPT ![p] = @ \ {conn[p]}, ![q] = fds[p]]
  /\ conn' = [conn EXCEPT ![p] = NONE, ![q] = conn[p]]
  /\ UNCHANGED backlog

\* Ended children are never waited for: their slots stay taken.
ForkFails == MayFail \/ \A q \in Procs : pc[q] # "absent"

\* What strncmp() finds in netbuf when the client sent nothing or not enough
\* of it: what the heap holds.
Found(kind) == IF kind \in {"eof", "part"} THEN Kinds ELSE {kind}

\* counter answers every message.
Count(p, kind) ==
  \/ kind = "eof" /\ NextClient(p)
  \/ kind # "eof" /\ Goto(p, "reply") /\ UNCHANGED << holders, fds, conn, backlog >>

\* Mutant: no `break` at the end of the stream.
SinkEndless(p, kind) == UNCHANGED << process, backlog >>

\* server-tcp reads until the end of the stream.
Sink(p, kind) ==
  \/ kind = "eof" /\ NextClient(p)
  \/ kind # "eof" /\ UNCHANGED << process, backlog >>

\* children clones at every message; os_clone() of Linux is a stub: -1.
CloneRequest(p, kind) ==
  \/ kind = "eof" /\ NextClient(p)
  \/ kind # "eof" /\ Exit(p)

\* measure-fork forks at a "fork"; the end of the stream is a message to it.
MeasureFork(p, kind) ==
  \/ "work" \in Found(kind) /\ \E q \in Procs : Fork(p, q)
  \/ "work" \in Found(kind) /\ ForkFails /\ Exit(p)
  \/ "stop" \in Found(kind) /\ Exit(p)
  \/ "other" \in Found(kind) /\ NextClient(p)

\* memory-overhead touches its pages at an "overhead", in a child with -f.
MemoryOverhead(p, kind) ==
  \/ "work" \in Found(kind) /\ doFork /\ \E q \in Procs : Fork(p, q)
  \/ "work" \in Found(kind) /\ doFork /\ ForkFails /\ Exit(p)
  \/ "work" \in Found(kind) /\ ~ doFork /\ NextClient(p)
  \/ "work" \in Found(kind) /\ ~ doFork /\ MayFail /\ Exit(p)
  \/ "stop" \in Found(kind) /\ Exit(p)
  \/ "other" \in Found(kind) /\ NextClient(p)

\* files writes a file at a "write-..."; an invalid write type does not end the
\* loop, a file that could not be written does.
WriteFile(p, kind) ==
  \/ "work" \in Found(kind) /\ NextClient(p)
  \/ "work" \in Found(kind) /\ MayFail /\ Exit(p)
  \/ "stop" \in Found(kind) /\ Exit(p)
  \/ "other" \in Found(kind) /\ NextClient(p)

Handle(p, kind) ==
  \/ app = "counter"         /\ Count(p, kind)
  \/ app = "server_tcp"      /\ Sink(p, kind)
  \/ app = "children"        /\ CloneRequest(p, kind)
  \/ app = "measure_fork"    /\ MeasureFork(p, kind)
  \/ app = "memory_overhead" /\ MemoryOverhead(p, kind)
  \/ app = "files"           /\ WriteFile(p, kind)

\* recv() returns all that has arrived, several messages perhaps, and the
\* application looks at the first bytes only.
Receive(p) ==
  /\ pc[p] = "recv"
  /\ LET c == conn[p] IN
       /\ client[c] # "rst"
       /\ unread[c] # Nothing
       /\ unread' = [unread EXCEPT ![c] = Nothing]
       /\ Handle(p, unread[c])
  /\ UNCHANGED << config, client >>

EndOfStream(p) ==
  /\ pc[p] = "recv"
  /\ client[conn[p]] = "fin" /\ unread[conn[p]] = Nothing
  /\ Handle(p, "eof")
  /\ UNCHANGED << config, peers >>

\* recv() on a connection that its client has reset: rc < 0 ends every
\* application.
ReceiveFails(p) ==
  /\ pc[p] = "recv"
  /\ client[conn[p]] = "rst"
  /\ Exit(p)
  /\ UNCHANGED << config, peers >>

\* tcp_server_send_msg() of counter.
Reply(p) ==
  /\ pc[p] = "reply"
  /\ client[conn[p]] # "rst"
  /\ NextClient(p)
  /\ UNCHANGED << config, peers >>

ReplyFails(p) ==
  /\ pc[p] = "reply"
  /\ client[conn[p]] = "rst"
  /\ Exit(p)
  /\ UNCHANGED << config, peers >>

\* Mutant: no os_exit() in the child, which falls through to the loop's end.
ChildGoesOn(p) ==
  /\ pc[p] = "child"
  /\ NextClient(p)
  /\ UNCHANGED << config, peers >>

\* os_exit() in the child of measure-fork or memory-overhead.
ChildExits(p) ==
  /\ pc[p] = "child"
  /\ Exit(p)
  /\ UNCHANGED << config, peers >>

\* Any other call failed: the allocation and the first touch of the pages,
\* socket(), setsockopt(), bind(), listen(), accept(), malloc(), recv(), send().
CallFails(p) ==
  /\ MayFail
  /\ pc[p] \in {"start", "bound", "accept", "recv", "reply"}
  /\ Exit(p)
  /\ UNCHANGED << config, peers >>

-----------------------------------------------------------------------------
(* The clients.                                                            *)

Connect(c) ==
  /\ client[c] = "none"
  /\ holders # {}
  /\ client' = [client EXCEPT ![c] = "open"]
  /\ backlog' = Append(backlog, c)
  /\ UNCHANGED << config, process, unread >>

\* What a client sends behind a message that nobody read yet changes nothing.
Send(c) ==
  /\ client[c] = "open" /\ ~ Over(c)
  /\ unread[c] = Nothing
  /\ \E m \in Messages : unread' = [unread EXCEPT ![c] = m]
  /\ UNCHANGED << config, process, backlog, client >>

Hangup(c) ==
  /\ client[c] = "open"
  /\ \E e \in {"fin", "rst"} : client' = [client EXCEPT ![c] = e]
  /\ UNCHANGED << config, process, backlog, unread >>

\* A connection that is over makes room for another one.
Leave(c) ==
  /\ Over(c)
  /\ client' = [client EXCEPT ![c] = "none"]
  /\ unread' = [unread EXCEPT ![c] = Nothing]
  /\ UNCHANGED << config, process, backlog >>

-----------------------------------------------------------------------------
Step(p) ==
  \/ Bind(p) \/ BindFails(p) \/ Listen(p) \/ ListenFails(p)
  \/ Accept(p) \/ AcceptFails(p)
  \/ Receive(p) \/ EndOfStream(p) \/ ReceiveFails(p)
  \/ Reply(p) \/ ReplyFails(p) \/ ChildExits(p)

Next ==
  \/ \E p \in Procs : Step(p) \/ CallFails(p)
  \/ \E c \in Conns : Connect(c) \/ Send(c) \/ Hangup(c) \/ Leave(c)

Spec == Init /\ [][Next]_vars

\* The scheduler runs every process, and no call has to fail.  Clients do not
\* stay connected and silent for ever: no application has a timeout of its own.
Fairness ==
  /\ \A p \in Procs : WF_vars(Step(p))
  /\ \A c \in Conns : WF_vars(Hangup(c))

FairSpec == Spec /\ Fairness

-----------------------------------------------------------------------------
(* What the applications guarantee.                                        *)

TypeOK ==
  /\ app \in Apps /\ doFork \in BOOLEAN
  /\ pc \in [Procs -> PCs]
  /\ holders \subseteq Procs
  /\ backlog \in Seq(Conns)
  /\ fds \in [Procs -> SUBSET Conns]
  /\ conn \in [Procs -> Conns \cup {NONE}]
  /\ unread \in [Conns -> Messages \cup {Nothing}]
  /\ client \in [Conns -> {"none", "open", "fin", "rst"}]

\* A process has a descriptor of the connection it serves and of no other, and
\* of the listening socket only while it serves or is the child of one that
\* did, whatever the path its loop took and whoever forked in the middle of it:
\* a descriptor left behind would keep a client from ever seeing the end, or
\* the next server from the port.
NoDescriptorLeaks ==
  /\ \A p \in Procs : fds[p] = IF conn[p] = NONE THEN {} ELSE {conn[p]}
  /\ holders = {p \in Procs : pc[p] \in {"accept", "recv", "reply", "child"}}

\* Every connection is over some day, also with a server that ended, a child
\* that holds a copy of it and clients that reset.
EveryConnectionEnds == \A c \in Conns : client[c] # "none" ~> Over(c)

-----------------------------------------------------------------------------
(* The applications implement SerialService.                               *)

Service == INSTANCE SerialService WITH
  up      <- Serving # {},
  queue   <- backlog,
  serving <- IF \E p \in Serving : conn[p] # NONE
               THEN conn[CHOOSE p \in Serving : conn[p] # NONE] ELSE NONE

\* One connection at a time, in the order of arrival and each only once,
\* although a family races for the port and forked children hold the listening
\* socket: no child accepts.
ImplementsSerialService == Service!Spec

=============================================================================

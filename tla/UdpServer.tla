------------------------------ MODULE UdpServer ------------------------------
(***************************************************************************)
(* server-udp.c on a Mini-OS guest: the thread that runs the application,  *)
(* without -f and -x, and the thread in which the kernel calls             *)
(* app_resume() of server-common.c when the guest comes back from a        *)
(* suspension.  They share the sockets of lwip, which os/minios/net.h takes *)
(* for socket(), close() and recvfrom(), so the model is one of numbers:   *)
(* what each thread believes to be open under a number, and what is.       *)
(***************************************************************************)
EXTENDS Integers, Sequences, FiniteSets

CONSTANTS
  Clients,       \* [addr, port] of those who send to the server
  Collector,     \* who answers send_time()
  Fds,           \* the numbers of lwip's sockets, 0 .. n; nothing else has one
  MaxDatagrams,  \* bounds: the datagrams the clients send,
  MaxResumes,    \*   and the suspensions
  MayFail        \* socket(), bind(), malloc(), recvfrom() may fail

ASSUME UdpAssumption ==
  /\ \A c \in Clients \cup {Collector} : c.port \in Nat \ {0}
  /\ Fds \subseteq Nat /\ Fds = 0 .. Cardinality(Fds) - 1
  /\ MaxDatagrams \in Nat /\ MaxResumes \in Nat /\ MayFail \in BOOLEAN

VARIABLES
  do_send_time,
  table,       \* whose socket is open under each number
  apc,         \* where the application's thread is
  su,          \* server_prologue(): su.s
  listener,    \* thread_func_server_udp(): listener.s
  connection,  \*   msg.connection, msg.netbuf and msg.client_addr
  netbuf,
  client_addr,
  prev,        \*   prev_client_addr and prev_client_port
  rpc,         \* where the thread of app_resume() is
  rsu,         \* app_resume(): su.s
  queue,       \* the datagrams that wait in the server's socket
  sent, resumes,
  before,      \* the sender of the datagram before the current one
  announced,   \* the current one's was said to be a new client
  heap         \* the buffers allocated

message == << connection, netbuf, client_addr >>
app     == << do_send_time, su, listener, message, prev, before, announced, heap >>
resume  == << rsu, resumes >>
clients == << queue, sent >>

vars == << table, apc, app, rpc, resume, clients >>

APCs == {"prologue", "report", "fini", "start", "top", "recv", "check", "cleanup", "out"}
RPCs == {"suspended", "init", "report", "fini"}

Owners == {"free", "app", "resume"}

Nobody == [addr |-> "none", port |-> 0]

Init ==
  /\ do_send_time \in BOOLEAN
  /\ table = [f \in Fds |-> "free"]
  /\ apc = "prologue" /\ su \in IF do_send_time THEN {-1} ELSE {-1} \cup Fds
  /\ listener = -1 /\ connection = -1 /\ netbuf = "NULL"
  /\ client_addr = Nobody /\ prev = Nobody
  /\ rpc = "suspended" /\ rsu = -1
  /\ queue = << >> /\ sent = 0 /\ resumes = 0
  /\ before = Nobody /\ announced = FALSE /\ heap = 0

App(l)    == apc' = l
Resume(l) == rpc' = l

-----------------------------------------------------------------------------
(* Sockets: lwip_socket(), lwip_close(), mysocket_init(), mysocket_fini(). *)

Free == {f \in Fds : table[f] = "free"}

\* lwip_socket() returns the lowest number that is free, 0 the first time.
NewFd(f) == f \in Free /\ \A g \in Free : f =< g

\* mysocket_init() has returned 0.
SocketInit(f, owner) == NewFd(f) /\ table' = [table EXCEPT ![f] = owner]

\* It failed: a socket that could not be bound is closed again.
SocketInitFails == (MayFail \/ Free = {}) /\ UNCHANGED table

\* lwip_close() of a number, if it is one, whoever has it open.
Closed(f) == IF f \in Fds THEN [table EXCEPT ![f] = "free"] ELSE table

-----------------------------------------------------------------------------
(* The application: server_prologue() and thread_func_server_udp().        *)

PrologueInit ==
  /\ apc = "prologue"
  /\ \/ /\ ~ do_send_time
        /\ App("fini") /\ UNCHANGED << table, su >>
     \/ /\ do_send_time
        /\ \E f \in Fds : SocketInit(f, "app") /\ su' = f
        /\ App("report")
     \/ /\ do_send_time
        /\ SocketInitFails
        /\ App("out") /\ UNCHANGED su
  /\ UNCHANGED << do_send_time, listener, message, prev, before, announced, heap,
                  rpc, resume, clients >>

\* send_time(), as Prologue has it: 0 or an error, which leaves su open.
PrologueReport ==
  /\ apc = "report"
  /\ App("fini") \/ App("out")
  /\ UNCHANGED << table, app, rpc, resume, clients >>

\* Without -t what is closed is what the stack held.
PrologueFini ==
  /\ apc = "fini"
  /\ table' = Closed(su)
  /\ App("start")
  /\ UNCHANGED << app, rpc, resume, clients >>

\* udp_server_start().
StartServer ==
  /\ apc = "start"
  /\ \/ /\ \E f \in Fds : SocketInit(f, "app") /\ listener' = f
        /\ App("top")
     \/ SocketInitFails /\ App("out") /\ UNCHANGED listener
  /\ UNCHANGED << do_send_time, su, message, prev, before, announced, heap,
                  rpc, resume, clients >>

\* Mutant: memset() alone, and the 0 is as a rule the server's own socket.
NewMessageZero ==
  /\ apc = "top"
  /\ connection' = 0 /\ netbuf' = "NULL"
  /\ client_addr' = Nobody
  /\ App("recv")
  /\ UNCHANGED << table, do_send_time, su, listener, prev, before, announced, heap,
                  rpc, resume, clients >>

\* memset(), and no connection: 0 would be the number of a socket.
NewMessage ==
  /\ apc = "top"
  /\ connection' = -1 /\ netbuf' = "NULL"
  /\ client_addr' = Nobody
  /\ App("recv")
  /\ UNCHANGED << table, do_send_time, su, listener, prev, before, announced, heap,
                  rpc, resume, clients >>

\* Mutant: after a failed malloc() the loop goes on.
InitBufferRetried ==
  /\ apc = "recv" /\ netbuf = "NULL"
  /\ \/ netbuf' = "allocated" /\ heap' = heap + 1 /\ UNCHANGED apc
     \/ MayFail /\ App("top") /\ UNCHANGED << netbuf, heap >>
  /\ UNCHANGED << table, do_send_time, su, listener, connection, client_addr, prev,
                  before, announced, rpc, resume, clients >>

\* net_msg_init_buffer().
InitBuffer ==
  /\ apc = "recv" /\ netbuf = "NULL"
  /\ \/ netbuf' = "allocated" /\ heap' = heap + 1 /\ UNCHANGED apc
     \/ MayFail /\ App("out") /\ UNCHANGED << netbuf, heap >>
  /\ UNCHANGED << table, do_send_time, su, listener, connection, client_addr, prev,
                  before, announced, rpc, resume, clients >>

\* Where recvfrom() on a number reads from: the server's socket, or that of
\* app_resume(), which only the collector sends to.
Incoming(f) ==
  IF f \notin Fds THEN {}
  ELSE IF table[f] = "app" THEN IF queue = << >> THEN {} ELSE {Head(queue)}
  ELSE IF table[f] = "resume" THEN {Collector} ELSE {}

\* A datagram that was read is gone.
Taken(f) == queue' = IF table[f] = "app" THEN Tail(queue) ELSE queue

\* udp_server_recv_msg(): the datagram, however long it is.
Receive ==
  /\ apc = "recv" /\ netbuf # "NULL"
  /\ \E c \in Incoming(listener) :
       client_addr' = c
  /\ Taken(listener)
  /\ App("check")
  /\ UNCHANGED << table, do_send_time, su, listener, connection, netbuf, prev,
                  before, announced, heap, rpc, resume, sent >>

\* An error, also because the descriptor is not a socket any more; what was
\* allocated stays.
ReceiveFails ==
  /\ apc = "recv" /\ netbuf # "NULL"
  /\ MayFail \/ table[listener] # "app"
  /\ App("out")
  /\ UNCHANGED << table, app, rpc, resume, clients >>

\* Mutant: the ports alone are compared.
NewClientPort == client_addr.port # prev.port

\* prev_client_addr is not initialised, but its port is 0, which no client has.
NewClient == client_addr.port # prev.port \/ client_addr # prev

CheckClient ==
  /\ apc = "check"
  /\ announced' = NewClient
  /\ prev' = IF NewClient THEN client_addr ELSE prev
  /\ App("cleanup")
  /\ UNCHANGED << table, do_send_time, su, listener, message, before, heap,
                  rpc, resume, clients >>

\* Mutant: the buffer is kept.
FreedNot == heap

\* free(m->netbuf).
Freed == IF netbuf # "NULL" THEN heap - 1 ELSE heap

\* net_msg_cleanup().
Cleanup ==
  /\ apc = "cleanup"
  /\ heap' = Freed
  /\ table' = Closed(connection)
  /\ connection' = -1
  /\ before' = client_addr
  /\ App("top")
  /\ UNCHANGED << do_send_time, su, listener, netbuf, client_addr, prev, announced,
                  rpc, resume, clients >>

-----------------------------------------------------------------------------
(* app_resume().                                                           *)

ResumeInit ==
  /\ rpc = "init"
  /\ \/ /\ \E f \in Fds : SocketInit(f, "resume") /\ rsu' = f
        /\ Resume("report")
     \/ SocketInitFails /\ Resume("suspended") /\ UNCHANGED rsu
  /\ UNCHANGED << apc, app, resumes, clients >>

\* send_time(): an answer, from whatever is open under the number, or an error.
\* Either way the socket is closed.
ResumeReport ==
  /\ rpc = "report"
  /\ \/ UNCHANGED queue
     \/ Incoming(rsu) # {} /\ Taken(rsu)
  /\ Resume("fini")
  /\ UNCHANGED << table, apc, app, resume, sent >>

ResumeFini ==
  /\ rpc = "fini"
  /\ table' = Closed(rsu)
  /\ Resume("suspended")
  /\ UNCHANGED << apc, app, resume, clients >>

-----------------------------------------------------------------------------
(* The hypervisor and the clients.                                         *)

Resumed ==
  /\ rpc = "suspended" /\ resumes < MaxResumes
  /\ resumes' = resumes + 1
  /\ Resume("init")
  /\ UNCHANGED << table, apc, app, rsu, clients >>

\* A datagram reaches the server's socket, if there is one.
ClientSends(c) ==
  /\ sent < MaxDatagrams /\ listener \in Fds /\ table[listener] = "app"
  /\ sent' = sent + 1
  /\ queue' = Append(queue, c)
  /\ UNCHANGED << table, apc, app, rpc, resume >>

-----------------------------------------------------------------------------
AppThread ==
  \/ PrologueInit \/ PrologueReport \/ PrologueFini \/ StartServer
  \/ NewMessage \/ InitBuffer \/ Receive \/ ReceiveFails \/ CheckClient \/ Cleanup

ResumeThread == ResumeInit \/ ResumeReport \/ ResumeFini

Next == AppThread \/ ResumeThread \/ Resumed \/ \E c \in Clients : ClientSends(c)

Spec == Init /\ [][Next]_vars

\* Both threads run.
FairSpec == Spec /\ WF_vars(AppThread) /\ WF_vars(ResumeThread)

-----------------------------------------------------------------------------
TypeOK ==
  /\ do_send_time \in BOOLEAN
  /\ table \in [Fds -> Owners]
  /\ apc \in APCs /\ rpc \in RPCs
  /\ {su, listener, connection, rsu} \subseteq Fds \cup {-1}
  /\ netbuf \in {"NULL", "allocated"} /\ heap \in Nat
  /\ queue \in Seq(Clients)
  /\ {client_addr, prev, before} \subseteq Clients \cup {Collector, Nobody}
  /\ sent \in 0 .. MaxDatagrams /\ resumes \in 0 .. MaxResumes
  /\ announced \in BOOLEAN

\* The descriptor the application's thread has open, -1 for none: su until
\* it is closed, the listener from then on.
AppHas ==
  IF apc \in {"report", "fini"} THEN su
  ELSE IF apc \in {"top", "recv", "check", "cleanup"} THEN listener ELSE -1

ResumeHas == IF rpc \in {"report", "fini"} THEN rsu ELSE -1

\* With -t no thread ever closes what it still uses or the other does, or leaves
\* open what it is done with: under each number is the socket of the thread that
\* uses it, although each is given the numbers that the other gave back.
DescriptorsKeepTheirOwners ==
  do_send_time /\ apc # "out" =>
    \A f \in Fds :
      /\ table[f] = "app"     <=> f = AppHas
      /\ table[f] = "resume"  <=> f = ResumeHas

\* A server that waits for the next datagram has the buffer for it at most.
NoBufferLeaks == apc = "top" => heap = 0

\* A datagram is announced as a new client's exactly when its sender is not that
\* of the datagram before it, though the first is compared with nothing.
ChangesAnnounced ==
  apc = "cleanup" => announced = (client_addr # before)

\* Every datagram that reached the socket is read, or the server ends.
DatagramsRead == \A n \in 1 .. MaxDatagrams :
  Len(queue) >= n ~> Len(queue) < n \/ apc = "out"

=============================================================================

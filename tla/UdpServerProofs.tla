--------------------------- MODULE UdpServerProofs ---------------------------
(***************************************************************************)
(* The two threads of server-udp.c on a guest keep to their own            *)
(* descriptors, buffers do not pile up, and new clients are announced: for *)
(* every set of clients, number of descriptors, and number of datagrams    *)
(* and suspensions.                                                        *)
(***************************************************************************)
EXTENDS UdpServer, TLAPS

InLoop == {"top", "recv", "check", "cleanup"}

\* A thread that uses a descriptor has one.
HaveNumbers ==
  /\ apc \in {"report", "fini"} /\ do_send_time => su \in Fds
  /\ apc \in InLoop => listener \in Fds
  /\ rpc \in {"report", "fini"} => rsu \in Fds
  /\ connection = -1

\* The one buffer there is belongs to the message in hand.
OneBuffer ==
  apc # "out" =>
    /\ heap = IF apc \in {"recv", "check", "cleanup"} /\ netbuf = "allocated" THEN 1 ELSE 0
    /\ apc \in {"check", "cleanup"} => netbuf = "allocated"

\* prev_client_* hold the sender of the datagram before the current one, until
\* they hold that of the current one.
PrevIsBefore ==
  /\ apc \notin {"cleanup", "out"} => prev = before
  /\ apc = "cleanup" => prev = client_addr /\ announced = (client_addr # before)

IInv == HaveNumbers /\ DescriptorsKeepTheirOwners /\ OneBuffer /\ PrevIsBefore

-----------------------------------------------------------------------------
\* The numbers of the descriptors, in the form the provers use.
LEMMA FdNumbers == Fds \subseteq Nat /\ -1 \notin Fds
BY UdpAssumption

\* Every variable starts in its type.
LEMMA InitTypes == Init => TypeOK
<1> SUFFICES ASSUME Init PROVE TypeOK
  OBVIOUS
<1>1. table \in [Fds -> Owners]
  BY DEF Init, Owners
<1>2. sent \in 0 .. MaxDatagrams /\ resumes \in 0 .. MaxResumes
  BY UdpAssumption DEF Init
<1>3. queue \in Seq(Clients)
  BY DEF Init
<1> QED
  BY <1>1, <1>2, <1>3 DEF Init, TypeOK, APCs, RPCs

\* What may be closed, and what that leaves.
LEMMA ClosedType == ASSUME TypeOK, NEW f PROVE Closed(f) \in [Fds -> Owners]
BY DEF TypeOK, Closed, Owners

\* A new socket is under a number that was free.
LEMMA SocketType ==
  ASSUME TypeOK, NEW f \in Fds, NEW o \in {"app", "resume"}, SocketInit(f, o)
  PROVE  table' \in [Fds -> Owners] /\ table[f] = "free"
BY DEF TypeOK, SocketInit, NewFd, Free, Owners

\* What is read comes from the queue, or from the collector.
LEMMA IncomingType ==
  ASSUME TypeOK, NEW f, NEW c \in Incoming(f)
  PROVE  /\ c \in Clients \cup {Collector}
         /\ f \in Fds /\ (IF table[f] = "app" THEN Tail(queue) ELSE queue) \in Seq(Clients)
BY DEF TypeOK, Incoming

\* The application's thread keeps the types.
LEMMA AppTypes == ASSUME TypeOK, IInv, AppThread PROVE TypeOK'
<1> USE DEF TypeOK, App, APCs, app, resume, clients, message
<1>1. CASE PrologueInit
  <2>1. CASE \E f \in Fds : SocketInit(f, "app") /\ su' = f
    <3>1. PICK f \in Fds : SocketInit(f, "app") /\ su' = f
      BY <2>1
    <3>2. table' \in [Fds -> Owners]
      BY <3>1, SocketType
    <3> QED
      BY <1>1, <3>1, <3>2 DEF PrologueInit
  <2>2. CASE UNCHANGED << table, su >>
    BY <1>1, <2>2 DEF PrologueInit
  <2> QED
    BY <1>1, <2>1, <2>2 DEF PrologueInit, SocketInitFails
<1>2. CASE PrologueReport
  BY <1>2 DEF PrologueReport
<1>3. CASE PrologueFini
  <2>1. table' \in [Fds -> Owners]
    BY <1>3, ClosedType DEF PrologueFini
  <2> QED
    BY <1>3, <2>1 DEF PrologueFini
<1>4. CASE StartServer
  <2>1. CASE \E f \in Fds : SocketInit(f, "app") /\ listener' = f
    <3>1. PICK f \in Fds : SocketInit(f, "app") /\ listener' = f
      BY <2>1
    <3>2. table' \in [Fds -> Owners]
      BY <3>1, SocketType
    <3> QED
      BY <1>4, <3>1, <3>2 DEF StartServer
  <2>2. CASE UNCHANGED << table, listener >>
    BY <1>4, <2>2 DEF StartServer
  <2> QED
    BY <1>4, <2>1, <2>2 DEF StartServer, SocketInitFails
<1>5. CASE NewMessage
  BY <1>5 DEF NewMessage
<1>6. CASE InitBuffer
  BY <1>6 DEF InitBuffer
<1>7. CASE Receive
  <2>1. PICK c \in Incoming(listener) : client_addr' = c
    BY <1>7 DEF Receive
  <2>2. client_addr' \in Clients \cup {Collector} /\ queue' \in Seq(Clients)
    BY <1>7, <2>1, IncomingType DEF Receive, Taken
  <2> QED
    BY <1>7, <2>2 DEF Receive
<1>8. CASE ReceiveFails
  BY <1>8 DEF ReceiveFails
<1>9. CASE CheckClient
  <2>1. NewClient \in BOOLEAN
    BY DEF NewClient
  <2> QED
    BY <1>9, <2>1 DEF CheckClient
<1>10. CASE Cleanup
  <2>1. table' \in [Fds -> Owners]
    BY <1>10, ClosedType DEF Cleanup
  <2>2. heap' \in Nat
    BY <1>10 DEF Cleanup, Freed, IInv, OneBuffer
  <2> QED
    BY <1>10, <2>1, <2>2 DEF Cleanup
<1> QED
  BY <1>1, <1>2, <1>3, <1>4, <1>5, <1>6, <1>7, <1>8, <1>9, <1>10 DEF AppThread

\* And so do the thread of app_resume(), the hypervisor and the clients.
LEMMA OtherTypes ==
  ASSUME TypeOK, ResumeThread \/ Resumed \/ \E c \in Clients : ClientSends(c)
  PROVE  TypeOK'
<1> USE DEF TypeOK, Resume, RPCs, app, resume, clients, message
<1>1. CASE ResumeInit
  <2>1. CASE \E f \in Fds : SocketInit(f, "resume") /\ rsu' = f
    <3>1. PICK f \in Fds : SocketInit(f, "resume") /\ rsu' = f
      BY <2>1
    <3>2. table' \in [Fds -> Owners]
      BY <3>1, SocketType
    <3> QED
      BY <1>1, <3>1, <3>2 DEF ResumeInit
  <2>2. CASE UNCHANGED << table, rsu >>
    BY <1>1, <2>2 DEF ResumeInit
  <2> QED
    BY <1>1, <2>1, <2>2 DEF ResumeInit, SocketInitFails
<1>2. CASE ResumeReport
  <2>1. queue' \in Seq(Clients)
    <3>1. CASE Incoming(rsu) # {} /\ Taken(rsu)
      BY <3>1, IncomingType DEF Taken
    <3> QED
      BY <1>2, <3>1 DEF ResumeReport
  <2> QED
    BY <1>2, <2>1 DEF ResumeReport
<1>3. CASE ResumeFini
  <2>1. table' \in [Fds -> Owners]
    BY <1>3, ClosedType DEF ResumeFini
  <2> QED
    BY <1>3, <2>1 DEF ResumeFini
<1>4. CASE Resumed
  <2>1. resumes' \in 0 .. MaxResumes
    BY <1>4, UdpAssumption DEF Resumed
  <2> QED
    BY <1>4, <2>1 DEF Resumed
<1>5. ASSUME NEW c \in Clients, ClientSends(c)
      PROVE  TypeOK'
  <2>1. sent' \in 0 .. MaxDatagrams
    BY <1>5, UdpAssumption DEF ClientSends
  <2>2. queue' \in Seq(Clients)
    BY <1>5 DEF ClientSends
  <2> QED
    BY <1>5, <2>1, <2>2 DEF ClientSends
<1> QED
  BY <1>1, <1>2, <1>3, <1>4, <1>5 DEF ResumeThread

-----------------------------------------------------------------------------
(* The invariant.                                                          *)

\* The threads begin without a descriptor, the message without a buffer.
LEMMA InitInv == Init => IInv
<1> SUFFICES ASSUME Init PROVE IInv
  OBVIOUS
<1>1. HaveNumbers
  BY DEF Init, HaveNumbers, InLoop
<1>2. DescriptorsKeepTheirOwners
  BY FdNumbers DEF Init, DescriptorsKeepTheirOwners, AppHas, ResumeHas
<1>3. OneBuffer /\ PrevIsBefore
  BY DEF Init, OneBuffer, PrevIsBefore
<1> QED
  BY <1>1, <1>2, <1>3 DEF IInv

Owned(t, a, r) ==
  \A f \in Fds :
    /\ t[f] = "app"     <=> f = a
    /\ t[f] = "resume"  <=> f = r

\* A socket that one thread opens is under a number that nobody uses.
LEMMA OpenKeepsOwners ==
  ASSUME TypeOK, NEW f \in Fds, NEW a, NEW r, Owned(table, a, r)
  PROVE  /\ SocketInit(f, "app") /\ a = -1 => Owned(table', f, r)
         /\ SocketInit(f, "resume") /\ r = -1 => Owned(table', a, f)
<1>1. ASSUME NEW o \in {"app", "resume"}, SocketInit(f, o)
      PROVE  table[f] = "free" /\ table' = [table EXCEPT ![f] = o]
  BY <1>1, SocketType DEF SocketInit
<1>2. ASSUME SocketInit(f, "app"), a = -1
      PROVE  Owned(table', f, r)
  BY <1>1, <1>2, FdNumbers DEF Owned, TypeOK
<1>3. ASSUME SocketInit(f, "resume"), r = -1
      PROVE  Owned(table', a, f)
  BY <1>1, <1>3, FdNumbers DEF Owned, TypeOK
<1> QED
  BY <1>2, <1>3

\* A thread that closes what it has open leaves the other's alone.
LEMMA CloseKeepsOwners ==
  ASSUME TypeOK, NEW a, NEW r, Owned(table, a, r)
  PROVE  /\ Closed(-1) = table
         /\ a \in Fds => Owned(Closed(a), -1, r)
         /\ r \in Fds => Owned(Closed(r), a, -1)
BY FdNumbers DEF Owned, Closed, TypeOK, Owners

\* The application's thread.
LEMMA AppInv == ASSUME TypeOK, IInv, AppThread PROVE IInv'
<1> USE DEF App, app, resume, clients, message
<1>1. UNCHANGED << rpc, rsu, do_send_time >>
  BY DEF AppThread, PrologueInit, PrologueReport, PrologueFini, StartServer, NewMessage,
     InitBuffer, Receive, ReceiveFails, CheckClient, Cleanup
<1>2. ResumeHas' = ResumeHas
  BY <1>1 DEF ResumeHas
<1>3. DescriptorsKeepTheirOwners <=>
        (do_send_time /\ apc # "out" => Owned(table, AppHas, ResumeHas))
  BY DEF DescriptorsKeepTheirOwners, Owned
<1>4. DescriptorsKeepTheirOwners' <=>
        (do_send_time /\ apc' # "out" => Owned(table', AppHas', ResumeHas))
  BY <1>1, <1>2 DEF DescriptorsKeepTheirOwners, Owned
<1>5. HaveNumbers'
  BY <1>1 DEF AppThread, PrologueInit, PrologueReport, PrologueFini, StartServer,
     NewMessage, InitBuffer, Receive, ReceiveFails, CheckClient, Cleanup, HaveNumbers,
     InLoop, IInv
<1>6. DescriptorsKeepTheirOwners'
  <2> SUFFICES ASSUME do_send_time, apc' # "out"
               PROVE  Owned(table', AppHas', ResumeHas)
    BY <1>4
  <2>1. apc # "out" /\ Owned(table, AppHas, ResumeHas)
    BY <1>3 DEF AppThread, PrologueInit, PrologueReport, PrologueFini, StartServer,
       NewMessage, InitBuffer, Receive, ReceiveFails, CheckClient, Cleanup, IInv
  <2>2. CASE PrologueInit
    <3>1. PICK f \in Fds : SocketInit(f, "app") /\ su' = f /\ apc' = "report"
      BY <2>2 DEF PrologueInit
    <3>2. AppHas = -1 /\ AppHas' = f
      BY <2>2, <3>1 DEF PrologueInit, AppHas
    <3> QED
      BY <2>1, <3>1, <3>2, OpenKeepsOwners
  <2>3. CASE StartServer
    <3>1. PICK f \in Fds : SocketInit(f, "app") /\ listener' = f /\ apc' = "top"
      BY <2>3 DEF StartServer
    <3>2. AppHas = -1 /\ AppHas' = f
      BY <2>3, <3>1 DEF StartServer, AppHas
    <3> QED
      BY <2>1, <3>1, <3>2, OpenKeepsOwners
  <2>4. CASE PrologueFini
    <3>1. table' = Closed(su) /\ AppHas = su /\ AppHas' = -1 /\ su \in Fds
      BY <2>4 DEF PrologueFini, AppHas, IInv, HaveNumbers
    <3> QED
      BY <2>1, <3>1, CloseKeepsOwners
  <2>5. CASE Cleanup
    <3>1. table' = Closed(-1) /\ AppHas' = AppHas
      BY <2>5 DEF Cleanup, AppHas, IInv, HaveNumbers
    <3> QED
      BY <2>1, <3>1, CloseKeepsOwners
  <2>6. CASE PrologueReport \/ NewMessage \/ InitBuffer \/ Receive \/ ReceiveFails
             \/ CheckClient
    <3>1. table' = table /\ AppHas' = AppHas
      BY <2>6 DEF PrologueReport, NewMessage, InitBuffer, Receive, ReceiveFails,
         CheckClient, AppHas
    <3> QED
      BY <2>1, <3>1
  <2> QED
    BY <2>2, <2>3, <2>4, <2>5, <2>6 DEF AppThread
<1>7. OneBuffer'
  BY DEF AppThread, PrologueInit, PrologueReport, PrologueFini, StartServer,
     NewMessage, InitBuffer, Receive, ReceiveFails, CheckClient, Cleanup, OneBuffer,
     IInv, Freed, TypeOK
<1>8. PrevIsBefore'
  <2>1. CASE CheckClient
    <3>1. NewClient = (client_addr # prev) /\ prev = before
      BY <2>1 DEF NewClient, CheckClient, IInv, PrevIsBefore
    <3>2. prev' = client_addr
      BY <2>1, <3>1 DEF CheckClient
    <3> QED
      BY <2>1, <3>1, <3>2 DEF CheckClient, PrevIsBefore
  <2>2. CASE Cleanup
    BY <2>2 DEF Cleanup, PrevIsBefore, IInv
  <2>3. CASE ~ CheckClient /\ ~ Cleanup
    BY <2>3 DEF AppThread, PrologueInit, PrologueReport, PrologueFini, StartServer,
       NewMessage, InitBuffer, Receive, ReceiveFails, PrevIsBefore, IInv
  <2> QED
    BY <2>1, <2>2, <2>3
<1> QED
  BY <1>5, <1>6, <1>7, <1>8 DEF IInv

\* The thread of app_resume(), the hypervisor and the clients.
LEMMA OtherInv ==
  ASSUME TypeOK, IInv, ResumeThread \/ Resumed \/ \E c \in Clients : ClientSends(c)
  PROVE  IInv'
<1> USE DEF Resume, app, resume, clients, message
<1>1. UNCHANGED << apc, app >>
  BY DEF ResumeThread, ResumeInit, ResumeReport, ResumeFini, Resumed, ClientSends
<1>2. AppHas' = AppHas /\ OneBuffer' /\ PrevIsBefore'
  BY <1>1 DEF AppHas, OneBuffer, PrevIsBefore, IInv
<1>3. HaveNumbers'
  BY <1>1 DEF ResumeThread, ResumeInit, ResumeReport, ResumeFini, Resumed, ClientSends,
     HaveNumbers, IInv
<1>4. DescriptorsKeepTheirOwners'
  <2>1. DescriptorsKeepTheirOwners' <=>
          (do_send_time /\ apc # "out" => Owned(table', AppHas, ResumeHas'))
    BY <1>1, <1>2 DEF DescriptorsKeepTheirOwners, Owned
  <2> SUFFICES ASSUME do_send_time, apc # "out"
               PROVE  Owned(table', AppHas, ResumeHas')
    BY <2>1
  <2>2. Owned(table, AppHas, ResumeHas)
    BY DEF IInv, DescriptorsKeepTheirOwners, Owned
  <2>3. CASE ResumeInit /\ \E f \in Fds : SocketInit(f, "resume") /\ rsu' = f
    <3>1. PICK f \in Fds : SocketInit(f, "resume") /\ rsu' = f
      BY <2>3
    <3>2. ResumeHas = -1 /\ (ResumeHas' = f \/ (ResumeHas' = -1 /\ UNCHANGED table))
      BY <2>3, <3>1 DEF ResumeInit, ResumeHas, SocketInitFails
    <3> QED
      BY <2>2, <3>1, <3>2, OpenKeepsOwners
  <2>4. CASE ResumeInit /\ UNCHANGED table /\ rpc' = "suspended"
    <3>1. ResumeHas = -1 /\ ResumeHas' = -1
      BY <2>4 DEF ResumeInit, ResumeHas
    <3> QED
      BY <2>2, <2>4, <3>1
  <2>5. CASE ResumeFini
    <3>1. table' = Closed(rsu) /\ ResumeHas = rsu /\ ResumeHas' = -1 /\ rsu \in Fds
      BY <2>5 DEF ResumeFini, ResumeHas, IInv, HaveNumbers
    <3> QED
      BY <2>2, <3>1, CloseKeepsOwners
  <2>6. CASE ResumeReport \/ Resumed \/ \E c \in Clients : ClientSends(c)
    <3>1. table' = table /\ ResumeHas' = ResumeHas
      BY <2>6 DEF ResumeReport, Resumed, ClientSends, ResumeHas
    <3> QED
      BY <2>2, <3>1
  <2> QED
    BY <2>3, <2>4, <2>5, <2>6 DEF ResumeThread, ResumeInit, SocketInitFails
<1> QED
  BY <1>2, <1>3, <1>4 DEF IInv

\* Every step keeps types and invariant.
LEMMA NextInv == ASSUME TypeOK, IInv, [Next]_vars PROVE TypeOK' /\ IInv'
<1>1. CASE UNCHANGED vars
  <2>1. TypeOK'
    BY <1>1 DEF vars, app, resume, clients, message, TypeOK
  <2>2. IInv'
    BY <1>1 DEF vars, app, resume, clients, message, IInv, HaveNumbers, OneBuffer,
       PrevIsBefore, DescriptorsKeepTheirOwners, AppHas, ResumeHas
  <2> QED
    BY <2>1, <2>2
<1> QED
  BY <1>1, AppTypes, OtherTypes, AppInv, OtherInv DEF Next

-----------------------------------------------------------------------------
(* The theorems.                                                           *)

\* The invariant: a number in use is its thread's, one buffer at most is
\* allocated, and prev_client_* are the last client's.
THEOREM UdpInvariant == Spec => [](TypeOK /\ IInv)
<1>1. Init => TypeOK /\ IInv
  BY InitTypes, InitInv
<1>2. TypeOK /\ IInv /\ [Next]_vars => TypeOK' /\ IInv'
  BY NextInv
<1> QED
  BY <1>1, <1>2, PTL DEF Spec

\* With -t neither thread closes or loses a descriptor of the other's, however
\* their calls of socket() and close() interleave.
THEOREM OwnersKept == Spec => []DescriptorsKeepTheirOwners
<1>1. IInv => DescriptorsKeepTheirOwners
  BY DEF IInv
<1> QED
  BY <1>1, UdpInvariant, PTL

\* No datagram leaves its buffer behind.
THEOREM NoLeaks == Spec => []NoBufferLeaks
<1>1. IInv => NoBufferLeaks
  BY DEF IInv, OneBuffer, NoBufferLeaks
<1> QED
  BY <1>1, UdpInvariant, PTL

\* A client is announced when it is not the one before it, and only then.
THEOREM NewClientsAnnounced == Spec => []ChangesAnnounced
<1>1. IInv => ChangesAnnounced
  BY DEF IInv, PrevIsBefore, ChangesAnnounced
<1> QED
  BY <1>1, UdpInvariant, PTL

=============================================================================

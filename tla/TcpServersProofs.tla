-------------------------- MODULE TcpServersProofs --------------------------
(***************************************************************************)
(* The TCP applications leave no descriptor behind, keep each connection   *)
(* in one place and implement SerialService, for every process table,      *)
(* family and set of connections.                                          *)
(***************************************************************************)
EXTENDS TcpServers, Integers, TLAPS

\* One process serves.  A process has a connection when it received or is the
\* child of one that did, and every connection at the server has a client.
Places ==
  /\ \A p, q \in Serving : p = q
  /\ \A p \in Procs : conn[p] # NONE => pc[p] \in {"recv", "reply", "child"}
  /\ \A p \in Procs : pc[p] \in {"recv", "reply"} => conn[p] # NONE
  /\ \A p \in Procs : conn[p] # NONE => client[conn[p]] # "none"
  /\ \A c \in Conns : Waiting(c) => client[c] # "none"

IInv == TypeOK /\ NoDescriptorLeaks /\ Places

\* What the steps of the processes leave alone.
Aside == UNCHANGED << app, doFork, client >>
UnreadOK == unread \in [Conns -> Messages \cup {Nothing}]

-----------------------------------------------------------------------------
(* The sequence of connections that wait.                                  *)

\* Taking the oldest connection leaves connections that waited already.
LEMMA TailWaits ==
  ASSUME NEW s \in Seq(Conns), s # << >>, NEW i \in DOMAIN Tail(s)
  PROVE  \E j \in DOMAIN s : s[j] = Tail(s)[i]
<1>1. Len(Tail(s)) = Len(s) - 1 /\ Len(s) \in Nat /\ DOMAIN s = 1 .. Len(s)
  OBVIOUS
<1>2. i \in 1 .. Len(s) - 1 /\ Tail(s)[i] = s[i + 1]
  BY <1>1
<1> QED
  BY <1>1, <1>2

\* The new connection comes behind the others.
LEMMA AppendWaits ==
  ASSUME NEW s \in Seq(Conns), NEW c \in Conns, NEW i \in DOMAIN Append(s, c)
  PROVE  Append(s, c)[i] = c \/ \E j \in DOMAIN s : s[j] = Append(s, c)[i]
OBVIOUS

-----------------------------------------------------------------------------
(* The effects the steps share.                                            *)

\* A process that ends takes its descriptors with it.
LEMMA ExitInv ==
  ASSUME IInv, NEW p \in Procs, Exit(p), Aside, UnreadOK'
  PROVE  IInv'
<1> USE DEF IInv, TypeOK, Exit, Goto, Aside, UnreadOK
<1>1. backlog' \in Seq(Conns)
  OBVIOUS
<1>2. TypeOK'
  BY <1>1 DEF PCs
<1>3. NoDescriptorLeaks'
  BY DEF NoDescriptorLeaks
<1>4. (\A u, v \in Serving : u = v)'
  BY DEF Places, Serving, NoDescriptorLeaks
<1>5. (\A u \in Procs : conn[u] # NONE => pc[u] \in {"recv", "reply", "child"})'
  BY DEF Places, Serving
<1>6. (\A u \in Procs : pc[u] \in {"recv", "reply"} => conn[u] # NONE)'
  BY DEF Places, Serving
<1>7. (\A u \in Procs : conn[u] # NONE => client[conn[u]] # "none")'
  BY DEF Places, Serving
<1>8. (\A c \in Conns : Waiting(c) => client[c] # "none")'
  BY DEF Places, Waiting
<1> QED
  BY <1>2, <1>3, <1>4, <1>5, <1>6, <1>7, <1>8 DEF Places

\* net_msg_cleanup() closes the connection that was served.
LEMMA NextClientInv ==
  ASSUME IInv, NEW p \in Procs, NextClient(p), pc[p] \in {"recv", "reply"}, Aside, UnreadOK'
  PROVE  IInv'
<1> USE DEF IInv, TypeOK, NextClient, Goto, Aside, UnreadOK
<1>1. backlog' \in Seq(Conns)
  OBVIOUS
<1>2. TypeOK'
  BY <1>1 DEF PCs
<1>3. NoDescriptorLeaks'
  BY DEF NoDescriptorLeaks
<1>4. (\A u, v \in Serving : u = v)'
  BY DEF Places, Serving, NoDescriptorLeaks
<1>5. (\A u \in Procs : conn[u] # NONE => pc[u] \in {"recv", "reply", "child"})'
  BY DEF Places, Serving
<1>6. (\A u \in Procs : pc[u] \in {"recv", "reply"} => conn[u] # NONE)'
  BY DEF Places, Serving
<1>7. (\A u \in Procs : conn[u] # NONE => client[conn[u]] # "none")'
  BY DEF Places, Serving
<1>8. (\A c \in Conns : Waiting(c) => client[c] # "none")'
  BY DEF Places, Waiting
<1> QED
  BY <1>2, <1>3, <1>4, <1>5, <1>6, <1>7, <1>8 DEF Places

\* The child of a fork has the connection, the parent closes its copy.
LEMMA ForkInv ==
  ASSUME IInv, NEW p \in Procs, NEW q \in Procs, Fork(p, q), pc[p] = "recv", Aside, UnreadOK'
  PROVE  IInv'
<1> USE DEF IInv, TypeOK, Fork, Aside, UnreadOK
<1>0. p # q
  OBVIOUS
<1>1. backlog' \in Seq(Conns)
  OBVIOUS
<1>2. TypeOK'
  BY <1>1 DEF PCs
<1>3. NoDescriptorLeaks'
  BY <1>0 DEF NoDescriptorLeaks
<1>4. (\A u, v \in Serving : u = v)'
  BY <1>0 DEF Places, Serving, NoDescriptorLeaks
<1>5. (\A u \in Procs : conn[u] # NONE => pc[u] \in {"recv", "reply", "child"})'
  BY <1>0 DEF Places, Serving
<1>6. (\A u \in Procs : pc[u] \in {"recv", "reply"} => conn[u] # NONE)'
  BY <1>0 DEF Places, Serving
<1>7. (\A u \in Procs : conn[u] # NONE => client[conn[u]] # "none")'
  BY <1>0 DEF Places, Serving
<1>8. (\A c \in Conns : Waiting(c) => client[c] # "none")'
  BY <1>0 DEF Places, Waiting
<1> QED
  BY <1>2, <1>3, <1>4, <1>5, <1>6, <1>7, <1>8 DEF Places

-----------------------------------------------------------------------------
(* The steps.                                                              *)

\* Whatever an application does with what it received.
LEMMA HandleInv ==
  ASSUME IInv, NEW p \in Procs, pc[p] = "recv", NEW kind, Handle(p, kind),
         Aside, UnreadOK'
  PROVE  IInv'
<1>1. CASE Exit(p)
  BY <1>1, ExitInv
<1>2. CASE NextClient(p)
  BY <1>2, NextClientInv
<1>3. CASE \E q \in Procs : Fork(p, q)
  BY <1>3, ForkInv
<1>4. CASE Goto(p, "reply") /\ UNCHANGED << holders, fds, conn, backlog >>
  <2> USE <1>4 DEF Goto, IInv, TypeOK, Aside, UnreadOK
  <2>1. TypeOK'
    BY DEF PCs
  <2>2. NoDescriptorLeaks'
    BY DEF NoDescriptorLeaks
  <2>3. Places'
    BY DEF Places, Serving, Waiting
  <2> QED
    BY <2>1, <2>2, <2>3
<1>5. CASE UNCHANGED << process, backlog >>
  <2> USE <1>5 DEF IInv, TypeOK, Aside, UnreadOK, process
  <2>1. TypeOK'
    OBVIOUS
  <2>2. NoDescriptorLeaks'
    BY DEF NoDescriptorLeaks
  <2>3. Places'
    BY DEF Places, Serving, Waiting
  <2> QED
    BY <2>1, <2>2, <2>3
<1> QED
  BY <1>1, <1>2, <1>3, <1>4, <1>5
  DEF Handle, Count, Sink, CloneRequest, MeasureFork, MemoryOverhead, WriteFile

\* A process that only bound to the port has no descriptor that counts.
LEMMA BindInv ==
  ASSUME IInv, NEW p \in Procs, Bind(p)
  PROVE  IInv'
<1> USE DEF IInv, TypeOK, Bind, Goto, config, peers, process
<1>1. backlog' \in Seq(Conns)
  OBVIOUS
<1>2. TypeOK'
  BY <1>1 DEF PCs, Nothing
<1>3. NoDescriptorLeaks'
  BY DEF NoDescriptorLeaks
<1>4. Places'
  BY DEF Places, Serving, Waiting, NoDescriptorLeaks
<1> QED
  BY <1>2, <1>3, <1>4

\* Nobody else serves when a process starts to.
LEMMA ListenInv ==
  ASSUME IInv, NEW p \in Procs, Listen(p)
  PROVE  IInv'
<1> USE DEF IInv, TypeOK, Listen, Goto, config, peers, process
<1>1. backlog' \in Seq(Conns)
  OBVIOUS
<1>2. TypeOK'
  BY <1>1 DEF PCs, Nothing
<1>3. NoDescriptorLeaks'
  BY DEF NoDescriptorLeaks
<1>4. Places'
  BY DEF Places, Serving, Waiting, NoDescriptorLeaks
<1> QED
  BY <1>2, <1>3, <1>4

\* The connection that is accepted has a client and no other process.
LEMMA AcceptInv ==
  ASSUME IInv, NEW p \in Procs, Accept(p)
  PROVE  IInv'
<1> USE DEF IInv, TypeOK, Accept, Goto, config, peers
<1>1. backlog' \in Seq(Conns) /\ Head(backlog) \in Conns /\ Waiting(Head(backlog))
  <2>1. Head(backlog) = backlog[1] /\ 1 \in DOMAIN backlog
    OBVIOUS
  <2> QED
    BY <2>1 DEF Waiting
<1>2. Head(backlog) # NONE
  BY <1>1, ServersAssumption
<1>3. TypeOK'
  BY <1>1 DEF PCs
<1>4. NoDescriptorLeaks'
  BY <1>2 DEF NoDescriptorLeaks, Places
<1>5. ASSUME NEW c \in Conns, Waiting(c)'
      PROVE  Waiting(c)
  BY <1>5, TailWaits DEF Waiting
<1>6. (\A u, v \in Serving : u = v)'
  BY DEF Places, Serving
<1>7. (\A u \in Procs : conn[u] # NONE => pc[u] \in {"recv", "reply", "child"})'
  BY DEF Places
<1>8. (\A u \in Procs : pc[u] \in {"recv", "reply"} => conn[u] # NONE)'
  BY <1>2 DEF Places
<1>9. (\A u \in Procs : conn[u] # NONE => client[conn[u]] # "none")'
  BY <1>1 DEF Places
<1>10. (\A c \in Conns : Waiting(c) => client[c] # "none")'
  BY <1>5 DEF Places
<1> QED
  BY <1>3, <1>4, <1>6, <1>7, <1>8, <1>9, <1>10 DEF Places

\* A process that ends because of a failure, or its last step.
LEMMA EndsInv ==
  ASSUME IInv, NEW p \in Procs, Exit(p), UNCHANGED << config, peers >>
  PROVE  IInv'
<1>1. Aside /\ UnreadOK'
  BY DEF IInv, TypeOK, Aside, UnreadOK, config, peers
<1> QED
  BY <1>1, ExitInv

\* A message received, or the end of the stream.
LEMMA ReceiveInv ==
  ASSUME IInv, NEW p \in Procs, Receive(p) \/ EndOfStream(p)
  PROVE  IInv'
<1>1. Aside /\ UnreadOK' /\ pc[p] = "recv"
  BY DEF IInv, TypeOK, Aside, UnreadOK, config, peers, Receive, EndOfStream
<1>2. \E kind : Handle(p, kind)
  BY DEF Receive, EndOfStream
<1> QED
  BY <1>1, <1>2, HandleInv

\* The answer of counter.
LEMMA ReplyInv ==
  ASSUME IInv, NEW p \in Procs, Reply(p)
  PROVE  IInv'
<1>1. Aside /\ UnreadOK' /\ pc[p] = "reply" /\ NextClient(p)
  BY DEF IInv, TypeOK, Aside, UnreadOK, config, peers, Reply
<1> QED
  BY <1>1, NextClientInv

\* The connection of a new client is behind the others.
LEMMA ConnectInv ==
  ASSUME IInv, NEW c \in Conns, Connect(c)
  PROVE  IInv'
<1> USE DEF IInv, TypeOK, Connect, config, process
<1>1. TypeOK'
  OBVIOUS
<1>2. NoDescriptorLeaks'
  BY DEF NoDescriptorLeaks
<1>3. ASSUME NEW d \in Conns, Waiting(d)'
      PROVE  d = c \/ Waiting(d)
  BY <1>3, AppendWaits DEF Waiting
<1>4. Places'
  BY <1>3 DEF Places, Serving
<1> QED
  BY <1>1, <1>2, <1>4

\* What clients send does not change who has their connection.
LEMMA SendInv ==
  ASSUME IInv, NEW c \in Conns, Send(c)
  PROVE  IInv'
<1> USE DEF IInv, TypeOK, Send, Goto, config, peers, process
<1>1. backlog' \in Seq(Conns)
  OBVIOUS
<1>2. TypeOK'
  BY <1>1 DEF PCs, Nothing
<1>3. NoDescriptorLeaks'
  BY DEF NoDescriptorLeaks
<1>4. Places'
  BY DEF Places, Serving, Waiting, NoDescriptorLeaks
<1> QED
  BY <1>2, <1>3, <1>4

\* A client that closes its end is still the client of its connection.
LEMMA HangupInv ==
  ASSUME IInv, NEW c \in Conns, Hangup(c)
  PROVE  IInv'
<1> USE DEF IInv, TypeOK, Hangup, Goto, config, peers, process
<1>1. backlog' \in Seq(Conns)
  OBVIOUS
<1>2. TypeOK'
  BY <1>1 DEF PCs, Nothing
<1>3. NoDescriptorLeaks'
  BY DEF NoDescriptorLeaks
<1>4. Places'
  BY DEF Places, Serving, Waiting, NoDescriptorLeaks
<1> QED
  BY <1>2, <1>3, <1>4

\* A client leaves a connection that nobody at the server has.
LEMMA LeaveInv ==
  ASSUME IInv, NEW c \in Conns, Leave(c)
  PROVE  IInv'
<1> USE DEF IInv, TypeOK, Leave, config, process
<1>1. TypeOK'
  BY DEF Nothing
<1>2. NoDescriptorLeaks'
  BY DEF NoDescriptorLeaks
<1>3. \A p \in Procs : conn[p] # c
  BY ServersAssumption DEF Over, NoDescriptorLeaks
<1>4. (\A p \in Procs : conn[p] # NONE => client[conn[p]] # "none")'
  BY <1>3 DEF Places
<1>5. (\A d \in Conns : Waiting(d) => client[d] # "none")'
  BY DEF Places, Waiting, Over
<1> QED
  BY <1>1, <1>2, <1>4, <1>5 DEF Places, Serving

-----------------------------------------------------------------------------
(* The invariant.                                                          *)

\* No process serves at first, and no client has come.
LEMMA InitInv == Init => IInv
<1> SUFFICES ASSUME Init PROVE IInv
  OBVIOUS
<1>1. TypeOK
  BY ServersAssumption DEF Init, TypeOK, PCs, Nothing
<1>2. NoDescriptorLeaks
  BY DEF Init, NoDescriptorLeaks
<1>3. Places
  BY DEF Init, Places, Serving, Waiting
<1> QED
  BY <1>1, <1>2, <1>3 DEF IInv

\* Every step keeps the invariant.
LEMMA NextInv == IInv /\ [Next]_vars => IInv'
<1> SUFFICES ASSUME IInv, [Next]_vars PROVE IInv'
  OBVIOUS
<1>1. CASE UNCHANGED vars
  <2> USE <1>1 DEF vars, config, process, peers, IInv
  <2>1. TypeOK'
    BY DEF TypeOK
  <2>2. NoDescriptorLeaks'
    BY DEF NoDescriptorLeaks
  <2>3. Places'
    BY DEF Places, Serving, Waiting
  <2> QED
    BY <2>1, <2>2, <2>3
<1>2. ASSUME NEW p \in Procs, Step(p) PROVE IInv'
  <2>1. CASE Bind(p)
    BY <2>1, BindInv
  <2>2. CASE Listen(p)
    BY <2>2, ListenInv
  <2>3. CASE Accept(p)
    BY <2>3, AcceptInv
  <2>4. CASE Receive(p) \/ EndOfStream(p)
    BY <2>4, ReceiveInv
  <2>5. CASE Reply(p)
    BY <2>5, ReplyInv
  <2>6. CASE \/ BindFails(p) \/ ListenFails(p) \/ AcceptFails(p)
             \/ ReceiveFails(p) \/ ReplyFails(p) \/ ChildExits(p)
    BY <2>6, EndsInv
    DEF BindFails, ListenFails, AcceptFails, ReceiveFails, ReplyFails, ChildExits
  <2> QED
    BY <1>2, <2>1, <2>2, <2>3, <2>4, <2>5, <2>6 DEF Step
<1>3. ASSUME NEW p \in Procs, CallFails(p) PROVE IInv'
  BY <1>3, EndsInv DEF CallFails
<1>4. ASSUME NEW c \in Conns, Connect(c) \/ Send(c) \/ Hangup(c) \/ Leave(c)
      PROVE  IInv'
  BY <1>4, ConnectInv, SendInv, HangupInv, LeaveInv
<1> QED
  BY <1>1, <1>2, <1>3, <1>4 DEF Next

\* The inductive invariant of the TCP applications.
THEOREM ServersInvariant == Spec => []IInv
<1> QED
  BY InitInv, NextInv, PTL DEF Spec

\* Every variable keeps its type.
THEOREM ServersTypeCorrect == Spec => []TypeOK
<1>1. IInv => TypeOK
  BY DEF IInv
<1> QED
  BY <1>1, ServersInvariant, PTL

\* No path through an accept loop leaves a descriptor behind.
THEOREM NoLeaks == Spec => []NoDescriptorLeaks
<1>1. IInv => NoDescriptorLeaks
  BY DEF IInv
<1> QED
  BY <1>1, ServersInvariant, PTL

-----------------------------------------------------------------------------
(* Where a connection can be.                                              *)

\* A connection waits at one place in the queue, nobody who waits is served at
\* the same time, by the server or by a child, and somebody has the port that
\* the connections wait at.
EachInOnePlace ==
  /\ \A m, n \in DOMAIN backlog : backlog[m] = backlog[n] => m = n
  /\ \A c \in Conns : Waiting(c) => \A p \in Procs : conn[p] # c
  /\ backlog # << >> => holders # {}

\* Who only passes connections on, or drops those that wait, keeps it.
LEMMA PassingOn ==
  ASSUME EachInOnePlace, backlog' = backlog \/ backlog' = << >>,
         backlog' # << >> => holders' # {},
         \A p \in Procs : conn'[p] = NONE \/ \E q \in Procs : conn'[p] = conn[q]
  PROVE  EachInOnePlace'
<1>1. CASE backlog' = << >>
  BY <1>1 DEF EachInOnePlace, Waiting
<1>2. CASE backlog' = backlog
  <2>1. \A c \in Conns : Waiting(c)' => Waiting(c)
    BY <1>2 DEF Waiting
  <2> QED
    BY <1>2, <2>1, ServersAssumption DEF EachInOnePlace
<1> QED
  BY <1>1, <1>2

\* The oldest connection leaves the queue when it gets a server.
LEMMA AcceptMoves ==
  ASSUME IInv, EachInOnePlace, NEW p \in Procs, Accept(p)
  PROVE  EachInOnePlace'
<1>1. /\ backlog \in Seq(Conns) /\ backlog # << >> /\ backlog' = Tail(backlog)
      /\ conn' = [conn EXCEPT ![p] = Head(backlog)] /\ holders' = holders
  BY DEF IInv, TypeOK, Accept
<1>2. /\ Len(backlog) \in Nat /\ DOMAIN backlog = 1 .. Len(backlog) /\ Head(backlog) = backlog[1]
      /\ Len(backlog) >= 1
  BY <1>1
<1>3. /\ DOMAIN backlog' = 1 .. Len(backlog) - 1
      /\ \A n \in DOMAIN backlog' : backlog'[n] = backlog[n + 1]
  BY <1>1, <1>2
<1>4. \A m, n \in DOMAIN backlog' : backlog'[m] = backlog'[n] => m = n
  <2> SUFFICES ASSUME NEW m \in DOMAIN backlog', NEW n \in DOMAIN backlog',
                      backlog'[m] = backlog'[n]
               PROVE  m = n
    OBVIOUS
  <2>1. m \in Nat /\ n \in Nat /\ m + 1 \in DOMAIN backlog /\ n + 1 \in DOMAIN backlog
    BY <1>2, <1>3
  <2>2. m + 1 = n + 1
    BY <1>3, <2>1 DEF EachInOnePlace
  <2> QED
    BY <2>1, <2>2
<1>5. ASSUME NEW c \in Conns, Waiting(c)', NEW q \in Procs
      PROVE  conn'[q] # c
  <2>1. PICK n \in DOMAIN backlog' : backlog'[n] = c
    BY <1>5 DEF Waiting
  <2>2. n + 1 \in DOMAIN backlog /\ backlog[n + 1] = c /\ n + 1 # 1 /\ 1 \in DOMAIN backlog
    BY <1>2, <1>3, <2>1
  <2>3. c # Head(backlog)
    BY <1>2, <2>2 DEF EachInOnePlace
  <2>4. conn[q] # c
    BY <2>2 DEF EachInOnePlace, Waiting
  <2> QED
    BY <1>1, <2>3, <2>4 DEF IInv, TypeOK
<1> QED
  BY <1>1, <1>4, <1>5 DEF EachInOnePlace, Accept

\* A client that connects is nowhere yet.
LEMMA ConnectMoves ==
  ASSUME IInv, EachInOnePlace, NEW c \in Conns, Connect(c)
  PROVE  EachInOnePlace'
<1>1. /\ backlog \in Seq(Conns) /\ backlog' = Append(backlog, c) /\ holders' = holders
      /\ holders # {} /\ conn' = conn
  BY DEF IInv, TypeOK, Connect, process
<1>2. ~ Waiting(c) /\ \A p \in Procs : conn[p] # c
  BY ServersAssumption DEF IInv, Places, Connect
<1>3. /\ Len(backlog) \in Nat /\ DOMAIN backlog = 1 .. Len(backlog)
      /\ DOMAIN backlog' = 1 .. Len(backlog) + 1 /\ backlog'[Len(backlog) + 1] = c
      /\ \A n \in DOMAIN backlog : backlog'[n] = backlog[n]
  BY <1>1
<1>4. \A n \in DOMAIN backlog : backlog[n] # c
  BY <1>2 DEF Waiting
<1>5. \A n \in DOMAIN backlog' : n \in DOMAIN backlog \/ n = Len(backlog) + 1
  BY <1>3
<1>6. \A m, n \in DOMAIN backlog' : backlog'[m] = backlog'[n] => m = n
  BY <1>3, <1>4, <1>5 DEF EachInOnePlace
<1>7. \A d \in Conns : Waiting(d)' => \A p \in Procs : conn'[p] # d
  BY <1>1, <1>2, <1>3, <1>5 DEF EachInOnePlace, Waiting
<1> QED
  BY <1>1, <1>6, <1>7 DEF EachInOnePlace

\* Whoever ends passes the port on, or drops who waits at it.
LEMMA ExitMoves ==
  ASSUME IInv, EachInOnePlace, NEW p \in Procs, Exit(p)
  PROVE  EachInOnePlace'
BY PassingOn DEF IInv, TypeOK, Exit

\* What a server does with its connection leaves the queue alone.
LEMMA HandleMoves ==
  ASSUME IInv, EachInOnePlace, NEW p \in Procs,
         NextClient(p) \/ (\E q \in Procs : Fork(p, q))
           \/ UNCHANGED << holders, conn, backlog >>
  PROVE  EachInOnePlace'
<1>1. CASE NextClient(p) \/ UNCHANGED << holders, conn, backlog >>
  BY <1>1, PassingOn DEF IInv, TypeOK, NextClient, EachInOnePlace
<1>2. ASSUME NEW q \in Procs, Fork(p, q)
      PROVE  EachInOnePlace'
  BY <1>2, PassingOn DEF IInv, TypeOK, Fork, EachInOnePlace
<1> QED
  BY <1>1, <1>2

\* Every step keeps every connection in one place.
LEMMA NextMoves ==
  ASSUME IInv, EachInOnePlace, [Next]_vars
  PROVE  EachInOnePlace'
<1>1. ASSUME NEW p \in Procs, NEW kind, Handle(p, kind)
      PROVE  EachInOnePlace'
  BY <1>1, ExitMoves, HandleMoves
  DEF Handle, Count, Sink, CloneRequest, MeasureFork, MemoryOverhead, WriteFile, process
<1>2. ASSUME NEW p \in Procs, Step(p) \/ CallFails(p)
      PROVE  EachInOnePlace'
  <2>1. CASE Bind(p)
    BY <2>1, HandleMoves DEF Bind
  <2>2. CASE Listen(p)
    BY <2>2, PassingOn DEF Listen, EachInOnePlace
  <2>3. CASE Accept(p)
    BY <2>3, AcceptMoves
  <2>4. CASE Receive(p) \/ EndOfStream(p)
    BY <1>1, <2>4 DEF Receive, EndOfStream
  <2>5. CASE Reply(p)
    BY <2>5, HandleMoves DEF Reply
  <2>6. CASE \/ BindFails(p) \/ ListenFails(p) \/ AcceptFails(p) \/ ReceiveFails(p)
             \/ ReplyFails(p) \/ ChildExits(p) \/ CallFails(p)
    BY <2>6, ExitMoves
    DEF BindFails, ListenFails, AcceptFails, ReceiveFails, ReplyFails, ChildExits, CallFails
  <2> QED
    BY <1>2, <2>1, <2>2, <2>3, <2>4, <2>5, <2>6 DEF Step
<1>3. ASSUME NEW c \in Conns, Connect(c) \/ Send(c) \/ Hangup(c) \/ Leave(c)
      PROVE  EachInOnePlace'
  BY <1>3, ConnectMoves, PassingOn DEF Send, Hangup, Leave, process, EachInOnePlace
<1>4. CASE UNCHANGED vars
  BY <1>4, PassingOn DEF vars, process, EachInOnePlace
<1> QED
  BY <1>2, <1>3, <1>4 DEF Next

\* No connection waits twice or while it is served, and none waits at a port
\* that nobody holds: there is always somebody to take it or to drop it.
THEOREM ConnectionsKeepTheirPlace == Spec => []EachInOnePlace
<1>1. Init => EachInOnePlace
  BY DEF Init, EachInOnePlace, Waiting
<1>2. IInv /\ EachInOnePlace /\ [Next]_vars => EachInOnePlace'
  BY NextMoves
<1> QED
  BY <1>1, <1>2, ServersInvariant, PTL DEF Spec

-----------------------------------------------------------------------------
(* The refinement: what SerialService calls serving, and what each step is  *)
(* to it.                                                                  *)

Served == IF \E p \in Serving : conn[p] # NONE
            THEN conn[CHOOSE p \in Serving : conn[p] # NONE] ELSE NONE

Refines == [Service!Next]_(Service!vars)

\* The connection served is that of the process that serves.
LEMMA ServedIs ==
  IInv => /\ \A p \in Serving : Served = conn[p]
          /\ Serving = {} => Served = NONE
<1> SUFFICES ASSUME IInv
             PROVE  /\ \A p \in Serving : Served = conn[p]
                    /\ Serving = {} => Served = NONE
  OBVIOUS
<1>1. ASSUME NEW p \in Serving PROVE Served = conn[p]
  <2>1. \A q \in Serving : q = p
    BY DEF IInv, Places
  <2>2. CASE conn[p] = NONE
    BY <2>1, <2>2 DEF Served
  <2>3. CASE conn[p] # NONE
    <3>1. (CHOOSE q \in Serving : conn[q] # NONE) = p
      BY <2>1, <2>3
    <3> QED
      BY <2>3, <3>1 DEF Served
  <2> QED
    BY <2>2, <2>3
<1>2. Serving = {} => Served = NONE
  BY DEF Served
<1> QED
  BY <1>1, <1>2

\* The same of the next state.
LEMMA ServedIsNext ==
  IInv' => /\ \A p \in Serving' : Served' = conn'[p]
           /\ Serving' = {} => Served' = NONE
<1>1. IInv' => (/\ \A p \in Serving : Served = conn[p]
                /\ Serving = {} => Served = NONE)'
  BY ServedIs, PTL
<1> QED
  BY <1>1

\* A process that ends was the one that served, or nobody served and the
\* connections that wait may be dropped, or nothing happened.
LEMMA ExitRefines ==
  ASSUME IInv, IInv', NEW p \in Procs, Exit(p)
  PROVE  Refines
<1>1. Serving' = Serving \ {p}
  BY DEF IInv, TypeOK, Exit, Goto, Serving
<1>2. backlog' \in {backlog, << >>}
  BY DEF Exit
<1>3. CASE p \in Serving
  <2>1. Serving = {p}
    BY <1>3 DEF IInv, Places
  <2>2. Serving' = {} /\ Served' = NONE
    BY <1>1, <2>1, ServedIsNext
  <2>3. Service!Shut
    BY <1>2, <2>1, <2>2 DEF Service!Shut, Served
  <2> QED
    BY <2>3 DEF Refines, Service!Next
<1>4. CASE p \notin Serving
  <2>1. Serving' = Serving
    BY <1>1, <1>4
  <2>2. Served' = Served
    <3>1. CASE Serving = {}
      BY <2>1, <3>1, ServedIs, ServedIsNext
    <3>2. CASE Serving # {}
      <4>1. PICK q \in Serving : TRUE
        BY <3>2
      <4>2. conn'[q] = conn[q]
        BY <1>4, <4>1 DEF IInv, TypeOK, Exit, Serving
      <4> QED
        BY <2>1, <4>1, <4>2, ServedIs, ServedIsNext
    <3> QED
      BY <3>1, <3>2
  <2>3. CASE backlog' = backlog
    BY <2>1, <2>2, <2>3 DEF Refines, Service!vars, Served
  <2>4. CASE backlog' # backlog
    <3>1. holders \subseteq {p}
      BY <2>4 DEF Exit
    <3>2. Serving = {}
      BY <1>4, <3>1 DEF IInv, NoDescriptorLeaks, Serving
    <3>3. Service!Drop
      BY <1>2, <2>1, <2>2, <2>4, <3>2 DEF Service!Drop, Served
    <3> QED
      BY <3>3 DEF Refines, Service!Next
  <2> QED
    BY <2>3, <2>4
<1> QED
  BY <1>3, <1>4

\* The process that serves gives its connection up and goes on: Finish.
LEMMA FinishRefines ==
  ASSUME IInv, IInv', NEW p \in Procs, pc[p] \in {"recv", "reply"},
         NextClient(p) \/ \E q \in Procs : Fork(p, q)
  PROVE  Refines
<1>1. p \in Serving /\ p \in Serving' /\ conn'[p] = NONE /\ backlog' = backlog
  <2>1. CASE NextClient(p)
    BY <2>1 DEF IInv, TypeOK, NextClient, Goto, Serving
  <2>2. ASSUME NEW q \in Procs, Fork(p, q)
        PROVE  p \in Serving /\ p \in Serving' /\ conn'[p] = NONE /\ backlog' = backlog
    BY <2>2 DEF IInv, TypeOK, Fork, Serving
  <2> QED
    BY <2>1, <2>2
<1>2. Served = conn[p] /\ Served' = NONE /\ conn[p] # NONE
  BY <1>1, ServedIs, ServedIsNext DEF IInv, Places
<1>3. Service!Finish
  BY <1>1, <1>2 DEF Service!Finish, Served
<1> QED
  BY <1>3 DEF Refines, Service!Next

\* A step that changes neither who serves nor what is served is a stutter.
LEMMA StutterRefines ==
  ASSUME IInv, IInv', Serving' = Serving, conn' = conn, backlog' = backlog
  PROVE  Refines
<1>1. Served' = Served
  BY DEF Served
<1> QED
  BY <1>1 DEF Refines, Service!vars, Served

\* What an application does with a message ends the connection or goes on.
LEMMA HandleRefines ==
  ASSUME IInv, IInv', NEW p \in Procs, pc[p] = "recv", NEW kind, Handle(p, kind)
  PROVE  Refines
<1>1. CASE Exit(p)
  BY <1>1, ExitRefines
<1>2. CASE NextClient(p) \/ \E q \in Procs : Fork(p, q)
  BY <1>2, FinishRefines
<1>3. CASE Goto(p, "reply") /\ UNCHANGED << holders, fds, conn, backlog >>
  <2>1. Serving' = Serving
    BY <1>3 DEF IInv, TypeOK, Goto, Serving
  <2> QED
    BY <1>3, <2>1, StutterRefines
<1>4. CASE UNCHANGED << process, backlog >>
  BY <1>4, StutterRefines DEF process, Serving
<1> QED
  BY <1>1, <1>2, <1>3, <1>4
  DEF Handle, Count, Sink, CloneRequest, MeasureFork, MemoryOverhead, WriteFile

\* Open, when the port had no server.
LEMMA ListenRefines ==
  ASSUME IInv, IInv', NEW p \in Procs, Listen(p)
  PROVE  Refines
<1>1. Serving = {} /\ Serving' = {p}
  BY DEF IInv, TypeOK, NoDescriptorLeaks, Listen, Goto, Serving
<1>2. conn'[p] = NONE
  BY DEF IInv, TypeOK, Places, Listen
<1>3. Served = NONE /\ Served' = NONE
  BY <1>1, <1>2, ServedIs, ServedIsNext
<1>4. Service!Open
  BY <1>1, <1>3 DEF Service!Open, Served, Listen
<1> QED
  BY <1>4 DEF Refines, Service!Next

\* Take: the process that accepts had no connection.
LEMMA AcceptRefines ==
  ASSUME IInv, IInv', NEW p \in Procs, Accept(p)
  PROVE  Refines
<1>1. p \in Serving /\ p \in Serving' /\ Serving # {} /\ Serving' # {}
  BY DEF IInv, TypeOK, Accept, Goto, Serving
<1>2. conn[p] = NONE /\ conn'[p] = Head(backlog)
  BY DEF IInv, TypeOK, Places, Accept
<1>3. Served = NONE /\ Served' = Head(backlog)
  BY <1>1, <1>2, ServedIs, ServedIsNext
<1>4. Service!Take
  BY <1>1, <1>3 DEF Service!Take, Served, Accept
<1> QED
  BY <1>4 DEF Refines, Service!Next

\* Arrive: a client that connects neither waits nor is served.
LEMMA ConnectRefines ==
  ASSUME IInv, IInv', NEW c \in Conns, Connect(c)
  PROVE  Refines
<1>1. Serving' = Serving /\ Served' = Served
  BY DEF Connect, process, Serving, Served
<1>2. c # Served
  <2>1. CASE Serving = {}
    BY <2>1, ServedIs, ServersAssumption
  <2>2. ASSUME NEW p \in Serving PROVE c # Served
    <3>1. p \in Procs /\ Served = conn[p]
      BY ServedIs DEF Serving
    <3> QED
      BY <3>1, ServersAssumption DEF IInv, Places, Connect
  <2> QED
    BY <2>1, <2>2
<1>3. \A i \in DOMAIN backlog : backlog[i] # c
  BY DEF IInv, Places, Waiting, Connect
<1>4. Service!Arrive(c)
  BY <1>1, <1>2, <1>3 DEF Service!Arrive, Served, Connect
<1> QED
  BY <1>4 DEF Refines, Service!Next

-----------------------------------------------------------------------------
(* The implementation.                                                     *)

\* Nobody serves at first.
LEMMA InitRefines == Init => Service!Init
<1> SUFFICES ASSUME Init PROVE Service!Init
  OBVIOUS
<1>1. Serving = {} /\ Served = NONE
  BY DEF Init, Serving, Served
<1> QED
  BY <1>1 DEF Init, Service!Init, Served

\* Every step is a step of SerialService or a stutter.
LEMMA NextRefines == IInv /\ IInv' /\ [Next]_vars => Refines
<1> SUFFICES ASSUME IInv, IInv', [Next]_vars PROVE Refines
  OBVIOUS
<1>1. CASE UNCHANGED vars
  BY <1>1, StutterRefines DEF vars, process, Serving
<1>2. ASSUME NEW p \in Procs, Step(p) PROVE Refines
  <2>1. CASE Bind(p)
    <3>1. Serving' = Serving
      BY <2>1 DEF IInv, TypeOK, Bind, Goto, Serving
    <3> QED
      BY <2>1, <3>1, StutterRefines DEF Bind
  <2>2. CASE Listen(p)
    BY <2>2, ListenRefines
  <2>3. CASE Accept(p)
    BY <2>3, AcceptRefines
  <2>4. CASE Receive(p)
    BY <2>4, HandleRefines DEF Receive
  <2>5. CASE EndOfStream(p)
    BY <2>5, HandleRefines DEF EndOfStream
  <2>6. CASE Reply(p)
    BY <2>6, FinishRefines DEF Reply
  <2>7. CASE \/ BindFails(p) \/ ListenFails(p) \/ AcceptFails(p)
             \/ ReceiveFails(p) \/ ReplyFails(p) \/ ChildExits(p)
    BY <2>7, ExitRefines
    DEF BindFails, ListenFails, AcceptFails, ReceiveFails, ReplyFails, ChildExits
  <2> QED
    BY <1>2, <2>1, <2>2, <2>3, <2>4, <2>5, <2>6, <2>7 DEF Step
<1>3. ASSUME NEW p \in Procs, CallFails(p) PROVE Refines
  BY <1>3, ExitRefines DEF CallFails
<1>4. ASSUME NEW c \in Conns, Connect(c) PROVE Refines
  BY <1>4, ConnectRefines
<1>5. ASSUME NEW c \in Conns, Send(c) \/ Hangup(c) \/ Leave(c) PROVE Refines
  BY <1>5, StutterRefines DEF Send, Hangup, Leave, process, Serving
<1> QED
  BY <1>1, <1>2, <1>3, <1>4, <1>5 DEF Next

\* One connection at a time, in the order of arrival and each only once, with
\* any number of members that race for the port and children that hold it.
THEOREM ServersImplementSerialService == Spec => ImplementsSerialService
<1>1. IInv /\ IInv' /\ [Next]_vars => [Service!Next]_(Service!vars)
  BY NextRefines DEF Refines
<1> QED
  BY <1>1, InitRefines, ServersInvariant, PTL
  DEF Spec, ImplementsSerialService, Service!Spec

=============================================================================

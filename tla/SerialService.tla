---------------------------- MODULE SerialService ----------------------------
(***************************************************************************)
(* What a TCP application promises about its clients, without processes,   *)
(* descriptors or messages: connections are taken one at a time and in the *)
(* order they arrived, each once, and only while somebody serves.          *)
(***************************************************************************)
EXTENDS Sequences

CONSTANTS Conns, NONE

VARIABLES
  up,        \* somebody serves
  queue,     \* the connections that wait, oldest first
  serving    \* the connection being served, or NONE

vars == << up, queue, serving >>

Init == up = FALSE /\ queue = << >> /\ serving = NONE

Open == ~ up /\ up' = TRUE /\ UNCHANGED << queue, serving >>

Arrive(c) ==
  /\ c # serving /\ \A i \in DOMAIN queue : queue[i] # c
  /\ queue' = Append(queue, c)
  /\ UNCHANGED << up, serving >>

Take ==
  /\ up /\ serving = NONE /\ queue # << >>
  /\ serving' = Head(queue)
  /\ queue' = Tail(queue)
  /\ UNCHANGED up

Finish == serving # NONE /\ serving' = NONE /\ UNCHANGED << up, queue >>

\* The service ends, in the middle of a connection or not; the connections that
\* wait are dropped then or, while somebody still holds the port, later.
Shut ==
  /\ up
  /\ up' = FALSE
  /\ serving' = NONE
  /\ queue' \in {queue, << >>}

Drop == ~ up /\ queue' = << >> /\ UNCHANGED << up, serving >>

Next == Open \/ Take \/ Finish \/ Shut \/ Drop \/ \E c \in Conns : Arrive(c)

Spec == Init /\ [][Next]_vars

=============================================================================

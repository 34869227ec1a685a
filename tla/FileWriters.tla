----------------------------- MODULE FileWriters -----------------------------
(***************************************************************************)
(* files.c: the two tests of file access after cloning.  In the simple one *)
(* a file is opened before the prologue and every member of the family     *)
(* writes two lines to it.  In the server one, the one compiled in, every  *)
(* member that serves rewrites one file on request, a character, a word or *)
(* a buffer at a time.                                                     *)
(*                                                                         *)
(* Processes made by fork() share an open file and its offset.  Guests     *)
(* share the file alone, through 9pfs: a clone has a copy of the offset,   *)
(* and rewrites the file while its siblings do.                            *)
(***************************************************************************)
EXTENDS Integers, Sequences, FiniteSets

CONSTANTS
  Tests,        \* what my_test_type may be: "simple", "server"
  Platforms,    \* "posix", where the family are processes, and "unikraft"
  Root, Kin,    \* the member started first, and the children it gets with -f
  Size,         \* how much create_file_write_data() is asked for
  WordSize,     \* sizeof(unsigned long)
  MaxRequests,  \* bound: the requests each server gets
  NONE,         \* no open file
  OLD, HOLE     \* what the file held before, what was never written

Procs == {Root} \cup Kin

ASSUME FileWritersAssumption ==
  /\ Tests \subseteq {"simple", "server"} /\ Platforms \subseteq {"posix", "unikraft"}
  /\ Root \notin Kin /\ IsFiniteSet(Kin) /\ MaxRequests \in Nat
  /\ NONE # OLD /\ OLD # HOLE /\ HOLE # NONE /\ {NONE, OLD, HOLE} \cap Procs = {}

\* 4 MiB are a whole number of words.
ASSUME SizeAssumption ==
  WordSize \in Nat \ {0} /\ Size \in Nat /\ Size % WordSize = 0

VARIABLES
  test, platform, do_fork,
  pc,        \* where each member is
  file,      \* the cells of the file, each with who wrote it
  fd,        \* the open file description each member has, or NONE
  offset,    \* the offset of each description
  count,     \* what has been written: of the request, or of the lines
  rc,        \* 0 or an error: what the writing function is about to return
  buf,       \* the member has a buffer of write_buffer()
  requests,  \* how many requests each server had
  last,      \* who truncated the file last, and what its request came to
  log        \* what was written in the simple test, in order

setup  == << test, platform, do_fork >>
files  == << file, fd, offset >>
locals == << count, rc, buf >>
ghosts == << requests, last, log >>

vars == << setup, pc, files, locals, ghosts >>

Writing == {"chars", "words", "buffer"}
Busy    == {"create", "close"} \cup Writing
Ended   == {"stopped", "aborted"}
PCs     == {"absent", "open", "prologue", "start", "idle", "lines", "closing",
            "sleeping"} \cup Busy \cup Ended

Results == {"none", "complete", "cut", "failed"}

Goto(p, l) == pc' = [pc EXCEPT ![p] = l]

Init ==
  /\ test \in Tests /\ platform \in Platforms /\ do_fork \in BOOLEAN
  /\ pc = [p \in Procs |-> IF p # Root THEN "absent"
                           ELSE IF test = "simple" THEN "open" ELSE "prologue"]
  /\ file \in {<< >>, [k \in 1 .. Size + 1 |-> OLD]}
  /\ fd = [p \in Procs |-> NONE] /\ offset = [p \in Procs |-> 0]
  /\ count = [p \in Procs |-> 0] /\ rc = [p \in Procs |-> 0]
  /\ buf = [p \in Procs |-> FALSE]
  /\ requests = [p \in Procs |-> 0]
  /\ last = [by |-> NONE, result |-> "none"]
  /\ log = << >>

-----------------------------------------------------------------------------
(* The files.                                                              *)

\* n cells of p at an offset; what is skipped becomes a hole.
Written(f, off, n, p) ==
  [k \in 1 .. (IF off + n > Len(f) THEN off + n ELSE Len(f)) |->
     IF off < k /\ k =< off + n THEN p ELSE IF k =< Len(f) THEN f[k] ELSE HOLE]

\* write(): n cells, from the offset of the description on.
Write(p, n) ==
  /\ file' = IF n = 0 THEN file ELSE Written(file, offset[fd[p]], n, p)
  /\ offset' = [offset EXCEPT ![fd[p]] = @ + n]
  /\ UNCHANGED fd

\* Mutant: no O_TRUNC.
TruncatedNot == file

\* O_TRUNC, whoever else has the file open.
Truncated == << >>

Open(p, content) ==
  /\ file' = content
  /\ fd' = [fd EXCEPT ![p] = p]
  /\ offset' = [offset EXCEPT ![p] = 0]

Close(p) == fd' = [fd EXCEPT ![p] = NONE] /\ UNCHANGED << file, offset >>

\* fork() shares the description, a clone copies it.
SharedOffset == platform = "posix"

\* The process ends: its file is closed, its memory is gone.
End(p, how) ==
  /\ Goto(p, how)
  /\ Close(p)
  /\ buf' = [buf EXCEPT ![p] = FALSE]

-----------------------------------------------------------------------------
(* Both tests: server_prologue().                                          *)

\* What a member of the family does next.
AfterPrologue(p) ==
  IF test = "simple" THEN "lines"
  ELSE IF do_fork /\ p = Root THEN "sleeping" ELSE "start"

Absent == {p \in Procs : pc[p] = "absent"}

\* The children come one by one, and each goes on at once.
Fork ==
  /\ pc[Root] = "prologue" /\ do_fork
  /\ \E c \in Absent :
       /\ Goto(c, AfterPrologue(c))
       /\ IF fd[Root] = NONE THEN UNCHANGED << fd, offset >>
          ELSE /\ fd' = [fd EXCEPT ![c] = IF SharedOffset THEN fd[Root] ELSE c]
               /\ offset' = [offset EXCEPT ![c] = offset[Root]]
  /\ UNCHANGED << setup, file, locals, ghosts >>

PrologueReturns ==
  /\ pc[Root] = "prologue"
  /\ ~ do_fork \/ Absent = {}
  /\ Goto(Root, AfterPrologue(Root))
  /\ UNCHANGED << setup, files, locals, ghosts >>

PrologueFails ==
  /\ pc[Root] = "prologue"
  /\ End(Root, "stopped")
  /\ UNCHANGED << setup, count, rc, ghosts >>

-----------------------------------------------------------------------------
(* simple_test().                                                          *)

\* What was in the file stays.
OpenTest ==
  /\ pc[Root] = "open"
  /\ \/ Open(Root, file) /\ Goto(Root, "prologue") /\ UNCHANGED buf
     \/ End(Root, "stopped")
  /\ UNCHANGED << setup, count, rc, ghosts >>

\* "parent" from everyone; "child-after-fork", "parent-after-fork" or
\* "parent-without-fork" are the longer ones.
LineLength == << 1, 2 >>

\* Mutant: pwrite() to the start of the file.
WriteLineAtStart(p) ==
  /\ pc[p] = "lines" /\ count[p] < 2
  /\ LET n == LineLength[count[p] + 1]
     IN  /\ file' = Written(file, 0, n, p)
         /\ log' = log \o [k \in 1 .. n |-> p]
  /\ count' = [count EXCEPT ![p] = @ + 1]
  /\ UNCHANGED << setup, pc, fd, offset, rc, buf, requests, last >>

\* SIMPLE_TEST_WRITE_STR(): the next line, or less of it.
WriteLine(p) ==
  /\ pc[p] = "lines" /\ count[p] < 2
  /\ \E n \in 0 .. LineLength[count[p] + 1] :
       /\ Write(p, n)
       /\ log' = log \o [k \in 1 .. n |-> p]
       /\ \/ /\ n = LineLength[count[p] + 1]
             /\ count' = [count EXCEPT ![p] = @ + 1]
             /\ UNCHANGED pc
          \/ /\ n < LineLength[count[p] + 1]
             /\ Goto(p, "closing")
             /\ UNCHANGED count
  /\ UNCHANGED << setup, rc, buf, requests, last >>

\* A member that has written its lines sleeps for ever.
LinesWritten(p) ==
  /\ pc[p] = "lines" /\ count[p] = 2
  /\ Goto(p, "sleeping")
  /\ UNCHANGED << setup, files, locals, ghosts >>

OutClose(p) ==
  /\ pc[p] = "closing"
  /\ End(p, "stopped")
  /\ UNCHANGED << setup, count, rc, ghosts >>

-----------------------------------------------------------------------------
(* test_server(), run_server() and create_file_write_data().               *)

Serving == {p \in Procs : pc[p] \in {"idle"} \cup Busy}

\* Processes share the port: one of them gets it.
StartServer(p) ==
  /\ pc[p] = "start"
  /\ \/ /\ platform = "unikraft" \/ Serving = {}
        /\ Goto(p, "idle") /\ UNCHANGED << files, buf >>
     \/ End(p, "stopped")
  /\ UNCHANGED << setup, count, rc, ghosts >>

\* A request for a file, or one that ends the server.
Request(p) ==
  /\ pc[p] = "idle"
  /\ \/ /\ requests[p] < MaxRequests
        /\ requests' = [requests EXCEPT ![p] = @ + 1]
        /\ Goto(p, "create")
        /\ UNCHANGED << files, buf >>
     \/ End(p, "stopped") /\ UNCHANGED requests
  /\ UNCHANGED << setup, count, rc, last, log >>

\* Mutant: an error does not end the server.
KeepRunningAlways(p) == TRUE

\* if (rc) keep_running = 0.
KeepRunning(p) == rc[p] = 0

\* open(), then functions[wt]; malloc() for the buffer.
CreateFile(p) ==
  /\ pc[p] = "create"
  /\ \/ /\ Open(p, Truncated)
        /\ last' = [by |-> p, result |-> "none"]
        /\ count' = [count EXCEPT ![p] = 0]
        /\ \/ Goto(p, "chars") /\ UNCHANGED << rc, buf >>
           \/ Goto(p, "words") /\ UNCHANGED << rc, buf >>
           \/ /\ Goto(p, "buffer")
              /\ buf' = [buf EXCEPT ![p] = TRUE]
              /\ UNCHANGED rc
           \/ /\ Goto(p, "close")
              /\ rc' = [rc EXCEPT ![p] = -1]
              /\ UNCHANGED buf
     \/ End(p, "stopped") /\ UNCHANGED << count, rc, last >>
  /\ UNCHANGED << setup, requests, log >>

\* What the request comes to, if the file is still its own.
Conclude(p, result) ==
  last' = IF last.by = p THEN [last EXCEPT !.result = result] ELSE last

\* The function returns code: the file will be closed.
Return(p, code, result) ==
  /\ Goto(p, "close")
  /\ rc' = [rc EXCEPT ![p] = code]
  /\ Conclude(p, result)
  /\ UNCHANGED << files, count >>

\* The loop goes on after a write of n.
Advance(p, n) ==
  /\ Write(p, n)
  /\ count' = [count EXCEPT ![p] = @ + n]
  /\ UNCHANGED << pc, rc, buf, last >>

\* Mutant: the result of write() is added whatever it is.
WriteFailsUnnoticed(p) ==
  count' = [count EXCEPT ![p] = @ - 1] /\ UNCHANGED << pc, files, rc, buf, last >>

\* write() returned -1.
WriteFails(p) == Return(p, -1, "failed") /\ UNCHANGED buf

\* A write that takes nothing leaves the loop with its 0 for a result, the same
\* that means success.
WriteChars(p) ==
  /\ pc[p] = "chars"
  /\ \/ count[p] < Size /\ Advance(p, 1)
     \/ count[p] < Size /\ Return(p, 0, "cut") /\ UNCHANGED buf
     \/ count[p] < Size /\ WriteFails(p)
     \/ count[p] = Size /\ Return(p, 0, "complete") /\ UNCHANGED buf
  /\ UNCHANGED << setup, requests, log >>

\* assert(rc == sizeof(data)): a part of a word ends the process.
WriteWords(p) ==
  /\ pc[p] = "words"
  /\ \/ count[p] < Size /\ Advance(p, WordSize)
     \/ /\ count[p] < Size
        /\ \E n \in 0 .. WordSize - 1 :
             file' = IF n = 0 THEN file ELSE Written(file, offset[fd[p]], n, p)
        /\ fd' = [fd EXCEPT ![p] = NONE]
        /\ buf' = [buf EXCEPT ![p] = FALSE]
        /\ Goto(p, "aborted")
        /\ Conclude(p, "failed")
        /\ UNCHANGED << offset, count, rc >>
     \/ count[p] < Size /\ WriteFails(p)
     \/ count[p] >= Size /\ Return(p, 0, "complete") /\ UNCHANGED buf
  /\ UNCHANGED << setup, requests, log >>

\* Mutant: while (offset <= size).
WriteBufferAgain(p) ==
  /\ pc[p] = "buffer"
  /\ \/ count[p] =< Size /\ \E n \in 0 .. Size - count[p] : Advance(p, n)
     \/ count[p] =< Size /\ WriteFails(p)
     \/ /\ count[p] > Size /\ Return(p, 0, "complete")
        /\ buf' = [buf EXCEPT ![p] = FALSE]
  /\ UNCHANGED << setup, requests, log >>

\* The rest in one write, or as much of it as is taken.  Nothing frees the
\* buffer after an error.
WriteBuffer(p) ==
  /\ pc[p] = "buffer"
  /\ \/ /\ count[p] < Size
        /\ \E n \in 0 .. Size - count[p] : Advance(p, n)
     \/ count[p] < Size /\ WriteFails(p)
     \/ /\ count[p] >= Size /\ Return(p, 0, "complete")
        /\ buf' = [buf EXCEPT ![p] = FALSE]
  /\ UNCHANGED << setup, requests, log >>

\* close(), and back in the server's loop.
CloseFile(p) ==
  /\ pc[p] = "close"
  /\ \/ /\ KeepRunning(p)
        /\ Goto(p, "idle") /\ Close(p) /\ UNCHANGED buf
     \/ /\ ~ KeepRunning(p)
        /\ End(p, "stopped")
  /\ UNCHANGED << setup, count, rc, ghosts >>

-----------------------------------------------------------------------------
Step(p) ==
  \/ WriteLine(p) \/ LinesWritten(p) \/ OutClose(p)
  \/ StartServer(p) \/ CreateFile(p)
  \/ WriteChars(p) \/ WriteWords(p) \/ WriteBuffer(p) \/ CloseFile(p)

Family == OpenTest \/ Fork \/ PrologueReturns \/ PrologueFails

Next == Family \/ \E p \in Procs : Step(p) \/ Request(p)

Spec == Init /\ [][Next]_vars

\* A step other than the failure of a write, which need not happen.
Works(p) == Step(p) /\ (pc[p] \in Writing => rc'[p] = 0)

\* Every member runs.  A write that takes nothing changes nothing, so this also
\* says that writes do not take nothing for ever.
FairSpec == Spec /\ \A p \in Procs : WF_vars(Works(p))

-----------------------------------------------------------------------------
TypeOK ==
  /\ test \in Tests /\ platform \in Platforms /\ do_fork \in BOOLEAN
  /\ pc \in [Procs -> PCs]
  /\ file \in Seq(Procs \cup {OLD, HOLE})
  /\ fd \in [Procs -> Procs \cup {NONE}] /\ offset \in [Procs -> Nat]
  /\ count \in [Procs -> Nat] /\ rc \in [Procs -> {0, -1}]
  /\ buf \in [Procs -> BOOLEAN]
  /\ requests \in [Procs -> 0 .. MaxRequests]
  /\ last \in [by : Procs \cup {NONE}, result : Results]
  /\ log \in Seq(Procs)

\* Once the request of the server that truncated the file last has succeeded,
\* the file is whole: as long as asked for, with nothing old and no hole in it,
\* whatever the other servers that have it open do, or leave undone, then.  The
\* exception is a write of write_chars() that took nothing.
LastWriterLeavesAll ==
  last.result = "complete" =>
    /\ Len(file) = Size
    /\ \A k \in 1 .. Size : file[k] \notin {OLD, HOLE}

\* A server that waits for a request holds no file and no buffer: the one case
\* in which write_buffer() keeps its buffer ends the server.
IdleHoldsNothing == \A p \in Procs : pc[p] = "idle" => fd[p] = NONE /\ ~ buf[p]

\* On Linux the simple test loses nothing: the file begins with all that the
\* family wrote, in the order of the writes, though no member seeks.
NothingOverwritten ==
  test = "simple" /\ platform = "posix" =>
    Len(log) =< Len(file) /\ SubSeq(file, 1, Len(log)) = log

\* A request for a file comes to an end.
RequestsEnd == \A p \in Procs : pc[p] \in Busy ~> pc[p] \in {"idle"} \cup Ended

=============================================================================

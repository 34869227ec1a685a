-------------------------- MODULE FileWritersProofs --------------------------
(***************************************************************************)
(* files.c, for every family, size of file and number of requests: a file  *)
(* rewritten with success is whole, a server between requests holds        *)
(* nothing, and on Linux the lines of a family follow one another.         *)
(***************************************************************************)
EXTENDS FileWriters, SequenceTheorems, TLAPS

Cells == Procs \cup {OLD, HOLE}

Words(n) == \E j \in Nat : n = j * WordSize

\* Where the members of a family can be, by test.
Places ==
  /\ pc[Root] # "absent"
  /\ pc[Root] = "open" => log = << >> /\ \A p \in Kin : pc[p] = "absent"
  /\ \A p \in Procs :
       /\ pc[p] \in {"open", "prologue"} => p = Root
       /\ test = "simple" => pc[p] \in {"absent", "open", "prologue", "lines", "closing",
                                       "sleeping", "stopped"}
       /\ test = "server" => pc[p] \notin {"open", "lines", "closing"}

\* Who has the file open, and by which description; who has a buffer.
Holding ==
  \A p \in Procs :
    /\ test = "server" => fd[p] = IF pc[p] \in Writing \cup {"close"} THEN p ELSE NONE
    /\ test = "simple" => fd[p] = IF pc[p] \in {"prologue", "lines", "closing", "sleeping"}
                                   THEN IF platform = "posix" THEN Root ELSE p
                                   ELSE NONE
    /\ buf[p] => pc[p] = "buffer" \/ (pc[p] = "close" /\ rc[p] # 0)

\* How far the writers of the server test are.
Progress ==
  test = "server" =>
    \A p \in Procs :
      pc[p] \in Writing =>
        /\ offset[p] = count[p] /\ count[p] =< Size
        /\ pc[p] = "words" => Words(count[p])
        /\ last.by # NONE

\* What the one that truncated the file last has made of it.
Contents ==
  /\ test = "simple" => last.by = NONE
  /\ last.by = NONE => last.result = "none"
  /\ last.by # NONE => Len(file) =< Size /\ \A k \in 1 .. Len(file) : file[k] # OLD
  /\ \A p \in Procs :
       last.by = p /\ pc[p] \in Writing =>
         count[p] =< Len(file) /\ \A k \in 1 .. count[p] : file[k] # HOLE
  /\ last.result = "complete" =>
       Len(file) = Size /\ \A k \in 1 .. Size : file[k] # HOLE

\* Processes have one offset: the end of what they wrote.
Appended ==
  test = "simple" /\ platform = "posix" =>
    /\ offset[Root] = Len(log) /\ Len(log) =< Len(file)
    /\ \A k \in 1 .. Len(log) : file[k] = log[k]

IInv == Places /\ Holding /\ Progress /\ Contents /\ Appended

-----------------------------------------------------------------------------
(* Words and cells.                                                        *)

\* The size is a number of words.
LEMMA SizeIsWords == Words(Size)
<1>1. Size \in Nat /\ WordSize \in Nat /\ 0 < WordSize /\ Size % WordSize = 0
  BY SizeAssumption
<1>2. Size \div WordSize \in Nat /\ Size = (Size \div WordSize) * WordSize
  BY <1>1
<1> QED
  BY <1>2 DEF Words

\* After some of them there is room for one more.
LEMMA WordFits ==
  ASSUME NEW n \in Nat, n < Size, Words(n)
  PROVE  n + WordSize =< Size /\ Words(n + WordSize) /\ WordSize \in Nat
<1>1. WordSize \in Nat /\ 0 < WordSize
  BY SizeAssumption
<1>2. PICK j \in Nat : n = j * WordSize
  BY DEF Words
<1>3. PICK m \in Nat : Size = m * WordSize
  BY SizeIsWords DEF Words
<1>4. (j + 1) * WordSize = n + WordSize
  BY <1>1, <1>2
<1>5. j + 1 =< m
  <2> SUFFICES ASSUME m =< j PROVE FALSE
    OBVIOUS
  <2>1. m * WordSize =< j * WordSize
    BY <1>1
  <2> QED
    BY <1>2, <1>3, <2>1
<1>6. (j + 1) * WordSize =< m * WordSize
  BY <1>1, <1>5
<1> QED
  BY <1>1, <1>3, <1>4, <1>6 DEF Words

\* write() extends the file where it must and leaves the rest of it alone.
LEMMA WrittenCells ==
  ASSUME NEW f \in Seq(Cells), NEW off \in Nat, NEW n \in Nat, NEW p \in Procs
  PROVE  /\ Written(f, off, n, p) \in Seq(Cells)
         /\ Len(Written(f, off, n, p)) = IF off + n > Len(f) THEN off + n ELSE Len(f)
         /\ \A k \in 1 .. Len(Written(f, off, n, p)) :
              Written(f, off, n, p)[k]
                = IF off < k /\ k =< off + n THEN p ELSE IF k =< Len(f) THEN f[k] ELSE HOLE
<1> DEFINE m == IF off + n > Len(f) THEN off + n ELSE Len(f)
           w == Written(f, off, n, p)
<1>1. Len(f) \in Nat /\ m \in Nat /\ f \in [1 .. Len(f) -> Cells]
  BY LenProperties
<1>2. w = [k \in 1 .. m |-> IF off < k /\ k =< off + n THEN p
                            ELSE IF k =< Len(f) THEN f[k] ELSE HOLE]
  BY DEF Written
<1> HIDE DEF m, w
<1>3. \A k \in 1 .. m : w[k] = IF off < k /\ k =< off + n THEN p
                               ELSE IF k =< Len(f) THEN f[k] ELSE HOLE
  BY <1>2
<1>4. \A k \in 1 .. m : w[k] \in Cells
  BY <1>1, <1>3 DEF Cells
<1>5. w \in [1 .. m -> Cells]
  BY <1>2, <1>4
<1>6. w \in Seq(Cells)
  BY <1>1, <1>5, SeqDef
<1>7. Len(w) = m
  BY <1>1, <1>5, <1>6, LenProperties
<1> QED
  BY <1>3, <1>6, <1>7 DEF m, w

-----------------------------------------------------------------------------
(* Types.                                                                  *)

\* The members, the marks and the bounds are what the assumptions say.
LEMMA ConstantFacts ==
  /\ Root \in Procs /\ NONE \notin Procs /\ OLD \notin Procs /\ HOLE \notin Procs
  /\ Tests \subseteq {"simple", "server"} /\ OLD # HOLE /\ Size \in Nat /\ MaxRequests \in Nat
BY FileWritersAssumption, SizeAssumption DEF Procs

\* The family starts with every variable in its type.
LEMMA InitTypes == Init => TypeOK
<1> SUFFICES ASSUME Init PROVE TypeOK
  OBVIOUS
<1>1. file \in Seq(Cells)
  <2>1. CASE file = << >>
    BY <2>1
  <2>2. CASE file = [k \in 1 .. Size + 1 |-> OLD]
    <3>1. file \in [1 .. Size + 1 -> Cells] /\ Size + 1 \in Nat
      BY <2>2, ConstantFacts DEF Cells
    <3> QED
      BY <3>1, SeqDef
  <2> QED
    BY <2>1, <2>2 DEF Init
<1>2. requests \in [Procs -> 0 .. MaxRequests]
  BY ConstantFacts DEF Init
<1>3. pc \in [Procs -> PCs] /\ last \in [by : Procs \cup {NONE}, result : Results]
  BY DEF Init, PCs, Results
<1>4. log \in Seq(Procs)
  BY DEF Init
<1> QED
  BY <1>1, <1>2, <1>3, <1>4 DEF Init, TypeOK, Cells

\* A write() to an open file keeps the types of the files.
LEMMA WriteTypes ==
  ASSUME TypeOK, NEW p \in Procs, fd[p] \in Procs, NEW n \in Nat, Write(p, n)
  PROVE  file' \in Seq(Cells) /\ offset' \in [Procs -> Nat] /\ fd' = fd
<1>1. file \in Seq(Cells) /\ offset[fd[p]] \in Nat
  BY DEF TypeOK, Cells
<1>2. Written(file, offset[fd[p]], n, p) \in Seq(Cells)
  BY <1>1, WrittenCells
<1>3. offset' \in [Procs -> Nat]
  BY <1>1 DEF Write, TypeOK
<1> QED
  BY <1>1, <1>2, <1>3 DEF Write

\* The steps of the simple test and of the prologue keep the types.
LEMMA FamilyTypes ==
  ASSUME TypeOK, IInv,
         Family \/ \E p \in Procs : WriteLine(p) \/ LinesWritten(p) \/ OutClose(p)
  PROVE  TypeOK'
<1> USE DEF TypeOK, Cells, setup, files, locals, ghosts, PCs, Ended
<1>1. CASE OpenTest
  <2>1. CASE Open(Root, file) /\ Goto(Root, "prologue") /\ UNCHANGED buf
    BY <1>1, <2>1, ConstantFacts DEF OpenTest, Open, Goto
  <2>2. CASE End(Root, "stopped")
    BY <1>1, <2>2, ConstantFacts DEF OpenTest, End, Close, Goto
  <2> QED
    BY <1>1, <2>1, <2>2 DEF OpenTest
<1>2. CASE Fork
  <2>1. PICK c \in Absent :
          /\ Goto(c, AfterPrologue(c))
          /\ IF fd[Root] = NONE THEN UNCHANGED << fd, offset >>
             ELSE /\ fd' = [fd EXCEPT ![c] = IF SharedOffset THEN fd[Root] ELSE c]
                  /\ offset' = [offset EXCEPT ![c] = offset[Root]]
    BY <1>2 DEF Fork
  <2>2. c \in Procs /\ AfterPrologue(c) \in PCs
    BY DEF Absent, AfterPrologue
  <2>3. pc' \in [Procs -> PCs]
    BY <2>1, <2>2 DEF Goto
  <2>4. fd' \in [Procs -> Procs \cup {NONE}] /\ offset' \in [Procs -> Nat]
    <3>1. fd[Root] \in Procs \cup {NONE} /\ offset[Root] \in Nat
      BY ConstantFacts
    <3>2. CASE UNCHANGED << fd, offset >>
      BY <3>2
    <3>3. CASE /\ fd' = [fd EXCEPT ![c] = IF SharedOffset THEN fd[Root] ELSE c]
               /\ offset' = [offset EXCEPT ![c] = offset[Root]]
      BY <2>2, <3>1, <3>3
    <3> QED
      BY <2>1, <3>2, <3>3
  <2> QED
    BY <1>2, <2>3, <2>4 DEF Fork
<1>3. CASE PrologueReturns
  <2>1. AfterPrologue(Root) \in PCs
    BY DEF AfterPrologue
  <2> QED
    BY <1>3, <2>1, ConstantFacts DEF PrologueReturns, Goto
<1>4. CASE PrologueFails
  BY <1>4, ConstantFacts DEF PrologueFails, End, Close, Goto
<1>5. ASSUME NEW p \in Procs, WriteLine(p)
      PROVE  TypeOK'
  <2>1. PICK n \in 0 .. LineLength[count[p] + 1] :
          /\ Write(p, n)
          /\ log' = log \o [k \in 1 .. n |-> p]
          /\ \/ count' = [count EXCEPT ![p] = @ + 1] /\ UNCHANGED pc
             \/ Goto(p, "closing") /\ UNCHANGED count
    BY <1>5 DEF WriteLine
  <2>2. fd[p] \in Procs
    <3>1. test \in {"simple", "server"} /\ p \in Procs /\ pc[p] = "lines"
      BY <1>5, ConstantFacts DEF WriteLine
    <3>2. test = "simple"
      BY <3>1 DEF IInv, Places
    <3>3. fd[p] = IF platform = "posix" THEN Root ELSE p
      BY <3>1, <3>2 DEF IInv, Holding
    <3> QED
      BY <3>1, <3>3, ConstantFacts
  <2>3. n \in Nat
    OBVIOUS
  <2>4. file' \in Seq(Cells) /\ offset' \in [Procs -> Nat] /\ fd' = fd
    BY <2>1, <2>2, <2>3, WriteTypes
  <2>5. [k \in 1 .. n |-> p] \in Seq(Procs)
    <3>1. [k \in 1 .. n |-> p] \in [1 .. n -> Procs]
      OBVIOUS
    <3> QED
      BY <2>3, <3>1, SeqDef
  <2>6. log' \in Seq(Procs)
    BY <2>1, <2>5, ConcatProperties
  <2>7. count' \in [Procs -> Nat] /\ pc' \in [Procs -> PCs]
    <3>1. CASE count' = [count EXCEPT ![p] = @ + 1] /\ UNCHANGED pc
      BY <3>1
    <3>2. CASE Goto(p, "closing") /\ UNCHANGED count
      BY <3>2 DEF Goto
    <3> QED
      BY <2>1, <3>1, <3>2
  <2> QED
    BY <1>5, <2>4, <2>6, <2>7 DEF WriteLine
<1>6. ASSUME NEW p \in Procs, LinesWritten(p) \/ OutClose(p)
      PROVE  TypeOK'
  BY <1>6 DEF LinesWritten, OutClose, End, Close, Goto
<1> QED
  BY <1>1, <1>2, <1>3, <1>4, <1>5, <1>6 DEF Family

\* And the steps of the server.
LEMMA ServerTypes ==
  ASSUME TypeOK, IInv, NEW p \in Procs,
         \/ StartServer(p) \/ Request(p) \/ CreateFile(p) \/ CloseFile(p)
         \/ WriteChars(p) \/ WriteWords(p) \/ WriteBuffer(p)
  PROVE  TypeOK'
<1> USE DEF TypeOK, Cells, setup, files, locals, ghosts, PCs, Ended, Busy, Writing,
        Results
<1>1. CASE StartServer(p)
  BY <1>1 DEF StartServer, End, Close, Goto
<1>2. CASE Request(p)
  <2>1. requests' \in [Procs -> 0 .. MaxRequests]
    <3>1. CASE requests[p] < MaxRequests /\ requests' = [requests EXCEPT ![p] = @ + 1]
      <4>1. requests[p] + 1 \in 0 .. MaxRequests
        BY <3>1, ConstantFacts
      <4> QED
        BY <3>1, <4>1
    <3> QED
      BY <1>2, <3>1 DEF Request
  <2> QED
    BY <1>2, <2>1 DEF Request, End, Close, Goto
<1>3. CASE CreateFile(p)
  <2>1. CASE End(p, "stopped") /\ UNCHANGED << count, rc, last >>
    BY <1>3, <2>1 DEF CreateFile, End, Close, Goto
  <2>2. CASE /\ Open(p, Truncated)
             /\ last' = [by |-> p, result |-> "none"]
             /\ count' = [count EXCEPT ![p] = 0]
             /\ \/ Goto(p, "chars") /\ UNCHANGED << rc, buf >>
                \/ Goto(p, "words") /\ UNCHANGED << rc, buf >>
                \/ /\ Goto(p, "buffer")
                   /\ buf' = [buf EXCEPT ![p] = TRUE]
                   /\ UNCHANGED rc
                \/ /\ Goto(p, "close")
                   /\ rc' = [rc EXCEPT ![p] = -1]
                   /\ UNCHANGED buf
    <3>1. /\ file' \in Seq(Cells) /\ fd' \in [Procs -> Procs \cup {NONE}]
          /\ offset' \in [Procs -> Nat]
      BY <2>2 DEF Open, Truncated
    <3>2. /\ pc' \in [Procs -> PCs] /\ rc' \in [Procs -> {0, -1}]
          /\ buf' \in [Procs -> BOOLEAN] /\ count' \in [Procs -> Nat]
          /\ last' \in [by : Procs \cup {NONE}, result : Results]
      BY <2>2 DEF Goto
    <3> QED
      BY <1>3, <3>1, <3>2 DEF CreateFile
  <2> QED
    BY <1>3, <2>1, <2>2 DEF CreateFile
<1>4. CASE CloseFile(p)
  BY <1>4 DEF CloseFile, End, Close, Goto
<1>5. ASSUME NEW r \in Results, Conclude(p, r)
      PROVE  last' \in [by : Procs \cup {NONE}, result : Results]
  BY <1>5 DEF Conclude
<1>6. ASSUME NEW r \in Results, NEW code \in {0, -1}, Return(p, code, r),
             UNCHANGED << setup, requests, log >>, buf' \in [Procs -> BOOLEAN]
      PROVE  TypeOK'
  BY <1>5, <1>6 DEF Return, Goto
<1>7. ASSUME NEW n \in Nat, Advance(p, n), UNCHANGED << setup, requests, log >>,
             pc[p] \in Writing
      PROVE  TypeOK'
  <2>1. fd[p] \in Procs
    BY <1>7, ConstantFacts DEF IInv, Holding, Places
  <2>2. file' \in Seq(Cells) /\ offset' \in [Procs -> Nat] /\ fd' = fd
    BY <1>7, <2>1, WriteTypes DEF Advance
  <2>3. count' \in [Procs -> Nat]
    BY <1>7 DEF Advance
  <2> QED
    BY <1>7, <2>2, <2>3 DEF Advance
<1>8. CASE WriteChars(p)
  BY <1>6, <1>7, <1>8 DEF WriteChars, WriteFails
<1>9. CASE WriteBuffer(p)
  <2>1. \A n \in 0 .. Size - count[p] : n \in Nat
    OBVIOUS
  <2> QED
    BY <1>6, <1>7, <1>9, <2>1 DEF WriteBuffer, WriteFails
<1>10. CASE WriteWords(p)
  <2>1. CASE Advance(p, WordSize)
    BY <1>7, <1>10, <2>1, SizeAssumption DEF WriteWords
  <2>2. CASE /\ \E n \in 0 .. WordSize - 1 :
                  file' = IF n = 0 THEN file ELSE Written(file, offset[fd[p]], n, p)
             /\ fd' = [fd EXCEPT ![p] = NONE]
             /\ buf' = [buf EXCEPT ![p] = FALSE]
             /\ Goto(p, "aborted")
             /\ Conclude(p, "failed")
             /\ UNCHANGED << offset, count, rc >>
    <3>1. file' \in Seq(Cells)
      <4>1. PICK n \in 0 .. WordSize - 1 :
              file' = IF n = 0 THEN file ELSE Written(file, offset[fd[p]], n, p)
        BY <2>2
      <4>2. fd[p] \in Procs
        BY <1>10, ConstantFacts DEF WriteWords, IInv, Holding, Places
      <4>3. n \in Nat /\ offset[fd[p]] \in Nat
        BY <4>2
      <4> QED
        BY <4>1, <4>3, WrittenCells
    <3>2. last' \in [by : Procs \cup {NONE}, result : Results]
      BY <1>5, <2>2
    <3>3. pc' \in [Procs -> PCs]
      BY <2>2 DEF Goto
    <3> QED
      BY <1>10, <2>2, <3>1, <3>2, <3>3 DEF WriteWords
  <2>3. CASE WriteFails(p)
    BY <1>6, <1>10, <2>3 DEF WriteFails, WriteWords
  <2>4. CASE Return(p, 0, "complete") /\ UNCHANGED buf
    BY <1>6, <1>10, <2>4 DEF WriteWords
  <2> QED
    BY <1>10, <2>1, <2>2, <2>3, <2>4 DEF WriteWords
<1> QED
  BY <1>1, <1>2, <1>3, <1>4, <1>8, <1>9, <1>10

-----------------------------------------------------------------------------
(* The invariant.                                                          *)

\* It holds of the family as it starts.
LEMMA InitInv == Init => IInv
<1> SUFFICES ASSUME Init PROVE IInv
  OBVIOUS
<1>1. Root \in Procs /\ Root \notin Kin /\ Procs = {Root} \cup Kin
  BY FileWritersAssumption DEF Procs
<1>2. test \in {"simple", "server"}
  BY ConstantFacts DEF Init
<1>3. Places
  BY <1>1, <1>2 DEF Init, Places
<1>4. Holding
  BY <1>1, <1>2 DEF Init, Holding, Writing
<1>5. Progress
  BY <1>1, <1>2 DEF Init, Progress, Writing
<1>6. Contents
  BY <1>1, <1>2, ConstantFacts DEF Init, Contents, Writing
<1>7. Appended
  <2>1. log = << >> /\ offset[Root] = 0 /\ Len(file) \in Nat
    BY <1>1, InitTypes, LenProperties DEF Init, TypeOK
  <2> QED
    BY <2>1 DEF Appended
<1> QED
  BY <1>3, <1>4, <1>5, <1>6, <1>7 DEF IInv

\* Every step leaves the members where they can be.
LEMMA PlacesStep ==
  ASSUME TypeOK, Places, Next
  PROVE  Places'
<1>1. Root \in Procs /\ Root \notin Kin /\ Procs = {Root} \cup Kin
  BY FileWritersAssumption DEF Procs
<1>2. test \in {"simple", "server"} /\ pc \in [Procs -> PCs]
  BY ConstantFacts DEF TypeOK
<1>3. CASE OpenTest
  BY <1>1, <1>2, <1>3 DEF OpenTest, End, Goto, Places, setup, ghosts
<1>4. CASE Fork
  BY <1>1, <1>2, <1>4 DEF Fork, Absent, AfterPrologue, Goto, Places, setup, ghosts
<1>5. CASE PrologueReturns
  BY <1>1, <1>2, <1>5 DEF PrologueReturns, AfterPrologue, Goto, Places, setup, ghosts
<1>6. CASE PrologueFails
  BY <1>1, <1>2, <1>6 DEF PrologueFails, End, Goto, Places, setup, ghosts
<1>7. ASSUME NEW p \in Procs, WriteLine(p)
      PROVE  Places'
  <2>1. pc[p] = "lines" /\ test' = test /\ (pc' = pc \/ pc' = [pc EXCEPT ![p] = "closing"])
    BY <1>7 DEF WriteLine, Goto, setup
  <2>2. pc[Root] # "open"
    BY <1>1, <2>1 DEF Places
  <2> QED
    BY <1>1, <1>2, <2>1, <2>2 DEF Places
<1>8. ASSUME NEW p \in Procs, LinesWritten(p) \/ OutClose(p)
      PROVE  Places'
  BY <1>1, <1>2, <1>8 DEF LinesWritten, OutClose, End, Goto, Places, setup, ghosts
<1>9. ASSUME NEW p \in Procs, NEW l \in {"idle", "create", "close", "stopped", "aborted"} \cup Writing,
             pc[p] \notin {"absent", "open", "prologue", "lines", "closing"}, test = "server",
             UNCHANGED test, pc' = pc \/ Goto(p, l)
      PROVE  Places'
  BY <1>1, <1>2, <1>9 DEF Goto, Places, Writing
<1>10. ASSUME NEW p \in Procs, StartServer(p) \/ Request(p) \/ CloseFile(p) \/ CreateFile(p)
       PROVE  Places'
  <2>1. /\ pc[p] \in {"start", "idle", "close", "create"} /\ UNCHANGED test
        /\ \E l \in {"idle", "create", "close", "stopped"} \cup Writing : Goto(p, l)
    BY <1>10 DEF StartServer, Request, CloseFile, CreateFile, End, setup, Writing
  <2> QED
    BY <1>2, <1>9, <2>1 DEF Places
<1>11. ASSUME NEW p \in Procs, WriteChars(p) \/ WriteWords(p) \/ WriteBuffer(p)
       PROVE  Places'
  <2>1. /\ pc[p] \in Writing /\ UNCHANGED test
        /\ pc' = pc \/ \E l \in {"close", "aborted"} : Goto(p, l)
    BY <1>11 DEF WriteChars, WriteWords, WriteBuffer, WriteFails, Advance, Return, setup, Writing
  <2> QED
    BY <1>2, <1>9, <2>1 DEF Places, Writing
<1> QED
  BY <1>3, <1>4, <1>5, <1>6, <1>7, <1>8, <1>10, <1>11 DEF Next, Family, Step

\* A step of one member leaves what the others hold alone, if it leaves theirs.
LEMMA HoldingStep ==
  ASSUME TypeOK, Places, Holding, Next
  PROVE  Holding'
<1>1. Root \in Procs /\ Root \notin Kin /\ Procs = {Root} \cup Kin /\ NONE \notin Procs
  BY FileWritersAssumption DEF Procs
<1>2. /\ test \in {"simple", "server"} /\ pc \in [Procs -> PCs]
      /\ fd \in [Procs -> Procs \cup {NONE}] /\ buf \in [Procs -> BOOLEAN]
      /\ rc \in [Procs -> {0, -1}]
  BY ConstantFacts DEF TypeOK
<1> USE DEF Goto, setup, files, locals, ghosts
<1>3. CASE OpenTest
  BY <1>1, <1>2, <1>3 DEF OpenTest, Open, End, Close, Holding, Places, Writing
<1>4. CASE Fork
  <2>1. PICK c \in Absent :
          /\ pc' = [pc EXCEPT ![c] = AfterPrologue(c)]
          /\ IF fd[Root] = NONE THEN UNCHANGED << fd, offset >>
             ELSE /\ fd' = [fd EXCEPT ![c] = IF SharedOffset THEN fd[Root] ELSE c]
                  /\ offset' = [offset EXCEPT ![c] = offset[Root]]
    BY <1>4 DEF Fork
  <2>2. c \in Procs /\ pc[c] = "absent" /\ c # Root /\ pc[Root] = "prologue"
    BY <1>4 DEF Fork, Absent
  <2>3. UNCHANGED << test, platform, buf, rc >>
    BY <1>4 DEF Fork
  <2>4. CASE test = "server"
    <3>1. fd' = fd
      BY <1>1, <2>1, <2>2, <2>4 DEF Holding, Writing
    <3>2. AfterPrologue(c) = "start"
      BY <2>2, <2>4 DEF AfterPrologue
    <3> QED
      BY <1>2, <2>1, <2>2, <2>3, <2>4, <3>1, <3>2 DEF Holding, Writing
  <2>5. CASE test = "simple"
    <3>1. fd[Root] = Root
      BY <1>1, <2>2, <2>5 DEF Holding
    <3>2. fd' = [fd EXCEPT ![c] = IF platform = "posix" THEN Root ELSE c]
      BY <1>1, <2>1, <3>1 DEF SharedOffset
    <3>3. AfterPrologue(c) = "lines"
      BY <2>5 DEF AfterPrologue
    <3> QED
      BY <1>2, <2>1, <2>2, <2>3, <2>5, <3>2, <3>3 DEF Holding
  <2> QED
    BY <1>2, <2>4, <2>5
<1>5. CASE PrologueReturns
  BY <1>1, <1>2, <1>5 DEF PrologueReturns, AfterPrologue, Holding, Writing
<1>6. CASE PrologueFails
  BY <1>1, <1>2, <1>6 DEF PrologueFails, End, Close, Holding, Writing
<1>7. ASSUME NEW p \in Procs, WriteLine(p)
      PROVE  Holding'
  <2>1. /\ pc[p] = "lines" /\ UNCHANGED << test, platform, buf, rc, fd >>
        /\ pc' = pc \/ pc' = [pc EXCEPT ![p] = "closing"]
    BY <1>7 DEF WriteLine, Write
  <2> QED
    BY <1>1, <1>2, <2>1 DEF Holding, Places, Writing
<1>8. ASSUME NEW p \in Procs, LinesWritten(p) \/ OutClose(p)
      PROVE  Holding'
  BY <1>1, <1>2, <1>8 DEF LinesWritten, OutClose, End, Close, Holding, Places, Writing
<1>9. ASSUME NEW p \in Procs, StartServer(p) \/ Request(p) \/ CloseFile(p)
      PROVE  Holding'
  <2>1. test = "server"
    BY <1>2, <1>9 DEF StartServer, Request, CloseFile, Places
  <2> QED
    BY <1>1, <1>2, <1>9, <2>1
       DEF StartServer, Request, CloseFile, KeepRunning, End, Close, Holding, Writing
<1>10. ASSUME NEW p \in Procs, CreateFile(p)
       PROVE  Holding'
  <2>1. test = "server" /\ pc[p] = "create" /\ test' = test
    BY <1>2, <1>10 DEF CreateFile, Places
  <2> QED
    BY <1>1, <1>2, <1>10, <2>1 DEF CreateFile, Open, End, Close, Holding, Writing
<1>11. ASSUME NEW p \in Procs, WriteChars(p) \/ WriteWords(p) \/ WriteBuffer(p)
       PROVE  Holding'
  <2>1. test = "server" /\ pc[p] \in Writing /\ test' = test
    BY <1>2, <1>11 DEF WriteChars, WriteWords, WriteBuffer, Places, Writing
  <2>2. \/ UNCHANGED << pc, fd, rc, buf >>
        \/ /\ pc' = [pc EXCEPT ![p] = "close"] /\ fd' = fd
           /\ rc' = [rc EXCEPT ![p] = 0] /\ pc[p] # "buffer" /\ buf' = buf
        \/ /\ pc' = [pc EXCEPT ![p] = "close"] /\ fd' = fd
           /\ rc' = [rc EXCEPT ![p] = 0] /\ buf' = [buf EXCEPT ![p] = FALSE]
        \/ /\ pc' = [pc EXCEPT ![p] = "close"] /\ fd' = fd
           /\ rc' = [rc EXCEPT ![p] = -1] /\ buf' = buf
        \/ /\ pc' = [pc EXCEPT ![p] = "aborted"] /\ fd' = [fd EXCEPT ![p] = NONE]
           /\ rc' = rc /\ buf' = [buf EXCEPT ![p] = FALSE]
    BY <1>11 DEF WriteChars, WriteWords, WriteBuffer, WriteFails, Advance, Write, Return
  <2> QED
    BY <1>1, <1>2, <2>1, <2>2 DEF Holding, Writing
<1> QED
  BY <1>3, <1>4, <1>5, <1>6, <1>7, <1>8, <1>9, <1>10, <1>11 DEF Next, Family, Step

-----------------------------------------------------------------------------
(* What the three writers do, each in its own way.                         *)

\* n cells more, as far as the request goes.
Extends(p, n) ==
  /\ n \in Nat /\ count[p] + n =< Size
  /\ file' = IF n = 0 THEN file ELSE Written(file, count[p], n, p)

Advances(p) ==
  /\ \E n \in Nat :
       /\ Extends(p, n)
       /\ pc[p] = "words" => Words(count[p] + n)
       /\ offset' = [offset EXCEPT ![p] = count[p] + n]
       /\ count' = [count EXCEPT ![p] = count[p] + n]
  /\ UNCHANGED << pc, last >>

Returns(p) ==
  /\ \E r \in {"complete", "cut", "failed"} :
       /\ r = "complete" => count[p] = Size
       /\ Conclude(p, r)
  /\ Goto(p, "close")
  /\ UNCHANGED << file, offset, count >>

Aborts(p) ==
  /\ \E n \in Nat : Extends(p, n)
  /\ Conclude(p, "failed")
  /\ Goto(p, "aborted")
  /\ UNCHANGED << offset, count >>

\* Every step of a writer is one of these.
LEMMA WritersDo ==
  ASSUME TypeOK, Places, Holding, Progress, NEW p \in Procs,
         WriteChars(p) \/ WriteWords(p) \/ WriteBuffer(p)
  PROVE  /\ test = "server" /\ pc[p] \in Writing
         /\ UNCHANGED << test, platform, log >>
         /\ Advances(p) \/ Returns(p) \/ Aborts(p)
<1>1. /\ test = "server" /\ pc[p] \in Writing /\ UNCHANGED << test, platform, log >>
  <2>1. test \in {"simple", "server"}
    BY ConstantFacts DEF TypeOK
  <2> QED
    BY <2>1 DEF WriteChars, WriteWords, WriteBuffer, Places, Writing, setup
<1> SUFFICES Advances(p) \/ Returns(p) \/ Aborts(p)
  BY <1>1
<1>2. /\ fd[p] = p /\ offset[p] = count[p] /\ count[p] \in Nat /\ count[p] =< Size
      /\ pc[p] = "words" => Words(count[p])
  BY <1>1 DEF Holding, Progress, TypeOK
<1>3. Size \in Nat /\ WordSize \in Nat \ {0}
  BY SizeAssumption
<1>4. ASSUME NEW n \in Nat, Advance(p, n), count[p] + n =< Size,
             pc[p] = "words" => Words(count[p] + n)
      PROVE  Advances(p)
  <2>1. Extends(p, n)
    BY <1>2, <1>4 DEF Extends, Advance, Write
  <2>2. /\ offset' = [offset EXCEPT ![p] = count[p] + n]
        /\ count' = [count EXCEPT ![p] = count[p] + n]
        /\ UNCHANGED << pc, last >>
    BY <1>2, <1>4 DEF Advance, Write
  <2> QED
    BY <1>4, <2>1, <2>2 DEF Advances
<1>5. ASSUME NEW code, NEW r \in {"complete", "cut", "failed"}, Return(p, code, r),
             r = "complete" => count[p] = Size
      PROVE  Returns(p)
  BY <1>5 DEF Returns, Return, files
<1>6. CASE WriteChars(p)
  <2>1. CASE count[p] < Size /\ Advance(p, 1)
    <3>1. pc[p] # "words" /\ count[p] + 1 =< Size
      BY <1>2, <1>3, <1>6, <2>1 DEF WriteChars
    <3> QED
      BY <1>4, <2>1, <3>1
  <2>2. CASE Return(p, 0, "cut")
    BY <1>5, <2>2
  <2>3. CASE WriteFails(p)
    BY <1>5, <2>3 DEF WriteFails
  <2>4. CASE count[p] = Size /\ Return(p, 0, "complete")
    BY <1>5, <2>4
  <2> QED
    BY <1>1, <1>6, <2>1, <2>2, <2>3, <2>4 DEF WriteChars
<1>7. CASE WriteWords(p)
  <2>1. pc[p] = "words"
    BY <1>7 DEF WriteWords
  <2>2. CASE count[p] < Size /\ Advance(p, WordSize)
    BY <1>2, <1>4, <2>1, <2>2, WordFits
  <2>3. CASE /\ count[p] < Size
             /\ \E n \in 0 .. WordSize - 1 :
                  file' = IF n = 0 THEN file ELSE Written(file, offset[fd[p]], n, p)
             /\ Goto(p, "aborted")
             /\ Conclude(p, "failed")
             /\ UNCHANGED << offset, count, rc >>
    <3>1. PICK n \in 0 .. WordSize - 1 :
            file' = IF n = 0 THEN file ELSE Written(file, offset[fd[p]], n, p)
      BY <2>3
    <3>2. count[p] + WordSize =< Size
      BY <1>2, <2>1, <2>3, WordFits
    <3>3. n \in Nat /\ count[p] + n =< Size
      BY <1>2, <1>3, <3>2
    <3>4. Extends(p, n)
      BY <1>2, <3>1, <3>3 DEF Extends
    <3> QED
      BY <2>3, <3>3, <3>4 DEF Aborts
  <2>4. CASE WriteFails(p)
    BY <1>5, <2>4 DEF WriteFails
  <2>5. CASE count[p] >= Size /\ Return(p, 0, "complete")
    <3>1. count[p] = Size
      BY <1>2, <1>3, <2>5
    <3> QED
      BY <1>5, <2>5, <3>1
  <2> QED
    BY <1>1, <1>7, <2>2, <2>3, <2>4, <2>5 DEF WriteWords
<1>8. CASE WriteBuffer(p)
  <2>1. ASSUME NEW n \in 0 .. Size - count[p], Advance(p, n), count[p] < Size
        PROVE  Advances(p)
    <3>1. n \in Nat /\ count[p] + n =< Size /\ pc[p] # "words"
      BY <1>2, <1>3, <1>8, <2>1 DEF WriteBuffer
    <3> QED
      BY <1>4, <2>1, <3>1
  <2>2. CASE WriteFails(p)
    BY <1>5, <2>2 DEF WriteFails
  <2>3. CASE count[p] >= Size /\ Return(p, 0, "complete")
    <3>1. count[p] = Size
      BY <1>2, <1>3, <2>3
    <3> QED
      BY <1>5, <2>3, <3>1
  <2> QED
    BY <1>1, <1>8, <2>1, <2>2, <2>3 DEF WriteBuffer
<1> QED
  BY <1>1, <1>6, <1>7, <1>8

\* The steps that neither write, open nor conclude: the writers stay as they are.
Idles ==
  /\ UNCHANGED << test, file, count, last >>
  /\ \A p \in Procs : pc'[p] \in Writing => pc'[p] = pc[p] /\ offset'[p] = offset[p]

\* A step is of a writer, truncates, writes a line or is none of these.
LEMMA Steps ==
  ASSUME TypeOK, Places, Next
  PROVE  \/ Idles
         \/ \E p \in Procs : WriteLine(p)
         \/ \E p \in Procs : CreateFile(p) /\ Open(p, << >>)
         \/ \E p \in Procs : WriteChars(p) \/ WriteWords(p) \/ WriteBuffer(p)
<1>1. Root \in Procs /\ pc \in [Procs -> PCs] /\ offset \in [Procs -> Nat]
  BY ConstantFacts DEF TypeOK
<1> USE DEF Goto, setup, files, locals, ghosts, Writing
<1>2. CASE OpenTest
  BY <1>1, <1>2 DEF OpenTest, Open, End, Close, Idles
<1>3. CASE Fork
  <2>1. PICK c \in Absent : pc' = [pc EXCEPT ![c] = AfterPrologue(c)]
                            /\ (offset' = offset \/ offset' = [offset EXCEPT ![c] = offset[Root]])
    BY <1>3 DEF Fork
  <2>2. AfterPrologue(c) \notin Writing
    BY DEF AfterPrologue
  <2> QED
    BY <1>1, <1>3, <2>1, <2>2 DEF Fork, Idles
<1>4. CASE PrologueReturns \/ PrologueFails
  BY <1>1, <1>4 DEF PrologueReturns, PrologueFails, AfterPrologue, End, Close, Idles
<1>5. ASSUME NEW p \in Procs,
             LinesWritten(p) \/ OutClose(p) \/ StartServer(p) \/ Request(p) \/ CloseFile(p)
      PROVE  Idles
  BY <1>1, <1>5 DEF LinesWritten, OutClose, StartServer, Request, CloseFile, End, Close, Idles
<1>6. ASSUME NEW p \in Procs, CreateFile(p)
      PROVE  Idles \/ Open(p, << >>)
  BY <1>1, <1>6 DEF CreateFile, Truncated, End, Close, Idles
<1> QED
  BY <1>2, <1>3, <1>4, <1>5, <1>6 DEF Next, Family, Step

\* What opening the file does.
LEMMA Opens ==
  ASSUME NEW p \in Procs, CreateFile(p), Open(p, << >>), TypeOK
  PROVE  /\ UNCHANGED << test, log >>
         /\ file' = << >> /\ offset' = [offset EXCEPT ![p] = 0]
         /\ last' = [by |-> p, result |-> "none"]
         /\ count' = [count EXCEPT ![p] = 0]
         /\ pc[p] = "create" /\ \E l \in Writing \cup {"close"} : Goto(p, l)
<1>1. fd'[p] = p /\ p # NONE
  BY ConstantFacts DEF Open, TypeOK
<1>2. ~ End(p, "stopped")
  BY <1>1 DEF End, Close, TypeOK
<1> QED
  BY <1>2 DEF CreateFile, Open, Goto, Writing, setup

-----------------------------------------------------------------------------
(* Its other parts.                                                        *)

\* How far the writers are.
LEMMA ProgressStep ==
  ASSUME TypeOK, Places, Holding, Progress, Next
  PROVE  Progress'
<1>1. /\ test \in {"simple", "server"} /\ pc \in [Procs -> PCs] /\ count \in [Procs -> Nat]
      /\ offset \in [Procs -> Nat] /\ Size \in Nat /\ WordSize \in Nat /\ NONE \notin Procs
  BY ConstantFacts, SizeAssumption DEF TypeOK
<1>2. CASE Idles
  BY <1>1, <1>2 DEF Idles, Progress
<1>3. ASSUME NEW p \in Procs, WriteLine(p)
      PROVE  Progress'
  <2>1. test' # "server"
    BY <1>1, <1>3 DEF WriteLine, Places, setup
  <2> QED
    BY <2>1 DEF Progress
<1>4. ASSUME NEW p \in Procs, CreateFile(p), Open(p, << >>)
      PROVE  Progress'
  <2>1. Words(0)
    BY <1>1 DEF Words
  <2>2. /\ test' = test /\ offset' = [offset EXCEPT ![p] = 0]
        /\ last'.by = p /\ count' = [count EXCEPT ![p] = 0]
        /\ \E l \in Writing \cup {"close"} : pc' = [pc EXCEPT ![p] = l]
    BY <1>4, Opens DEF Goto
  <2> QED
    BY <1>1, <2>1, <2>2 DEF Progress
<1>5. ASSUME NEW p \in Procs, WriteChars(p) \/ WriteWords(p) \/ WriteBuffer(p)
      PROVE  Progress'
  <2>1. /\ test' = "server" /\ test = "server" /\ pc[p] \in Writing
        /\ Advances(p) \/ Returns(p) \/ Aborts(p)
    BY <1>5, WritersDo
  <2>2. CASE Advances(p)
    BY <1>1, <2>1, <2>2 DEF Advances, Extends, Progress
  <2>3. CASE Returns(p) \/ Aborts(p)
    <3>1. /\ last'.by = last.by /\ UNCHANGED << offset, count >>
          /\ pc' = [pc EXCEPT ![p] = "close"] \/ pc' = [pc EXCEPT ![p] = "aborted"]
      BY <2>3 DEF Returns, Aborts, Conclude, Goto, TypeOK
    <3> QED
      BY <1>1, <2>1, <3>1 DEF Progress, Writing
  <2> QED
    BY <2>1, <2>2, <2>3
<1> QED
  BY <1>2, <1>3, <1>4, <1>5, Steps

\* A write by one of the writers leaves no old cell, and holes only beyond what
\* each writer has written.
LEMMA ExtendsContents ==
  ASSUME TypeOK, Contents, Progress, test = "server", last.by # NONE,
         NEW p \in Procs, NEW n, Extends(p, n)
  PROVE  /\ file' \in Seq(Cells) /\ Len(file') =< Size /\ Len(file) =< Len(file')
         /\ n # 0 => count[p] + n =< Len(file')
         /\ \A k \in 1 .. Len(file') : file'[k] # OLD
         /\ \A k \in 1 .. Len(file) : file[k] # HOLE => file'[k] # HOLE
         /\ \A k \in 1 .. Len(file') : count[p] < k /\ k =< count[p] + n => file'[k] # HOLE
<1>1. /\ file \in Seq(Cells) /\ Len(file) \in Nat /\ count[p] \in Nat /\ Size \in Nat
      /\ n \in Nat /\ count[p] + n =< Size /\ p # OLD /\ p # HOLE /\ OLD # HOLE
  BY ConstantFacts, LenProperties DEF TypeOK, Cells, Extends
<1>2. Len(file) =< Size /\ \A k \in 1 .. Len(file) : file[k] # OLD
  BY DEF Contents
<1>3. CASE n = 0
  BY <1>1, <1>2, <1>3 DEF Extends
<1>4. CASE n # 0
  <2>1. file' = Written(file, count[p], n, p)
    BY <1>4 DEF Extends
  <2>2. /\ file' \in Seq(Cells)
        /\ Len(file') = IF count[p] + n > Len(file) THEN count[p] + n ELSE Len(file)
        /\ \A k \in 1 .. Len(file') :
             file'[k] = IF count[p] < k /\ k =< count[p] + n THEN p
                        ELSE IF k =< Len(file) THEN file[k] ELSE HOLE
    BY <1>1, <2>1, WrittenCells
  <2>3. Len(file') \in Nat
    BY <1>1, <2>2
  <2>4. Len(file') =< Size /\ Len(file) =< Len(file') /\ count[p] + n =< Len(file')
    BY <1>1, <1>2, <2>2
  <2>5. \A k \in 1 .. Len(file') : file'[k] # OLD
    BY <1>1, <1>2, <2>2, <2>3
  <2>6. \A k \in 1 .. Len(file) : file[k] # HOLE => file'[k] # HOLE
    BY <1>1, <2>2, <2>3, <2>4
  <2>7. \A k \in 1 .. Len(file') : count[p] < k /\ k =< count[p] + n => file'[k] # HOLE
    BY <1>1, <2>2
  <2> QED
    BY <2>2, <2>4, <2>5, <2>6, <2>7
<1> QED
  BY <1>3, <1>4

\* What the file of the last one that truncated it holds.
LEMMA ContentsStep ==
  ASSUME TypeOK, Places, Holding, Progress, Contents, Next
  PROVE  Contents'
<1>1. /\ test \in {"simple", "server"} /\ pc \in [Procs -> PCs] /\ count \in [Procs -> Nat]
      /\ file \in Seq(Cells) /\ Size \in Nat /\ NONE \notin Procs
      /\ last \in [by : Procs \cup {NONE}, result : Results]
  BY ConstantFacts DEF TypeOK, Cells
<1>2. Len(file) \in Nat
  BY <1>1, LenProperties
<1>3. CASE Idles
  BY <1>1, <1>3 DEF Idles, Contents
<1>4. ASSUME NEW p \in Procs, WriteLine(p)
      PROVE  Contents'
  <2>1. test = "simple" /\ UNCHANGED << test, last >>
    BY <1>1, <1>4 DEF WriteLine, Places, setup
  <2> QED
    BY <1>1, <2>1 DEF Contents
<1>5. ASSUME NEW p \in Procs, CreateFile(p), Open(p, << >>)
      PROVE  Contents'
  <2>1. /\ test' = test /\ test = "server" /\ file' = << >> /\ Len(<< >>) = 0
        /\ last'.by = p /\ last'.result = "none" /\ count' = [count EXCEPT ![p] = 0]
    <3>1. /\ test' = test /\ file' = << >> /\ pc[p] = "create"
          /\ last' = [by |-> p, result |-> "none"] /\ count' = [count EXCEPT ![p] = 0]
      BY <1>5, Opens
    <3>2. test = "server"
      BY <1>1, <3>1 DEF Places
    <3> QED
      BY <3>1, <3>2
  <2> QED
    BY <1>1, <2>1 DEF Contents
<1>6. ASSUME NEW p \in Procs, WriteChars(p) \/ WriteWords(p) \/ WriteBuffer(p)
      PROVE  Contents'
  <2>1. /\ test' = test /\ test = "server" /\ pc[p] \in Writing
        /\ Advances(p) \/ Returns(p) \/ Aborts(p)
    BY <1>6, WritersDo
  <2>2. last.by # NONE /\ \A q \in Procs : pc[q] \in Writing => count[q] =< Size
    BY <2>1 DEF Progress
  <2>3. CASE Advances(p)
    <3>1. PICK n \in Nat :
            Extends(p, n) /\ count' = [count EXCEPT ![p] = count[p] + n]
      BY <2>3 DEF Advances
    <3>2. UNCHANGED << pc, last >>
      BY <2>3 DEF Advances
    <3>3. /\ Len(file') \in Nat /\ Len(file') =< Size /\ Len(file) =< Len(file')
          /\ n # 0 => count[p] + n =< Len(file')
          /\ \A k \in 1 .. Len(file') : file'[k] # OLD
          /\ \A k \in 1 .. Len(file) : file[k] # HOLE => file'[k] # HOLE
          /\ \A k \in 1 .. Len(file') : count[p] < k /\ k =< count[p] + n => file'[k] # HOLE
      BY <2>1, <2>2, <3>1, ExtendsContents, LenProperties
    <3>4. ASSUME NEW q \in Procs, last.by = q, pc[q] \in Writing
          PROVE  count'[q] =< Len(file') /\ \A k \in 1 .. count'[q] : file'[k] # HOLE
      <4>1. count[q] =< Len(file) /\ \A k \in 1 .. count[q] : file[k] # HOLE
        BY <3>4 DEF Contents
      <4>2. CASE q = p
        BY <1>1, <1>2, <3>1, <3>3, <4>1, <4>2
      <4>3. CASE q # p
        BY <1>1, <1>2, <3>1, <3>3, <4>1, <4>3
      <4> QED
        BY <4>2, <4>3
    <3>5. last.result = "complete" =>
            Len(file') = Size /\ \A k \in 1 .. Size : file'[k] # HOLE
      BY <1>1, <1>2, <3>3 DEF Contents
    <3> QED
      BY <2>1, <2>2, <3>2, <3>3, <3>4, <3>5 DEF Contents
  <2>4. CASE Returns(p)
    <3>1. PICK r \in {"complete", "cut", "failed"} :
            (r = "complete" => count[p] = Size) /\ Conclude(p, r)
      BY <2>4 DEF Returns
    <3>2. UNCHANGED << file, count >> /\ pc' = [pc EXCEPT ![p] = "close"]
      BY <2>4 DEF Returns, Goto
    <3>3. last'.by = last.by /\ last'.result = IF last.by = p THEN r ELSE last.result
      BY <1>1, <3>1 DEF Conclude
    <3>4. last'.result = "complete" =>
            Len(file) = Size /\ \A k \in 1 .. Size : file[k] # HOLE
      <4>1. CASE last.by = p
        <5>1. count[p] =< Len(file) /\ \A k \in 1 .. count[p] : file[k] # HOLE
          BY <2>1, <4>1 DEF Contents
        <5>2. Len(file) =< Size
          BY <2>2 DEF Contents
        <5> QED
          BY <1>1, <1>2, <3>1, <3>3, <4>1, <5>1, <5>2
      <4>2. CASE last.by # p
        BY <3>3, <4>2 DEF Contents
      <4> QED
        BY <4>1, <4>2
    <3>5. \A q \in Procs : pc'[q] \in Writing => pc[q] \in Writing
      BY <1>1, <3>2 DEF Writing
    <3> QED
      BY <2>1, <2>2, <3>2, <3>3, <3>4, <3>5 DEF Contents
  <2>5. CASE Aborts(p)
    <3>1. PICK n \in Nat : Extends(p, n)
      BY <2>5 DEF Aborts
    <3>2. /\ UNCHANGED count /\ pc' = [pc EXCEPT ![p] = "aborted"]
          /\ last'.by = last.by /\ last'.result = IF last.by = p THEN "failed" ELSE last.result
      BY <1>1, <2>5 DEF Aborts, Goto, Conclude
    <3>3. /\ Len(file') \in Nat /\ Len(file') =< Size /\ Len(file) =< Len(file')
          /\ \A k \in 1 .. Len(file') : file'[k] # OLD
          /\ \A k \in 1 .. Len(file) : file[k] # HOLE => file'[k] # HOLE
      BY <2>1, <2>2, <3>1, ExtendsContents, LenProperties
    <3>4. ASSUME NEW q \in Procs, last.by = q, pc'[q] \in Writing
          PROVE  count[q] =< Len(file') /\ \A k \in 1 .. count[q] : file'[k] # HOLE
      <4>1. pc[q] \in Writing
        BY <1>1, <3>2, <3>4 DEF Writing
      <4>2. count[q] =< Len(file) /\ \A k \in 1 .. count[q] : file[k] # HOLE
        BY <3>4, <4>1 DEF Contents
      <4> QED
        BY <1>1, <1>2, <3>3, <4>2
    <3>5. last'.result = "complete" =>
            Len(file') = Size /\ \A k \in 1 .. Size : file'[k] # HOLE
      <4>1. last'.result = "complete" => last.result = "complete"
        BY <3>2
      <4> QED
        BY <1>1, <1>2, <3>3, <4>1 DEF Contents
    <3> QED
      BY <2>1, <2>2, <3>2, <3>3, <3>4, <3>5 DEF Contents
  <2> QED
    BY <2>1, <2>3, <2>4, <2>5
<1> QED
  BY <1>3, <1>4, <1>5, <1>6, Steps

\* Processes write their lines one after another.
LEMMA AppendedStep ==
  ASSUME TypeOK, Places, Holding, Appended, Next
  PROVE  Appended'
<1>1. /\ Root \in Procs /\ Root \notin Kin /\ test \in {"simple", "server"}
      /\ file \in Seq(Cells) /\ log \in Seq(Procs) /\ offset \in [Procs -> Nat]
      /\ count \in [Procs -> Nat]
  BY ConstantFacts, FileWritersAssumption DEF TypeOK, Cells
<1>2. Len(file) \in Nat /\ Len(log) \in Nat
  BY <1>1, LenProperties
<1>3. CASE UNCHANGED << test, platform, file, log >> /\ offset'[Root] = offset[Root]
  BY <1>3 DEF Appended
<1> USE DEF setup, files, ghosts, Goto
<1>4. CASE OpenTest
  <2>1. log = << >> /\ Len(log) = 0
    BY <1>4 DEF OpenTest, Places
  <2>2. offset'[Root] = 0 \/ offset'[Root] = offset[Root]
    BY <1>1, <1>4 DEF OpenTest, Open, End, Close
  <2>3. UNCHANGED << test, platform, file, log >>
    BY <1>4 DEF OpenTest, Open, End, Close
  <2>4. CASE offset'[Root] = 0
    BY <2>1, <2>3, <2>4, <1>2 DEF Appended
  <2> QED
    BY <1>3, <2>2, <2>3, <2>4
<1>5. CASE Fork
  <2>1. PICK c \in Absent : offset' = offset \/ offset' = [offset EXCEPT ![c] = offset[Root]]
    BY <1>5 DEF Fork
  <2>2. c # Root
    BY <1>5 DEF Fork, Absent
  <2> QED
    BY <1>1, <1>3, <1>5, <2>1, <2>2 DEF Fork
<1>6. CASE PrologueReturns \/ PrologueFails
  BY <1>3, <1>6 DEF PrologueReturns, PrologueFails, End, Close
<1>7. ASSUME NEW p \in Procs,
             LinesWritten(p) \/ OutClose(p) \/ StartServer(p) \/ Request(p) \/ CloseFile(p)
      PROVE  Appended'
  BY <1>3, <1>7 DEF LinesWritten, OutClose, StartServer, Request, CloseFile, End, Close
<1>8. ASSUME NEW p \in Procs, CreateFile(p) \/ WriteChars(p) \/ WriteWords(p) \/ WriteBuffer(p)
      PROVE  Appended'
  <2>1. test' = "server"
    BY <1>1, <1>8 DEF CreateFile, WriteChars, WriteWords, WriteBuffer, Places
  <2> QED
    BY <2>1 DEF Appended
<1>9. ASSUME NEW p \in Procs, WriteLine(p), test = "simple", platform = "posix"
      PROVE  Appended'
  <2>1. PICK n \in 0 .. LineLength[count[p] + 1] :
          Write(p, n) /\ log' = log \o [k \in 1 .. n |-> p]
    BY <1>9 DEF WriteLine
  <2>2. n \in Nat /\ fd[p] = Root /\ UNCHANGED << test, platform >>
    BY <1>9 DEF WriteLine, Holding
  <2>3. /\ offset[Root] = Len(log) /\ Len(log) =< Len(file)
        /\ \A k \in 1 .. Len(log) : file[k] = log[k]
    BY <1>9 DEF Appended
  <2>4. [k \in 1 .. n |-> p] \in Seq(Procs) /\ Len([k \in 1 .. n |-> p]) = n
    <3>1. [k \in 1 .. n |-> p] \in [1 .. n -> Procs]
      OBVIOUS
    <3>2. [k \in 1 .. n |-> p] \in Seq(Procs)
      BY <2>2, <3>1, SeqDef
    <3> QED
      BY <2>2, <3>1, <3>2, LenProperties
  <2>5. /\ Len(log') = Len(log) + n
        /\ \A k \in 1 .. Len(log') : log'[k] = IF k =< Len(log) THEN log[k] ELSE p
    <3> DEFINE s == [k \in 1 .. n |-> p]
    <3>1. /\ Len(log \o s) = Len(log) + Len(s)
          /\ \A k \in 1 .. Len(log) + Len(s) :
               (log \o s)[k] = IF k =< Len(log) THEN log[k] ELSE s[k - Len(log)]
      BY <1>1, <2>4, ConcatProperties
    <3>2. \A k \in 1 .. Len(log) + n : k > Len(log) => s[k - Len(log)] = p
      BY <1>2, <2>2
    <3> HIDE DEF s
    <3>3. log' = log \o s /\ Len(s) = n
      BY <2>1, <2>4 DEF s
    <3> QED
      BY <1>2, <3>1, <3>2, <3>3
  <2>6. offset' = [offset EXCEPT ![Root] = Len(log) + n]
    BY <1>1, <2>1, <2>2, <2>3 DEF Write
  <2>7. /\ Len(log) + n =< Len(file')
        /\ \A k \in 1 .. Len(log) : file'[k] = file[k]
        /\ \A k \in 1 .. Len(log) + n : k > Len(log) => file'[k] = p
    <3>1. CASE n = 0
      <4>1. file' = file
        BY <2>1, <3>1 DEF Write
      <4> QED
        BY <1>2, <2>3, <3>1, <4>1
    <3>2. CASE n # 0
      <4>1. file' = Written(file, Len(log), n, p)
        BY <2>1, <2>2, <2>3, <3>2 DEF Write
      <4>2. /\ Len(file') = IF Len(log) + n > Len(file) THEN Len(log) + n ELSE Len(file)
            /\ \A k \in 1 .. Len(file') :
                 file'[k] = IF Len(log) < k /\ k =< Len(log) + n THEN p
                            ELSE IF k =< Len(file) THEN file[k] ELSE HOLE
        <5>1. file \in Seq(Cells) /\ Len(log) \in Nat /\ n \in Nat /\ p \in Procs
          BY <1>1, <1>2, <2>2
        <5> HIDE DEF Cells
        <5> QED
          BY ONLY <5>1, <4>1, WrittenCells
      <4>3. Len(file') \in Nat /\ Len(log) + n =< Len(file') /\ Len(file) =< Len(file')
        BY <1>2, <2>2, <4>2
      <4>4. \A k \in 1 .. Len(log) : file'[k] = file[k]
        BY <1>2, <2>2, <2>3, <4>2, <4>3
      <4>5. \A k \in 1 .. Len(log) + n : k > Len(log) => file'[k] = p
        BY <1>2, <2>2, <4>2, <4>3
      <4> QED
        BY <4>3, <4>4, <4>5
    <3> QED
      BY <3>1, <3>2
  <2>8. offset'[Root] = Len(log') /\ Len(log') =< Len(file')
    BY <1>1, <2>5, <2>6, <2>7
  <2>9. \A k \in 1 .. Len(log') : file'[k] = log'[k]
    BY <1>2, <2>2, <2>3, <2>5, <2>7
  <2> QED
    BY <2>8, <2>9 DEF Appended
<1>10. ASSUME NEW p \in Procs, WriteLine(p)
       PROVE  Appended'
  <2>1. CASE test = "simple" /\ platform = "posix"
    BY <1>9, <1>10, <2>1
  <2>2. CASE ~ (test = "simple" /\ platform = "posix")
    <3>1. UNCHANGED << test, platform >>
      BY <1>10 DEF WriteLine
    <3> QED
      BY <2>2, <3>1 DEF Appended
  <2> QED
    BY <2>1, <2>2
<1> QED
  BY <1>4, <1>5, <1>6, <1>7, <1>8, <1>10 DEF Next, Family, Step

\* The types and the invariant hold in every state.
THEOREM FilesInvariant == Spec => [](TypeOK /\ IInv)
<1>1. Init => TypeOK /\ IInv
  BY InitTypes, InitInv
<1>2. TypeOK /\ IInv /\ [Next]_vars => (TypeOK /\ IInv)'
  <2> SUFFICES ASSUME TypeOK, IInv, [Next]_vars PROVE (TypeOK /\ IInv)'
    OBVIOUS
  <2>1. CASE Next
    <3>1. TypeOK'
      BY <2>1, FamilyTypes, ServerTypes DEF Next, Step, Family
    <3>2. Places' /\ Holding' /\ Progress' /\ Contents' /\ Appended'
      BY <2>1, PlacesStep, HoldingStep, ProgressStep, ContentsStep, AppendedStep DEF IInv
    <3> QED
      BY <3>1, <3>2 DEF IInv
  <2>2. CASE UNCHANGED vars
    <3> USE <2>2 DEF vars, setup, files, locals, ghosts
    <3>1. TypeOK'
      BY DEF TypeOK
    <3>2. Places' /\ Holding'
      BY DEF IInv, Places, Holding
    <3>3. Progress' /\ Contents' /\ Appended'
      BY DEF IInv, Progress, Contents, Appended
    <3> QED
      BY <3>1, <3>2, <3>3 DEF IInv
  <2> QED
    BY <2>1, <2>2
<1> QED
  BY <1>1, <1>2, PTL DEF Spec

\* Every variable keeps its type.
THEOREM FilesTypeCorrect == Spec => []TypeOK
BY FilesInvariant, PTL

\* A file whose request succeeded is whole, whatever the size, the number of
\* servers that rewrite it and the way each writes.
THEOREM WholeFiles == Spec => []LastWriterLeavesAll
<1>1. TypeOK /\ IInv => LastWriterLeavesAll
  <2> SUFFICES ASSUME TypeOK, IInv, last.result = "complete"
               PROVE  Len(file) = Size /\ \A k \in 1 .. Size : file[k] \notin {OLD, HOLE}
    BY DEF LastWriterLeavesAll
  <2>1. Len(file) = Size /\ \A k \in 1 .. Size : file[k] # HOLE
    BY DEF IInv, Contents
  <2>2. last.by # NONE
    BY DEF IInv, Contents
  <2>3. \A k \in 1 .. Size : file[k] # OLD
    BY <2>1, <2>2 DEF IInv, Contents
  <2> QED
    BY <2>1, <2>3
<1> QED
  BY <1>1, FilesInvariant, PTL

\* A server between two requests has no file and no buffer.
THEOREM NothingKept == Spec => []IdleHoldsNothing
<1>1. TypeOK /\ IInv => IdleHoldsNothing
  <2> SUFFICES ASSUME TypeOK, IInv, NEW p \in Procs, pc[p] = "idle"
               PROVE  fd[p] = NONE /\ ~ buf[p]
    BY DEF IdleHoldsNothing
  <2>1. test = "server"
    BY ConstantFacts DEF TypeOK, IInv, Places
  <2> QED
    BY <2>1 DEF IInv, Holding, Writing
<1> QED
  BY <1>1, FilesInvariant, PTL

\* On Linux the lines of a family of any size follow one another in the file.
THEOREM LinesFollow == Spec => []NothingOverwritten
<1>1. TypeOK /\ IInv => NothingOverwritten
  <2> SUFFICES ASSUME TypeOK, IInv, test = "simple", platform = "posix"
               PROVE  Len(log) =< Len(file) /\ SubSeq(file, 1, Len(log)) = log
    BY DEF NothingOverwritten
  <2>1. /\ Len(log) =< Len(file) /\ \A k \in 1 .. Len(log) : file[k] = log[k]
    BY DEF IInv, Appended
  <2>2. /\ file \in Seq(Cells) /\ log \in Seq(Procs)
        /\ Len(file) \in Nat /\ Len(log) \in Nat
    BY LenProperties DEF TypeOK, Cells
  <2>3. SubSeq(file, 1, Len(log)) = [k \in 1 .. Len(log) |-> file[k]]
    BY <2>2
  <2>4. log = [k \in 1 .. Len(log) |-> log[k]]
    BY <2>2, LenProperties
  <2> QED
    BY <2>1, <2>3, <2>4
<1> QED
  BY <1>1, FilesInvariant, PTL

=============================================================================
